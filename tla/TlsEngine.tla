------------------------------ MODULE TlsEngine ------------------------------
(***************************************************************************)
(* The TLS 1.3 client engine (src/src/tls/tls.c) with the traffic keys and *)
(* sequence numbers its kit keeps (src/src/bank/api.c).  It blocks on      *)
(* nothing: the caller feeds it what the socket delivered, in pieces cut   *)
(* anywhere, and sends what it queues.                                     *)
(*                                                                         *)
(* A record is read as its header, the items of its content one by one,    *)
(* and its end (the tag checked).  An item is a part of a handshake        *)
(* message (its header, then its body), a piece of application data, or an *)
(* alert; records cut a flight of messages anywhere.  Cryptography is      *)
(* ideal: a record opens under the key and number it was sealed with, and  *)
(* a signature or a Finished is good or not as its sender made it.         *)
(***************************************************************************)
EXTENDS Naturals, Sequences

CONSTANTS
  OutMax   \* records the out buffer has room for

ASSUME OutAssumption == OutMax \in Nat \ {0}

VARIABLES
  state,           \* TLS_*
  error,           \* TLS_E_*: the first one
  rd_on,           \* rd_on and wr_on, set together: the keys are up
  rd, wr,          \* the traffic key and the next sequence number (api.c)
  mac,             \* Poly1305's one multiplier table: see Fresh
  rec,             \* the record being read, or NoRec between records
  rec_connected,   \* it began after the handshake
  rd_switch,       \* to the application read keys when it ends
  msg_type,        \* the handshake message being read, or "none"
  msg,             \* what the message buffer holds
  cv_seen,         \* a CertificateVerify has been in it
  leaf,            \* the bank holds a leaf certificate
  cert_requested,
  out,             \* records queued for sending
  delivered,       \* what on_data handed the client
  kept             \* ghost: how much of it had its record's tag checked

record == <<rec, rec_connected, rd_switch>>
message == <<msg_type, msg, cv_seen, leaf, cert_requested>>
keys == <<rd_on, rd, wr>>
data == <<delivered, kept>>
engine == <<state, error, keys, mac, record, message, out, data>>

Plain == [key |-> "plain", seq |-> 0]
NoRec == [outer |-> "none"]
Sealed == rd_on /\ rec.outer = "appdata"

\* The table is built for the record being read or the one being sealed; ready
\* is the reader's note that it is its own (rr_ready), garbled that a block of
\* the record was computed with the other's.
Fresh == [for |-> "rd", ready |-> TRUE, garbled |-> FALSE]

Fail(e) == state' = "FAILED" /\ error' = e
Proceed == UNCHANGED <<state, error>>
Enter(s) == state' = s /\ UNCHANGED error

-----------------------------------------------------------------------------
(* Sending *)

\* seal: one record under the write key, numbered (ck_api_seal).
Record(kind) == [kind |-> kind, key |-> wr.key, seq |-> wr.seq]
Numbered == [wr EXCEPT !.seq = @ + 1]
Room == Len(out) < OutMax

\* Poly1305 on the record being read, rebuilding the table unless it is ready.
Blocked ==
  [mac EXCEPT !.for = IF mac.ready THEN @ ELSE "rd",
              !.ready = TRUE,
              !.garbled = @ \/ (mac.ready /\ mac.for # "rd")]

\* Mutant: the reader is not told that the table is no longer its own.
SealedOver_untold(m) == [m EXCEPT !.for = "wr"]

\* A record sealed meanwhile: the reader must rebuild the table.
SealedOver(m) == [m EXCEPT !.for = "wr", !.ready = FALSE]

\* Mutant: the out buffer is not emptied.
tls_start_appending ==
  /\ state' = "WAIT_SH" /\ error' = "NONE"
  /\ rd_on' = FALSE
  /\ rd' = Plain /\ wr' = Plain
  /\ rec' = NoRec /\ rec_connected' = FALSE /\ rd_switch' = FALSE
  /\ msg_type' = "none" /\ cert_requested' = FALSE /\ cv_seen' = FALSE
  /\ out' = Append(out, [kind |-> "hello", key |-> "plain", seq |-> 0])
  /\ delivered' = <<>> /\ kept' = 0
  /\ UNCHANGED <<msg, leaf, mac>>

\* tls_start: every field of the connection before is reset, but the message
\* buffer and the bank's certificates, and the ClientHello queued in the clear.
tls_start ==
  /\ state' = "WAIT_SH" /\ error' = "NONE"
  /\ rd_on' = FALSE
  /\ rd' = Plain /\ wr' = Plain
  /\ rec' = NoRec /\ rec_connected' = FALSE /\ rd_switch' = FALSE
  /\ msg_type' = "none" /\ cert_requested' = FALSE /\ cv_seen' = FALSE
  /\ out' = <<[kind |-> "hello", key |-> "plain", seq |-> 0]>>
  /\ delivered' = <<>> /\ kept' = 0
  /\ UNCHANGED <<msg, leaf, mac>>

\* tls_write: a line of the client's, if connected and there is room.
CanWrite == state = "CONNECTED" /\ Room
tls_write ==
  /\ out' = Append(out, Record("line"))
  /\ wr' = Numbered
  /\ mac' = SealedOver(mac)
  /\ UNCHANGED <<state, error, rd_on, rd, record, message, data>>

\* tls_close: the close_notify, dropped if there is no room.
tls_close ==
  /\ out' = IF Room THEN Append(out, Record("close")) ELSE out
  /\ wr' = IF Room THEN Numbered ELSE wr
  /\ mac' = IF Room THEN SealedOver(mac) ELSE mac
  /\ UNCHANGED <<state, error, rd_on, rd, record, message, data>>

-----------------------------------------------------------------------------
(* Handshake messages *)

\* server_hello: the handshake keys, or the reason it will not do.
server_hello(ok) ==
  /\ IF ok = "good"
       THEN /\ Enter("WAIT_HS")
            /\ rd_on' = TRUE
            /\ rd' = [key |-> "s_hs", seq |-> 0]
            /\ wr' = [key |-> "c_hs", seq |-> 0]
       ELSE Fail(ok) /\ UNCHANGED keys
  /\ UNCHANGED <<rd_switch, cv_seen, leaf, cert_requested, out>>

\* Mutant: the write keys switch before the client's Finished is sealed.
server_finished_switched(ok) ==
  /\ IF ok # "good" THEN Fail("FINISHED") /\ UNCHANGED <<wr, out, rd_switch>>
     ELSE IF ~Room THEN Fail("BUFFER") /\ UNCHANGED <<wr, out, rd_switch>>
     ELSE /\ Enter("VERIFYING")
          /\ out' = Append(out, [kind |-> "finished", key |-> "c_ap", seq |-> 0])
          /\ wr' = [key |-> "c_ap", seq |-> 1]
          /\ rd_switch' = TRUE
  /\ UNCHANGED <<rd_on, rd, cv_seen, leaf, cert_requested>>

\* server_finished: the client's flight sealed under the handshake keys (an
\* empty Certificate with it if one was asked for), then the application keys:
\* for writing at once, for reading when this record ends.
server_finished(ok) ==
  /\ IF ok # "good" THEN Fail("FINISHED") /\ UNCHANGED <<wr, out, rd_switch>>
     ELSE IF ~Room THEN Fail("BUFFER") /\ UNCHANGED <<wr, out, rd_switch>>
     ELSE /\ Enter("VERIFYING")
          /\ out' = Append(out, Record(IF cert_requested THEN "empty+finished"
                                                         ELSE "finished"))
          /\ wr' = [key |-> "c_ap", seq |-> 0]
          /\ rd_switch' = TRUE
  /\ UNCHANGED <<rd_on, rd, cv_seen, leaf, cert_requested>>

\* msg_begin: which messages may come, by state, in any order among themselves.
Expected(m) ==
  \/ state = "WAIT_SH" /\ m = "SH"
  \/ state = "WAIT_HS" /\ m \in {"EE", "CR", "CERT", "CV", "FIN"}

msg_begin(m) ==
  /\ msg_type' = m
  /\ IF Expected(m) THEN Proceed ELSE Fail("MESSAGE")
  /\ leaf' = (leaf /\ ~(state = "WAIT_HS" /\ m = "CERT"))
  /\ UNCHANGED <<msg, cv_seen, cert_requested, rd_switch, keys, out>>

\* msg_end: the message whole.  All but Certificate and Finished are buffered
\* in msg, the CertificateVerify for tls_verify to find there.
msg_end(ok) ==
  /\ msg_type' = "none"
  /\ msg' = IF msg_type \in {"SH", "EE", "CR", "CV"}
              THEN [type |-> msg_type, ok |-> ok] ELSE msg
  /\ \/ msg_type = "SH" /\ server_hello(ok)
     \/ msg_type = "FIN" /\ server_finished(ok)
     \/ /\ msg_type \in {"EE", "CR", "CERT", "CV"}
        /\ IF msg_type = "EE" \/ ok # "malformed" THEN Proceed
           ELSE Fail(IF msg_type = "CERT" THEN "CERT" ELSE "MESSAGE")
        /\ leaf' = (leaf \/ (msg_type = "CERT" /\ ok # "malformed"))
        /\ cv_seen' = (cv_seen \/ (msg_type = "CV" /\ ok # "malformed"))
        /\ cert_requested' = (cert_requested \/ (msg_type = "CR" /\ ok # "malformed"))
        /\ UNCHANGED <<keys, out, rd_switch>>

\* hs_feed: a part of a message, or, out of place, bytes that will not do as
\* one; the two bytes of an alert are less than a header and wait in vain.
hs_feed(x) ==
  /\ \/ x.at = "header" /\ msg_begin(x.m)
     \/ x.at = "body" /\ msg_type # "none" /\ msg_end(x.ok)
     \/ /\ \/ x.at = "data"
           \/ x.at = "body" /\ msg_type = "none"
        /\ Fail("MESSAGE")
        /\ UNCHANGED <<message, keys, rd_switch, out>>
     \/ /\ x.at = "alert"
        /\ Proceed
        /\ UNCHANGED <<message, keys, rd_switch, out>>
  /\ UNCHANGED data

-----------------------------------------------------------------------------
(* Records *)

alert_in(desc) == IF desc = "close" THEN Enter("CLOSED") ELSE Fail("ALERT")

\* tls_in reads nothing more once the connection failed or was closed.
Reading == state \in {"WAIT_SH", "WAIT_HS", "VERIFYING", "CONNECTED"}

\* record_start: r's header is whole.
record_start(r) ==
  /\ Reading
  /\ rec = NoRec
  /\ rec' = r
  /\ rec_connected' = (state = "CONNECTED")
  /\ IF ~r.framed \/ (rd_on /\ r.outer = "handshake") THEN Fail("RECORD") ELSE Proceed
  /\ mac' = IF rd_on /\ r.outer = "appdata" THEN Fresh ELSE mac
  /\ UNCHANGED <<rd_switch, keys, message, out, data>>

\* The record was sealed as it is opened, and came whole; and its tag matches.
Genuine == rec.good /\ rec.key = rd.key /\ rec.seq = rd.seq
TagOk == Genuine /\ ~Blocked.garbled

\* What deciphering makes of an item of a record that is not what it should be.
Opened(x) == IF Genuine THEN <<x.m, x.n>> ELSE <<"garbage", 0>>

\* The next item of the record (enc_feed, or tls_in for one in the clear).
\* Once connected, whatever a sealed record holds goes to the client.
Content ==
  /\ Reading
  /\ rec # NoRec /\ rec.items # <<>>
  /\ rec' = [rec EXCEPT !.items = Tail(@)]
  /\ LET x == Head(rec.items)
     IN  \/ /\ Sealed /\ state = "CONNECTED"
            /\ delivered' = Append(delivered, Opened(x))
            /\ UNCHANGED <<state, error, keys, rd_switch, message, out, kept>>
         \/ /\ rec.outer = "handshake" \/ (Sealed /\ state # "CONNECTED")
            /\ hs_feed(x)
         \/ /\ rec.outer = "alert"   \* heard if its two bytes come together
            /\ alert_in(rec.desc) \/ Proceed
            /\ UNCHANGED <<keys, rd_switch, message, out, data>>
         \/ /\ rec.outer = "ccs"
            /\ UNCHANGED <<state, error, keys, rd_switch, message, out, data>>
         \/ /\ ~Sealed /\ rec.outer = "appdata"
            /\ Fail("RECORD")
            /\ UNCHANGED <<keys, rd_switch, message, out, data>>
  /\ mac' = LET m == IF Sealed THEN Blocked ELSE mac
            IN  IF out' = out THEN m ELSE SealedOver(m)   \* our Finished
  /\ UNCHANGED rec_connected

\* Mutant: the read keys are not switched with the record that held Finished.
record_end_unswitched ==
  /\ Reading
  /\ rec # NoRec /\ rec.items = <<>>
  /\ rec' = NoRec
  /\ rd_switch' = FALSE
  /\ rd' = IF Sealed THEN [rd EXCEPT !.seq = @ + 1] ELSE rd
  /\ kept' = IF ~Sealed \/ TagOk THEN Len(delivered) ELSE kept
  /\ IF ~Sealed THEN Proceed
     ELSE IF ~TagOk THEN Fail("TAG")
     ELSE IF rec.inner = "appdata" /\ ~rec_connected THEN Fail("MESSAGE")
     ELSE IF rec.inner = "alert" THEN alert_in(rec.desc)
     ELSE Proceed
  /\ mac' = IF Sealed THEN Blocked ELSE mac
  /\ UNCHANGED <<rec_connected, rd_on, wr, message, out, delivered>>

\* Mutant: the record's tag is not looked at.
record_end_untagged ==
  /\ Reading
  /\ rec # NoRec /\ rec.items = <<>>
  /\ rec' = NoRec
  /\ rd_switch' = FALSE
  /\ rd' = IF ~Sealed THEN rd
           ELSE IF rd_switch THEN [key |-> "s_ap", seq |-> 0]
           ELSE [rd EXCEPT !.seq = @ + 1]
  /\ kept' = Len(delivered)
  /\ IF ~Sealed THEN Proceed
     ELSE IF rec.inner = "appdata" /\ ~rec_connected THEN Fail("MESSAGE")
     ELSE IF rec.inner = "alert" THEN alert_in(rec.desc)
     ELSE Proceed
  /\ mac' = IF Sealed THEN Blocked ELSE mac
  /\ UNCHANGED <<rec_connected, rd_on, wr, message, out, delivered>>

\* record_end: a sealed record's tag checked and its number used up, the read
\* keys switched if it held the server's Finished, and then what it was.
record_end ==
  /\ Reading
  /\ rec # NoRec /\ rec.items = <<>>
  /\ rec' = NoRec
  /\ rd_switch' = (rd_switch /\ ~Sealed)
  /\ rd' = IF ~Sealed THEN rd
           ELSE IF rd_switch THEN [key |-> "s_ap", seq |-> 0]
           ELSE [rd EXCEPT !.seq = @ + 1]
  /\ kept' = IF ~Sealed \/ TagOk THEN Len(delivered) ELSE kept
  /\ IF ~Sealed THEN Proceed
     ELSE IF ~TagOk THEN Fail("TAG")
     ELSE IF rec.inner = "appdata" /\ ~rec_connected THEN Fail("MESSAGE")
     ELSE IF rec.inner = "alert" THEN alert_in(rec.desc)
     ELSE Proceed
  /\ mac' = IF Sealed THEN Blocked ELSE mac
  /\ UNCHANGED <<rec_connected, rd_on, wr, message, out, delivered>>

-----------------------------------------------------------------------------
(* The signature *)

\* Mutant: a Finished without a CertificateVerify before it will do.
tls_verify_unsigned ==
  /\ IF cv_seen /\ (msg.type # "CV" \/ msg.ok = "wrong" \/ ~leaf)
       THEN Fail("SIGNATURE") ELSE Enter("CONNECTED")
  /\ UNCHANGED <<keys, mac, record, message, out, data>>

\* tls_verify, in state VERIFYING: the CertificateVerify in msg against the
\* leaf.  One of a scheme the kit cannot check is taken as unproven, not wrong.
tls_verify ==
  /\ IF state # "VERIFYING" THEN Proceed
     ELSE IF ~cv_seen THEN Fail("MESSAGE")
     ELSE IF msg.type # "CV" \/ msg.ok = "wrong" \/ (msg.ok = "good" /\ ~leaf)
       THEN Fail("SIGNATURE") ELSE Enter("CONNECTED")
  /\ UNCHANGED <<keys, mac, record, message, out, data>>

-----------------------------------------------------------------------------
EngineInit ==
  /\ state = "IDLE" /\ error = "NONE"
  /\ rd_on = FALSE /\ rd = Plain /\ wr = Plain /\ mac = Fresh
  /\ rec = NoRec /\ rec_connected = FALSE /\ rd_switch = FALSE
  /\ msg_type = "none" /\ msg = [type |-> "none", ok |-> "good"]
  /\ cv_seen = FALSE /\ leaf = FALSE /\ cert_requested = FALSE
  /\ out = <<>> /\ delivered = <<>> /\ kept = 0
=============================================================================

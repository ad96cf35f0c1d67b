-------------------------------- MODULE Conn --------------------------------
(***************************************************************************)
(* One TLS connection as the client makes it (src/src/m65/conn.c): the     *)
(* engine of TlsEngine, pumped between a socket that can be lost or stop   *)
(* taking bytes and a server on the other side of it.  The socket is       *)
(* mega-net's and the server is a TLS server: both are outside this code.  *)
(***************************************************************************)
EXTENDS TlsEngine, SequencesExt

CONSTANTS
  HelloKinds,   \* ServerHellos: "good", or the reason one will not do
  Flights,      \* the handshake flights a server may send, as items
  Replies,      \* what a server sends once the handshake is over
  ChainResults, \* what the chain check may say (CHAIN_*)
  Cuts,         \* how many items a record of the flight may hold
  Faults,       \* what may befall a record: "framing" or "tag"
  MaxFaults,    \* how many records it befalls on a connection
  Stalls,       \* the server may stop taking bytes
  MaxOpens,     \* connections opened
  MaxReplies,   \* records a server sends after the handshake
  MaxLines      \* lines the client sends on a connection

\* What a flight is made of: each message's header, then its body.
FlightParts ==
  [m : {"SH", "EE", "CR", "CERT", "CV", "FIN"}, at : {"header", "body"},
   ok : {"good", "odd", "wrong", "malformed"}, n : {0}]

ASSUME ConnAssumption ==
  /\ {"NONE", "BUFFER"} \cap HelloKinds = {}   \* reasons of other kinds
  /\ Flights \subseteq Seq(FlightParts)
  /\ Replies \subseteq {"line", "ticket", "close", "fatal"}

VARIABLES
  conn,         \* where conn.c is: see Phases
  conn_retry, conn_cancelled, conn_chain,
  alive,        \* net_alive: the socket
  window,       \* the server's window takes bytes
  wire,         \* records on the way to the client
  sent,         \* records that left the client
  srv,          \* the server
  opens         \* connections opened so far

socket == <<alive, window>>
outcome == <<conn_retry, conn_cancelled, conn_chain>>
vars == <<engine, conn, outcome, socket, wire, sent, srv, opens>>

\* Shut; in pump's loop, reading or in push_out; between pump and tls_verify;
\* open, in the session's loop; in conn_send's push_out, or conn_close's.
Phases == {"shut", "pump", "push", "verify", "open", "send", "close"}

Abort(retry, cancelled) ==
  conn' = "shut" /\ alive' = FALSE /\ conn_retry' = retry /\ conn_cancelled' = cancelled

-----------------------------------------------------------------------------
(* conn_open *)

\* The dial, and the ClientHello queued.
conn_open ==
  /\ conn = "shut"
  /\ opens < MaxOpens
  /\ opens' = opens + 1
  /\ conn_chain' = "unreached" /\ conn_cancelled' = FALSE
  /\ \/ /\ conn' = "pump" /\ conn_retry' = FALSE /\ alive' = TRUE
        /\ tls_start
        /\ wire' = <<>> /\ sent' = <<>> /\ window' = TRUE
        /\ srv' = [at |-> "listening", key |-> "plain", seq |-> 0, todo |-> <<>>,
                   rd |-> Plain, heard |-> 0, honest |-> TRUE, proves |-> FALSE,
                   said |-> <<>>, replies |-> 0, faults |-> 0]
     \/ /\ conn' = "shut" /\ conn_retry' = TRUE /\ alive' = FALSE
        /\ UNCHANGED <<engine, wire, sent, srv, window>>

\* tls_in takes the next record, item or end of what the socket delivered; a
\* delivery can end, and the caller go on, between any two.
InPhase == conn \in {"pump", "open"}

ReadStart ==
  /\ InPhase
  /\ wire # <<>>
  /\ record_start(Head(wire))
  /\ wire' = Tail(wire)
  /\ UNCHANGED <<conn, outcome, socket, sent, srv, opens>>

ReadContent ==
  /\ InPhase
  /\ Content
  /\ UNCHANGED <<conn, outcome, socket, wire, sent, srv, opens>>

ReadEnd ==
  /\ InPhase
  /\ record_end
  /\ UNCHANGED <<conn, outcome, socket, wire, sent, srv, opens>>

\* pump, having fed the engine what came, goes on to send.
PumpFed ==
  /\ conn = "pump"
  /\ conn' = "push"
  /\ UNCHANGED <<engine, outcome, socket, wire, sent, srv, opens>>

\* push_out: the socket takes a record, when the server's window lets it.
PushOut ==
  /\ conn \in {"push", "send", "close"}
  /\ out # <<>> /\ alive /\ window
  /\ sent' = Append(sent, Head(out))
  /\ out' = Tail(out)
  /\ UNCHANGED <<state, error, keys, mac, record, message, data>>
  /\ UNCHANGED <<conn, outcome, socket, wire, srv, opens>>

\* handshake_done
Done == state \notin {"WAIT_SH", "WAIT_HS"}

\* Where pump comes round, and what conn_open makes of its return: the
\* engine's failure, the handshake's end, or the socket's.
PumpRound ==
  /\ conn = "push"
  /\ \/ /\ out = <<>> /\ state = "VERIFYING"
        /\ conn' = "verify"
        /\ UNCHANGED <<outcome, alive>>
     \/ /\ out = <<>> /\ ~Done /\ (alive \/ wire # <<>>)
        /\ conn' = "pump"
        /\ UNCHANGED <<outcome, alive>>
     \/ /\ \/ out # <<>> /\ ~alive
           \/ out = <<>> /\ Done /\ state # "VERIFYING"
           \/ out = <<>> /\ ~Done /\ ~alive /\ wire = <<>>
        /\ Abort(error # "ALERT", FALSE)
        /\ UNCHANGED conn_chain
  /\ UNCHANGED <<engine, window, wire, sent, srv, opens>>

\* Mutant: the bound is only on the wait for the first byte.
PumpGivesUp_first_byte ==
  /\ conn = "push" /\ out = <<>> /\ state = "WAIT_SH"
  /\ alive \/ wire # <<>>
  /\ \E stop \in BOOLEAN : Abort(error # "ALERT", stop)
  /\ UNCHANGED <<engine, conn_chain, window, wire, sent, srv, opens>>

\* Thirty seconds without a byte, or RUN/STOP, between two rounds.
PumpGivesUp ==
  /\ conn = "push" /\ out = <<>> /\ ~Done
  /\ alive \/ wire # <<>>
  /\ \E stop \in BOOLEAN : Abort(error # "ALERT", stop)
  /\ UNCHANGED <<engine, conn_chain, window, wire, sent, srv, opens>>

\* The server's signature and then its chain: tried again elsewhere only if
\* this client cannot check it.
Verify ==
  /\ conn = "verify"
  /\ tls_verify
  /\ IF state' # "CONNECTED"
       THEN Abort(FALSE, FALSE) /\ UNCHANGED conn_chain
       ELSE \E r \in ChainResults :
              /\ conn_chain' = r
              /\ IF r = "OK"
                   THEN conn' = "open" /\ UNCHANGED <<alive, conn_retry, conn_cancelled>>
                   ELSE Abort(r = "UNSUPPORTED", FALSE)
  /\ UNCHANGED <<window, wire, sent, srv, opens>>

-----------------------------------------------------------------------------
(* An open connection *)

Lines == Cardinality({i \in DOMAIN sent : sent[i].kind = "line"})

\* conn_send: one line, one record; the caller waits in push_out.
conn_send ==
  /\ conn = "open" /\ CanWrite /\ out = <<>>
  /\ Lines < MaxLines
  /\ tls_write
  /\ conn' = "send"
  /\ UNCHANGED <<outcome, socket, wire, sent, srv, opens>>

\* conn_send returns: all sent, or the socket is gone.
conn_sent ==
  /\ conn = "send"
  /\ out = <<>> \/ ~alive
  /\ conn' = "open"
  /\ UNCHANGED <<engine, outcome, socket, wire, sent, srv, opens>>

\* conn_close: a close_notify, and the caller waits in push_out; then net_close.
conn_close ==
  /\ conn = "open" /\ state = "CONNECTED"
  /\ tls_close
  /\ conn' = "close"
  /\ UNCHANGED <<outcome, socket, wire, sent, srv, opens>>

conn_closed ==
  /\ conn = "close"
  /\ out = <<>> \/ ~alive
  /\ Abort(conn_retry, conn_cancelled)
  /\ UNCHANGED <<engine, conn_chain, window, wire, sent, srv, opens>>

\* The session finds the connection not alive, or idle too long: conn_abort.
conn_abort ==
  /\ conn = "open"
  /\ Abort(conn_retry, conn_cancelled)
  /\ UNCHANGED <<engine, conn_chain, window, wire, sent, srv, opens>>

-----------------------------------------------------------------------------
(* The socket and the server *)

Drop ==
  /\ alive
  /\ alive' = FALSE
  /\ UNCHANGED <<engine, conn, outcome, window, wire, sent, srv, opens>>

\* The server stops taking bytes, and takes them again.
WindowShuts ==
  /\ Stalls
  /\ alive /\ window
  /\ window' = FALSE
  /\ UNCHANGED <<engine, conn, outcome, alive, wire, sent, srv, opens>>

WindowOpens ==
  /\ alive /\ ~window
  /\ window' = TRUE
  /\ UNCHANGED <<engine, conn, outcome, alive, wire, sent, srv, opens>>

\* A record leaves the server, in the clear or under its key, and comes whole,
\* or malformed, or damaged so that its tag will not match.
Onto(s, outer, inner, items, desc) ==
  \E flaw \in {"none"} \cup (IF s.faults < MaxFaults THEN Faults ELSE {}) :
    /\ wire' = Append(wire, [outer |-> outer, inner |-> inner, key |-> srv.key,
                             seq |-> srv.seq, items |-> items, desc |-> desc,
                             framed |-> flaw # "framing", good |-> flaw # "tag"])
    /\ srv' = [s EXCEPT !.faults = IF flaw = "none" THEN @ ELSE @ + 1,
                        !.honest = @ /\ flaw = "none"]

\* A part of a handshake message.
Part(m, at, ok) == [m |-> m, at |-> at, ok |-> ok, n |-> 0]

ServerStep ==
  /\ alive
  /\ UNCHANGED <<engine, conn, outcome, socket, sent, opens>>

\* The server has shown that it is the one its certificate names, as far as
\* this client can tell.
Proves(flight) ==
  /\ \A i \in DOMAIN flight : flight[i].ok \in {"good", "odd"}
  /\ \E i \in DOMAIN flight : flight[i].m = "CV"

\* The ServerHello, and the handshake keys.
ServerHello ==
  /\ ServerStep
  /\ srv.at = "hello"
  /\ \E ok \in HelloKinds, flight \in Flights :
       Onto([srv EXCEPT !.at = "flight", !.key = "s_hs", !.seq = 0,
                        !.rd = [key |-> "c_hs", seq |-> 0],
                        !.todo = flight,
                        !.honest = ok = "good" /\ Proves(flight),
                        !.proves = ok = "good" /\ Proves(flight)],
            "handshake", "none",
            <<Part("SH", "header", "good"), Part("SH", "body", ok)>>, "none")

\* The flight, cut into records anywhere, and then the application keys.
ServerFlight ==
  /\ ServerStep
  /\ srv.at = "flight"
  /\ \E k \in Cuts \cap 1..Len(srv.todo) :
       LET rest == SubSeq(srv.todo, k + 1, Len(srv.todo))
       IN  Onto(IF rest = <<>>
                  THEN [srv EXCEPT !.todo = rest, !.at = "done", !.key = "s_ap", !.seq = 0]
                  ELSE [srv EXCEPT !.todo = rest, !.seq = @ + 1],
                "appdata", "handshake", SubSeq(srv.todo, 1, k), "none")

\* A change_cipher_spec in the clear, for middleboxes: once, before the flight.
ServerCCS ==
  /\ ServerStep
  /\ srv.at = "flight" /\ wire # <<>> /\ Last(wire).outer = "handshake"
  /\ wire' = Append(wire, [outer |-> "ccs", inner |-> "none", key |-> "plain", seq |-> 0,
                           items |-> <<Part("ccs", "data", "good")>>, desc |-> "none",
                           framed |-> TRUE, good |-> TRUE])
  /\ UNCHANGED srv

\* A record of the client's is opened, or is not what it should be.
ServerHears ==
  /\ ServerStep
  /\ srv.heard < Len(sent)
  /\ LET r == sent[srv.heard + 1]
         s == [srv EXCEPT !.heard = @ + 1]
     IN  srv' = IF r.key # srv.rd.key \/ r.seq # srv.rd.seq THEN [s EXCEPT !.at = "broken"]
                ELSE IF r.kind = "hello" THEN [s EXCEPT !.at = "hello"]
                ELSE IF r.kind \in {"finished", "empty+finished"}
                  THEN [s EXCEPT !.at = "up", !.rd = [key |-> "c_ap", seq |-> 0]]
                ELSE [s EXCEPT !.rd.seq = @ + 1]
  /\ UNCHANGED wire

\* After the handshake: lines, session tickets, a close_notify.
ServerReplies ==
  /\ ServerStep
  /\ srv.at = "up" /\ srv.replies < MaxReplies
  /\ \E r \in Replies :
       LET x == [m |-> r, ok |-> "good",
                 at |-> CASE r = "ticket" -> "body" [] r = "line" -> "data" [] OTHER -> "alert",
                 n |-> IF r = "line" THEN Len(srv.said) + 1 ELSE 0]
           s == [srv EXCEPT !.replies = @ + 1, !.seq = @ + 1,
                            !.at = IF r \in {"close", "fatal"} THEN "closed" ELSE @,
                            !.honest = @ /\ r # "fatal",
                            !.said = IF r = "line" THEN Append(@, <<x.m, x.n>>) ELSE @]
       IN  Onto(s, "appdata",
                CASE r = "ticket" -> "handshake" [] r = "line" -> "appdata" [] OTHER -> "alert",
                <<x>>, r)

\* The server refuses during the handshake: a fatal alert, in the clear if it
\* has no keys yet.
ServerRefuses ==
  /\ ServerStep
  /\ srv.at \in {"hello", "flight", "done"} /\ "fatal" \in Replies
  /\ Onto([srv EXCEPT !.at = "closed", !.honest = FALSE],
          IF srv.key = "plain" THEN "alert" ELSE "appdata",
          "alert", <<Part("fatal", "alert", "good")>>, "fatal")

-----------------------------------------------------------------------------
Init ==
  /\ EngineInit
  /\ conn = "shut" /\ conn_retry = FALSE /\ conn_cancelled = FALSE
  /\ conn_chain = "unreached"
  /\ alive = FALSE /\ window = TRUE
  /\ wire = <<>> /\ sent = <<>>
  /\ srv = [at |-> "closed", key |-> "plain", seq |-> 0, todo |-> <<>>,
            rd |-> Plain, heard |-> 0, honest |-> TRUE, proves |-> FALSE,
            said |-> <<>>, replies |-> 0, faults |-> 0]
  /\ opens = 0

Client ==
  \/ ReadStart \/ ReadContent \/ ReadEnd
  \/ PumpFed \/ PushOut \/ PumpRound \/ Verify
  \/ conn_sent \/ conn_closed

Choice == conn_open \/ PumpGivesUp \/ conn_send \/ conn_close \/ conn_abort

Server ==
  \/ ServerHello \/ ServerFlight \/ ServerCCS \/ ServerHears
  \/ ServerReplies \/ ServerRefuses

Socket == Drop \/ WindowShuts \/ WindowOpens

Next == Client \/ Choice \/ Server \/ Socket

Spec == Init /\ [][Next]_vars

\* The client's one thread goes on while it can: the socket is given bytes
\* when it takes them, and thirty seconds of silence pass in the end.
FairSpec ==
  Spec /\ WF_vars(Client) /\ SF_vars(PushOut) /\ SF_vars(PumpGivesUp)

\* Of a server that goes on taking bytes.
TakingSpec == FairSpec /\ WF_vars(WindowOpens)

-----------------------------------------------------------------------------
\* The types; the engine's buffers and the client's stay within their bounds.
TypeOK ==
  /\ conn \in Phases
  /\ state \in {"IDLE", "WAIT_SH", "WAIT_HS", "VERIFYING", "CONNECTED", "CLOSED", "FAILED"}
  /\ (state = "FAILED") = (error # "NONE")
  /\ error # "BUFFER"
  /\ {rd_on, rec_connected, rd_switch, cv_seen, leaf, cert_requested,
      alive, window, conn_retry, conn_cancelled} \subseteq BOOLEAN
  /\ rd.key \in {"plain", "s_hs", "s_ap"} /\ rd.seq \in Nat
  /\ wr.key \in {"plain", "c_hs", "c_ap"} /\ wr.seq \in Nat
  /\ Len(out) <= OutMax
  /\ kept \in 0..Len(delivered)
  /\ conn_chain \in ChainResults \cup {"unreached"}

\* Each side opens what the other sealed: a record being read was sealed under
\* the read key and number it is opened with.  The keys switch from the
\* handshake's to the application's at the end of the record that held the
\* server's Finished, however the flight was cut into records and deliveries.
KeysInStep == rec # NoRec /\ Sealed => rec.key = rd.key /\ rec.seq = rd.seq

\* And the server opens every record of the client's: its Finished under the
\* handshake key, lines and close_notify under the application key, numbered
\* from zero without a gap.
ServerOpensAll == srv.at # "broken"

\* "nothing else is sent until it and the chain have passed" (conn.c): no line
\* goes out, nothing is handed to the client, and no connection is open, until
\* the server's Finished and signature and its chain have been checked.
NothingBeforeProof ==
  /\ conn \in {"pump", "push", "verify"} => delivered = <<>> /\ Lines = 0
  /\ conn \in {"open", "send", "close"} => srv.proves /\ conn_chain = "OK"

\* A server that keeps to the protocol, on a link that damages nothing, is
\* never failed, however its records are cut and when it sends tickets.
HonestNeverFails == srv.honest => state # "FAILED"

\* Of the first k things handed to the client, those it takes for lines.
LinesTo(k) == {i \in 1..k : delivered[i][1] \in {"line", "garbage"}}

\* The lines the client was handed in records whose tag matched are the first
\* ones the server said: none lost, repeated, reordered or damaged.
LinesAsSaid ==
  \A i \in LinesTo(kept) :
    LET n == Cardinality(LinesTo(i))
    IN  n <= Len(srv.said) /\ delivered[i] = srv.said[n]

\* "Every wait bounded" (LLM.md): conn_open returns, whatever the server says
\* or leaves unsaid, if it goes on taking bytes.
PumpEnds == conn \in {"pump", "push", "verify"} ~> conn \in {"shut", "open"}

\* "A record that turns out to be something else (a session ticket, an alert)
\* is likewise taken back" (tls.h): only lines are left with the client.
OnlyLinesKept == \A i \in 1..kept : delivered[i][1] = "line"
=============================================================================

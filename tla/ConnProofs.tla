----------------------------- MODULE ConnProofs -----------------------------
(***************************************************************************)
(* Theorems about Conn, for every server, however it cuts its flight and   *)
(* whatever it replies, every damage to records and every number of        *)
(* connections and lines.  The last are about what the client reads: that  *)
(* it opens each record of the server's under the key and the number it    *)
(* was sealed under, whatever the server's flight, which ends with its     *)
(* Finished and has no other, however the flight is cut into records and   *)
(* they into deliveries; and that nothing is sent or shown before the      *)
(* server has proved itself.                                               *)
(***************************************************************************)
EXTENDS Conn, FiniteSetTheorems, SequenceTheorems, TLAPS

-----------------------------------------------------------------------------
(* Ways: what a queue of records takes a reader through *)

\* The records of q after the first h take a reader from a to b, each by a step
\* of R.
Way(q, h, R, P, a, b) ==
  \E w \in [h..Len(q) -> P] :
    /\ w[h] = a /\ w[Len(q)] = b
    /\ \A i \in (h + 1)..Len(q) : <<w[i - 1], q[i], w[i]>> \in R

\* Nothing to read: the reader is there.
LEMMA WayNone ==
  ASSUME NEW S, NEW q \in Seq(S), NEW R, NEW P, NEW a \in P
  PROVE  Way(q, Len(q), R, P, a, a)
<1>1. Len(q) \in Nat
  OBVIOUS
<1> DEFINE w == [i \in Len(q)..Len(q) |-> a]
<1>2. w \in [Len(q)..Len(q) -> P] /\ w[Len(q)] = a
  BY <1>1
<1>3. \A i \in (Len(q) + 1)..Len(q) : FALSE
  BY <1>1
<1> QED BY <1>2, <1>3 DEF Way

\* ... and nowhere else.
LEMMA WayNowhere ==
  ASSUME NEW q, NEW R, NEW P, NEW a, NEW b, Way(q, Len(q), R, P, a, b)
  PROVE  a = b
  BY DEF Way

\* Where a way starts and ends.
LEMMA WayEnds ==
  ASSUME NEW S, NEW q \in Seq(S), NEW h \in 0..Len(q), NEW R, NEW P, NEW a, NEW b,
         Way(q, h, R, P, a, b)
  PROVE  a \in P /\ b \in P
<1> PICK w \in [h..Len(q) -> P] : w[h] = a /\ w[Len(q)] = b
  BY DEF Way
<1>1. h \in h..Len(q) /\ Len(q) \in h..Len(q)
  OBVIOUS
<1> QED BY <1>1

\* One record read.
LEMMA WayOn ==
  ASSUME NEW S, NEW q \in Seq(S), NEW h \in 0..(Len(q) - 1), NEW R, NEW P, NEW a, NEW b,
         Way(q, h, R, P, a, b)
  PROVE  \E c \in P : <<a, q[h + 1], c>> \in R /\ Way(q, h + 1, R, P, c, b)
<1> PICK w \in [h..Len(q) -> P] :
      /\ w[h] = a /\ w[Len(q)] = b
      /\ \A i \in (h + 1)..Len(q) : <<w[i - 1], q[i], w[i]>> \in R
  BY DEF Way
<1>1. Len(q) \in Nat /\ h \in Nat /\ h + 1 <= Len(q)
  OBVIOUS
<1> DEFINE v == [i \in (h + 1)..Len(q) |-> w[i]]
<1>2. v \in [(h + 1)..Len(q) -> P] /\ v[h + 1] = w[h + 1] /\ v[Len(q)] = b /\ w[h + 1] \in P
  BY <1>1
<1>3. \A i \in ((h + 1) + 1)..Len(q) : <<v[i - 1], q[i], v[i]>> \in R
  BY <1>1
<1>4. <<a, q[h + 1], w[h + 1]>> \in R
  <2>1. h + 1 \in (h + 1)..Len(q) /\ (h + 1) - 1 = h
    BY <1>1
  <2>2. <<w[(h + 1) - 1], q[h + 1], w[h + 1]>> \in R
    BY <2>1
  <2> QED BY <2>1, <2>2
<1> HIDE DEF v
<1>5. Way(q, h + 1, R, P, w[h + 1], b)
  BY <1>2, <1>3 DEF Way
<1> QED BY <1>2, <1>4, <1>5

\* One record more to read.
LEMMA WayAppend ==
  ASSUME NEW S, NEW q \in Seq(S), NEW h \in 0..Len(q), NEW R, NEW P, NEW a, NEW b,
         Way(q, h, R, P, a, b), NEW x \in S, NEW c \in P, <<b, x, c>> \in R
  PROVE  Way(Append(q, x), h, R, P, a, c)
<1> PICK w \in [h..Len(q) -> P] :
      /\ w[h] = a /\ w[Len(q)] = b
      /\ \A i \in (h + 1)..Len(q) : <<w[i - 1], q[i], w[i]>> \in R
  BY DEF Way
<1> DEFINE n == Len(q)
           p == Append(q, x)
           v == [i \in h..(n + 1) |-> IF i = n + 1 THEN c ELSE w[i]]
<1>1. n \in Nat /\ h \in Nat /\ h <= n
  OBVIOUS
<1>2. Len(p) = n + 1 /\ p[n + 1] = x /\ \A i \in 1..n : p[i] = q[i]
  OBVIOUS
<1>3. v \in [h..(n + 1) -> P] /\ v[h] = a /\ v[n + 1] = c /\ \A i \in h..n : v[i] = w[i]
  BY <1>1
<1> HIDE DEF n, p, v
<1>4. ASSUME NEW i \in (h + 1)..(n + 1) PROVE <<v[i - 1], p[i], v[i]>> \in R
  <2>1. CASE i = n + 1
    <3>1. i - 1 = n /\ n \in h..n
      BY <1>1, <2>1
    <3>2. v[i - 1] = b /\ p[i] = x /\ v[i] = c
      BY <1>2, <1>3, <2>1, <3>1 DEF n
    <3> QED BY <3>2
  <2>2. CASE i # n + 1
    <3>1. i \in (h + 1)..n /\ i \in 1..n /\ i \in h..n /\ i - 1 \in h..n
      BY <1>1, <2>2
    <3>2. v[i - 1] = w[i - 1] /\ v[i] = w[i] /\ p[i] = q[i]
      BY <1>2, <1>3, <3>1
    <3> QED BY <3>1, <3>2 DEF n
  <2> QED BY <2>1, <2>2
<1>5. Way(p, h, R, P, a, c)
  BY <1>2, <1>3, <1>4 DEF Way
<1> QED BY <1>5 DEF p

\* The first record taken from the queue.
LEMMA WayTail ==
  ASSUME NEW S, NEW q \in Seq(S), q # <<>>, NEW R, NEW P, NEW a, NEW b, Way(q, 0, R, P, a, b)
  PROVE  \E c \in P : <<a, Head(q), c>> \in R /\ Way(Tail(q), 0, R, P, c, b)
<1> PICK w \in [0..Len(q) -> P] :
      /\ w[0] = a /\ w[Len(q)] = b
      /\ \A i \in (0 + 1)..Len(q) : <<w[i - 1], q[i], w[i]>> \in R
  BY DEF Way
<1> DEFINE n == Len(q)
           p == Tail(q)
           v == [i \in 0..(n - 1) |-> w[i + 1]]
<1>1. n \in Nat /\ n >= 1 /\ Head(q) = q[1]
  OBVIOUS
<1>2. Len(p) = n - 1 /\ \A i \in 1..(n - 1) : p[i] = q[i + 1]
  OBVIOUS
<1>3. v \in [0..(n - 1) -> P] /\ v[0] = w[1] /\ v[n - 1] = b /\ w[1] \in P
  BY <1>1
<1>4. ASSUME NEW i \in (0 + 1)..(n - 1) PROVE <<v[i - 1], p[i], v[i]>> \in R
  <2>1. i + 1 \in (0 + 1)..n /\ (i + 1) - 1 = i /\ i - 1 \in 0..(n - 1) /\ i \in 0..(n - 1) /\ (i - 1) + 1 = i
    BY <1>1
  <2>2. <<w[(i + 1) - 1], q[i + 1], w[i + 1]>> \in R
    BY <2>1
  <2>3. v[i - 1] = w[i] /\ v[i] = w[i + 1]
    BY <2>1
  <2>4. p[i] = q[i + 1]
    BY <1>2
  <2> HIDE DEF v, p, n
  <2> QED BY <2>1, <2>2, <2>3, <2>4
<1>5. <<a, Head(q), w[1]>> \in R
  <2>1. 1 \in (0 + 1)..n /\ 1 - 1 = 0
    BY <1>1
  <2>2. <<w[1 - 1], q[1], w[1]>> \in R
    BY <2>1
  <2> QED BY <1>1, <2>1, <2>2
<1> HIDE DEF v, p, n
<1>6. Way(p, 0, R, P, w[1], b)
  BY <1>2, <1>3, <1>4 DEF Way
<1> QED BY <1>3, <1>5, <1>6 DEF p

\* A queue cut in two.
LEMMA WayCut ==
  ASSUME NEW S, NEW q \in Seq(S), NEW k \in 1..Len(q), NEW R, NEW P, NEW a, NEW b,
         Way(q, 0, R, P, a, b)
  PROVE  \E c \in P : /\ Way(SubSeq(q, 1, k), 0, R, P, a, c)
                      /\ Way(SubSeq(q, k + 1, Len(q)), 0, R, P, c, b)
<1> PICK w \in [0..Len(q) -> P] :
      /\ w[0] = a /\ w[Len(q)] = b
      /\ \A i \in (0 + 1)..Len(q) : <<w[i - 1], q[i], w[i]>> \in R
  BY DEF Way
<1> DEFINE n == Len(q)
           f == SubSeq(q, 1, k)
           l == SubSeq(q, k + 1, n)
           u == [i \in 0..k |-> w[i]]
           v == [i \in 0..(n - k) |-> w[k + i]]
<1>1. n \in Nat /\ k \in 1..n /\ w[k] \in P
  OBVIOUS
<1>2. Len(f) = k /\ \A i \in 1..k : f[i] = q[i]
  BY <1>1
<1>3. Len(l) = n - k /\ \A i \in 1..(n - k) : l[i] = q[k + i]
  <2>1. \A i \in (k + 1)..n : q[i] \in S
    BY <1>1
  <2>2. /\ Len(l) = IF k + 1 <= n THEN n - (k + 1) + 1 ELSE 0
        /\ \A i \in 1..(n - (k + 1) + 1) : l[i] = q[k + 1 + i - 1]
    BY <1>1, <2>1, SubSeqProperties
  <2> HIDE DEF l
  <2> QED BY <1>1, <2>2
<1>4. u \in [0..k -> P] /\ u[0] = a /\ u[k] = w[k] /\ \A i \in 1..k : u[i] = w[i] /\ u[i - 1] = w[i - 1]
  BY <1>1
<1>5. v \in [0..(n - k) -> P] /\ v[0] = w[k] /\ v[n - k] = b
      /\ \A i \in 1..(n - k) : v[i] = w[k + i] /\ v[i - 1] = w[(k + i) - 1]
  BY <1>1
<1> HIDE DEF n, f, l, u, v
<1>6. Way(f, 0, R, P, a, w[k])
  <2>1. ASSUME NEW i \in (0 + 1)..k PROVE <<u[i - 1], f[i], u[i]>> \in R
    <3>1. i \in (0 + 1)..n /\ i \in 1..k
      BY <1>1
    <3>2. <<w[i - 1], q[i], w[i]>> \in R
      BY <3>1 DEF n
    <3> QED BY <1>2, <1>4, <3>1, <3>2
  <2> QED BY <1>2, <1>4, <2>1 DEF Way
<1>7. Way(l, 0, R, P, w[k], b)
  <2>1. ASSUME NEW i \in (0 + 1)..(n - k) PROVE <<v[i - 1], l[i], v[i]>> \in R
    <3>1. k + i \in (0 + 1)..n /\ i \in 1..(n - k)
      BY <1>1
    <3>2. <<w[(k + i) - 1], q[k + i], w[k + i]>> \in R
      BY <3>1 DEF n
    <3> QED BY <1>3, <1>5, <3>1, <3>2
  <2> QED BY <1>3, <1>5, <2>1 DEF Way
<1> QED BY <1>1, <1>6, <1>7 DEF f, l, n

-----------------------------------------------------------------------------
(* The types *)

\* A part of a message, an alert, a piece of data.
Oks == HelloKinds \cup {"good", "odd", "wrong", "malformed"}
Items ==
  [m : {"SH", "EE", "CR", "CERT", "CV", "FIN", "line", "ticket", "close", "fatal", "ccs"},
   at : {"header", "body", "data", "alert"}, ok : Oks, n : Nat]

\* The server's records, and the client's.
Records ==
  [outer : {"handshake", "appdata", "alert", "ccs"},
   inner : {"none", "handshake", "appdata", "alert"},
   key : {"plain", "s_hs", "s_ap"}, seq : Nat, items : Seq(Items),
   desc : {"none", "line", "ticket", "close", "fatal"}, framed : BOOLEAN, good : BOOLEAN]
ReadPlace == [key : {"plain", "s_hs", "s_ap"}, seq : Nat]
WritePlace == [key : {"plain", "c_hs", "c_ap"}, seq : Nat]
OutRecords ==
  [kind : {"hello", "finished", "empty+finished", "line", "close"},
   key : {"plain", "c_hs", "c_ap"}, seq : Nat]

\* What msg_type can be, and what the client can be handed.
Messages == {"none", "SH", "EE", "CR", "CERT", "CV", "FIN", "line", "ticket", "close", "fatal", "ccs"}
Said == (Messages \cup {"garbage"}) \X Nat

\* The engine's fields.
EngineTypes ==
  /\ state \in {"IDLE", "WAIT_SH", "WAIT_HS", "VERIFYING", "CONNECTED", "CLOSED", "FAILED"}
  /\ state = "FAILED" <=> error # "NONE"
  /\ error # "BUFFER"
  /\ rd_on \in BOOLEAN /\ rec_connected \in BOOLEAN /\ rd_switch \in BOOLEAN
  /\ cv_seen \in BOOLEAN /\ leaf \in BOOLEAN /\ cert_requested \in BOOLEAN
  /\ rd \in ReadPlace /\ wr \in WritePlace
  /\ rec \in Records \cup {NoRec}
  /\ msg_type \in Messages
  /\ out \in Seq(OutRecords) /\ Len(out) <= OutMax
  /\ delivered \in Seq(Said) /\ kept \in 0..Len(delivered)

\* The server's, and what is between.
SrvFields ==
  {"at", "key", "seq", "todo", "rd", "heard", "honest", "proves", "said", "replies", "faults"}
ServerTypes ==
  /\ DOMAIN srv = SrvFields
  /\ srv.key \in {"plain", "s_hs", "s_ap"} /\ srv.seq \in Nat
  /\ srv.todo \in Seq(FlightParts)
  /\ srv.rd \in WritePlace /\ srv.heard \in Nat
  /\ srv.said \in Seq(Said)
  /\ wire \in Seq(Records) /\ sent \in Seq(OutRecords)

\* conn.c's.
ConnTypes ==
  /\ conn \in Phases
  /\ alive \in BOOLEAN /\ window \in BOOLEAN
  /\ conn_retry \in BOOLEAN /\ conn_cancelled \in BOOLEAN
  /\ conn_chain \in ChainResults \cup {"unreached"}

-----------------------------------------------------------------------------
(* What the client sends *)

Hello == [kind |-> "hello", key |-> "plain", seq |-> 0]

\* The keys that are up, by state, and the message that may be half read.
Keys ==
  /\ rd_on <=> rd.key # "plain"
  /\ rd.key = "plain" => rd.seq = 0
  /\ state \in {"IDLE", "WAIT_SH"} => ~rd_on /\ wr = Plain /\ ~rd_switch
  /\ state = "WAIT_HS" => /\ rd.key = "s_hs" /\ ~rd_switch
                          /\ wr = [key |-> "c_hs", seq |-> 0]
  /\ state \in {"VERIFYING", "CONNECTED"} =>
       /\ wr.key = "c_ap" /\ rd.key # "plain"
       /\ rd_switch <=> rd.key = "s_hs"
  /\ Reading /\ msg_type = "SH" => state = "WAIT_SH"
  /\ Reading /\ msg_type = "FIN" => state = "WAIT_HS"

\* A record of the client's takes the server's reading from t[1] to t[3].
Sends ==
  {t \in WritePlace \X OutRecords \X WritePlace :
     /\ t[2].key = t[1].key /\ t[2].seq = t[1].seq
     /\ \/ /\ t[2].kind \in {"finished", "empty+finished"}
           /\ t[1].key = "c_hs" /\ t[3] = [key |-> "c_ap", seq |-> 0]
        \/ /\ t[2].kind \in {"line", "close"}
           /\ t[1].key = "c_ap" /\ t[3] = [key |-> "c_ap", seq |-> t[1].seq + 1]}

\* What was sent and not heard, and then what is queued, take the server from
\* where it reads to where the client seals.
Trail(se, heard, reading, ou, sealing) ==
  \E m \in WritePlace :
    /\ Way(se, heard, Sends, WritePlace, reading, m)
    /\ Way(ou, 0, Sends, WritePlace, m,
           IF sealing.key = "plain" THEN [key |-> "c_hs", seq |-> 0] ELSE sealing)

\* Until the server has answered there is the ClientHello: queued, sent, heard.
Greeting ==
  /\ ~rd_on /\ rec.outer # "handshake" /\ \A i \in 1..Len(wire) : wire[i].outer # "handshake"
  /\ srv.rd = Plain /\ wr = Plain
  /\ \/ sent = <<>> /\ out = <<>> /\ srv.heard = 0 /\ srv.at = "closed"
     \/ sent = <<>> /\ out = <<Hello>> /\ srv.heard = 0 /\ srv.at = "listening"
     \/ sent = <<Hello>> /\ out = <<>> /\ srv.heard = 0 /\ srv.at = "listening"
     \/ sent = <<Hello>> /\ out = <<>> /\ srv.heard = 1 /\ srv.at \in {"hello", "closed"}

\* From then on there is a trail.
Sending ==
  /\ srv.at # "broken"
  /\ srv.key = "plain" => Greeting
  /\ srv.key # "plain" =>
       /\ srv.at \notin {"listening", "hello"}
       /\ srv.heard \in 0..Len(sent)
       /\ Trail(sent, srv.heard, srv.rd, out, wr)

CInv == EngineTypes /\ ServerTypes /\ ConnTypes /\ Keys /\ Sending

-----------------------------------------------------------------------------
(* The engine's steps, by what they change *)

\* A record less its first item.
LEMMA ItemRead ==
  ASSUME NEW r \in Records, r.items # <<>>
  PROVE  LET s == [r EXCEPT !.items = Tail(@)]
         IN  /\ s \in Records /\ s.items = Tail(r.items)
             /\ s.outer = r.outer /\ s.inner = r.inner /\ s.key = r.key /\ s.seq = r.seq
             /\ s.desc = r.desc
             /\ Head(r.items) \in Items
<1>1. r.items \in Seq(Items)
  BY DEF Records
<1>2. Tail(r.items) \in Seq(Items) /\ Head(r.items) \in Items
  BY <1>1
<1> DEFINE t == Tail(r.items)
           s == [r EXCEPT !.items = Tail(@)]
<1>3. s = [r EXCEPT !.items = t]
  OBVIOUS
<1> HIDE DEF t, s
<1>4. /\ s \in Records /\ s.items = t
      /\ s.outer = r.outer /\ s.inner = r.inner /\ s.key = r.key /\ s.seq = r.seq
      /\ s.desc = r.desc
  BY <1>2, <1>3 DEF Records, t
<1> QED BY <1>2, <1>4 DEF s, t

\* No record is no record.
LEMMA NoRecord == NoRec \notin Records /\ NoRec.outer = "none"
  BY DEF NoRec, Records

\* The state and the error after a step that may fail the connection.
Failing == state' = "FAILED" /\ error' \notin {"NONE", "BUFFER"}
Closing == state' = "CLOSED" /\ UNCHANGED error

\* An item that switches no key and queues nothing.
Quiet ==
  /\ Proceed \/ Failing \/ Closing
  /\ UNCHANGED <<rd_on, rd, wr, rd_switch, out>>
  /\ state' \in {"FAILED", "CLOSED"} \/ (msg_type' \in {"SH", "FIN"} =>
       \/ msg_type' = msg_type
       \/ msg_type' = "SH" /\ state = "WAIT_SH"
       \/ msg_type' = "FIN" /\ state = "WAIT_HS")

\* The ServerHello, whole.
HelloTaken ==
  /\ state = "WAIT_SH" /\ rec.outer = "handshake"
  /\ Enter("WAIT_HS") /\ msg_type = "SH" /\ msg_type' = "none"
  /\ rd_on' = TRUE /\ rd' = [key |-> "s_hs", seq |-> 0] /\ wr' = [key |-> "c_hs", seq |-> 0]
  /\ UNCHANGED <<rd_switch, out>>

\* The server's Finished, whole.
FinishedTaken ==
  /\ state = "WAIT_HS" /\ Room
  /\ Enter("VERIFYING") /\ msg_type = "FIN" /\ msg_type' = "none"
  /\ \E k \in {"finished", "empty+finished"} : out' = Append(out, Record(k))
  /\ wr' = [key |-> "c_ap", seq |-> 0] /\ rd_switch' = TRUE
  /\ UNCHANGED <<rd_on, rd>>

\* What a part of a handshake message does.
LEMMA FeedEffect ==
  ASSUME EngineTypes, Keys, Reading, NEW x \in Items, hs_feed(x),
         state = "WAIT_HS" => Room, rec.outer = "handshake" \/ Sealed
  PROVE  /\ Quiet \/ HelloTaken \/ FinishedTaken
         /\ cv_seen' \in BOOLEAN /\ leaf' \in BOOLEAN /\ cert_requested' \in BOOLEAN
         /\ msg_type' \in Messages
         /\ UNCHANGED <<delivered, kept>>
<1>1. UNCHANGED <<delivered, kept>>
  BY DEF hs_feed, data
<1>2. x.m \in Messages /\ x.ok \in Oks
  BY DEF Items, Messages
<1>3. x.ok \notin {"NONE", "BUFFER"}
  BY <1>2, ConnAssumption DEF ConnAssumption, Oks
<1>4. /\ cv_seen \in BOOLEAN /\ leaf \in BOOLEAN /\ cert_requested \in BOOLEAN
      /\ msg_type \in Messages
  BY DEF EngineTypes
<1>5. CASE x.at = "header" /\ msg_begin(x.m)
  <2>1. /\ msg_type' = x.m /\ UNCHANGED <<cv_seen, cert_requested, rd_switch, rd_on, rd, wr, out>>
        /\ leaf' \in BOOLEAN
    BY <1>5 DEF msg_begin, keys
  <2>2. \/ Expected(x.m) /\ Proceed
        \/ state' = "FAILED" /\ error' = "MESSAGE"
    BY <1>5 DEF msg_begin, Fail
  <2>3. Quiet
    BY <2>1, <2>2 DEF Quiet, Failing, Proceed, Expected
  <2> QED BY <1>1, <1>2, <1>4, <2>1, <2>3
<1>6. CASE x.at = "body" /\ msg_type # "none" /\ msg_end(x.ok)
  <2>1. msg_type' = "none" /\ "none" \in Messages
    BY <1>6 DEF msg_end, Messages
  <2>2. CASE msg_type = "SH" /\ server_hello(x.ok)
    <3>1. UNCHANGED <<rd_switch, cv_seen, leaf, cert_requested, out>>
      BY <2>2 DEF server_hello
    <3>2. state = "WAIT_SH" /\ rec.outer = "handshake"
      BY <2>2 DEF Keys, Sealed
    <3>3. CASE x.ok = "good"
      <4>1. HelloTaken
        BY <2>1, <2>2, <3>1, <3>2, <3>3 DEF server_hello, HelloTaken
      <4> QED BY <1>1, <1>4, <2>1, <3>1, <4>1
    <3>4. CASE x.ok # "good"
      <4>1. Fail(x.ok) /\ UNCHANGED keys
        BY <2>2, <3>4 DEF server_hello
      <4>2. Quiet
        BY <1>3, <2>1, <3>1, <4>1 DEF Quiet, Failing, Fail, keys
      <4> QED BY <1>1, <1>4, <2>1, <3>1, <4>2
    <3> QED BY <3>3, <3>4
  <2>3. CASE msg_type = "FIN" /\ server_finished(x.ok)
    <3>1. UNCHANGED <<rd_on, rd, cv_seen, leaf, cert_requested>>
      BY <2>3 DEF server_finished
    <3>2. state = "WAIT_HS" /\ Room
      BY <2>3 DEF Keys
    <3>3. CASE x.ok = "good"
      <4>1. FinishedTaken
        BY <2>1, <2>3, <3>1, <3>2, <3>3 DEF server_finished, FinishedTaken
      <4> QED BY <1>1, <1>4, <2>1, <3>1, <4>1
    <3>4. CASE x.ok # "good"
      <4>1. Fail("FINISHED") /\ UNCHANGED <<wr, out, rd_switch>>
        BY <2>3, <3>4 DEF server_finished
      <4>2. Quiet
        BY <2>1, <3>1, <4>1 DEF Quiet, Failing, Fail
      <4> QED BY <1>1, <1>4, <2>1, <3>1, <4>2
    <3> QED BY <3>3, <3>4
  <2>4. CASE /\ msg_type \in {"EE", "CR", "CERT", "CV"}
             /\ IF msg_type = "EE" \/ x.ok # "malformed" THEN Proceed
                ELSE Fail(IF msg_type = "CERT" THEN "CERT" ELSE "MESSAGE")
             /\ leaf' = (leaf \/ (msg_type = "CERT" /\ x.ok # "malformed"))
             /\ cv_seen' = (cv_seen \/ (msg_type = "CV" /\ x.ok # "malformed"))
             /\ cert_requested' = (cert_requested \/ (msg_type = "CR" /\ x.ok # "malformed"))
             /\ UNCHANGED <<keys, out, rd_switch>>
    <3>1. Proceed \/ Failing
      BY <2>4 DEF Failing, Fail
    <3>2. Quiet
      BY <2>1, <2>4, <3>1 DEF Quiet, keys
    <3>3. cv_seen' \in BOOLEAN /\ leaf' \in BOOLEAN /\ cert_requested' \in BOOLEAN
      BY <2>4
    <3> QED BY <1>1, <2>1, <3>2, <3>3
  <2> QED BY <1>6, <2>2, <2>3, <2>4 DEF msg_end
<1>7. CASE Fail("MESSAGE") /\ UNCHANGED <<message, keys, rd_switch, out>>
  <2>1. Quiet
    BY <1>7 DEF Quiet, Failing, Fail, keys
  <2> QED BY <1>1, <1>4, <1>7, <2>1 DEF message
<1>8. CASE Proceed /\ UNCHANGED <<message, keys, rd_switch, out>>
  <2>1. Quiet
    BY <1>8 DEF Quiet, keys, message
  <2> QED BY <1>1, <1>4, <1>8, <2>1 DEF message
<1> QED BY <1>5, <1>6, <1>7, <1>8 DEF hs_feed

\* What an item of a record does.
LEMMA ContentEffect ==
  ASSUME EngineTypes, Keys, Content, state = "WAIT_HS" => Room
  PROVE  /\ Reading /\ rec \in Records /\ rec.items # <<>>
         /\ rec' = [rec EXCEPT !.items = Tail(@)] /\ UNCHANGED rec_connected
         /\ Quiet \/ HelloTaken \/ FinishedTaken
         /\ cv_seen' \in BOOLEAN /\ leaf' \in BOOLEAN /\ cert_requested' \in BOOLEAN
         /\ msg_type' \in Messages
         /\ delivered' \in Seq(Said) /\ kept' \in 0..Len(delivered')
<1> DEFINE x == Head(rec.items)
<1>1. /\ Reading /\ rec \in Records /\ rec.items # <<>>
      /\ rec' = [rec EXCEPT !.items = Tail(@)] /\ UNCHANGED rec_connected
  BY DEF Content, EngineTypes
<1>2. x \in Items
  BY <1>1, ItemRead
<1>3. /\ cv_seen \in BOOLEAN /\ leaf \in BOOLEAN /\ cert_requested \in BOOLEAN
      /\ msg_type \in Messages /\ delivered \in Seq(Said) /\ kept \in 0..Len(delivered)
  BY DEF EngineTypes
<1>4. CASE /\ Sealed /\ state = "CONNECTED"
           /\ delivered' = Append(delivered, Opened(x))
           /\ UNCHANGED <<state, error, keys, rd_switch, message, out, kept>>
  <2>1. Opened(x) \in Said
    BY <1>2 DEF Opened, Said, Items, Messages
  <2>2. delivered' \in Seq(Said) /\ kept' \in 0..Len(delivered')
    BY <1>3, <1>4, <2>1
  <2>3. Quiet
    BY <1>4 DEF Quiet, Proceed, keys, message
  <2> QED BY <1>1, <1>3, <1>4, <2>2, <2>3 DEF message
<1>5. CASE (rec.outer = "handshake" \/ (Sealed /\ state # "CONNECTED")) /\ hs_feed(x)
  <2>1. rec.outer = "handshake" \/ Sealed
    BY <1>5
  <2> QED BY <1>1, <1>2, <1>3, <1>5, <2>1, FeedEffect
<1>6. CASE /\ rec.outer = "alert"
           /\ alert_in(rec.desc) \/ Proceed
           /\ UNCHANGED <<keys, rd_switch, message, out, data>>
  <2>1. Proceed \/ Failing \/ Closing
    BY <1>6 DEF alert_in, Fail, Enter, Failing, Closing
  <2>2. Quiet
    BY <1>6, <2>1 DEF Quiet, keys, message
  <2> QED BY <1>1, <1>3, <1>6, <2>2 DEF message, data
<1>7. CASE /\ rec.outer = "ccs"
           /\ UNCHANGED <<state, error, keys, rd_switch, message, out, data>>
  <2>1. Quiet
    BY <1>7 DEF Quiet, Proceed, keys, message
  <2> QED BY <1>1, <1>3, <1>7, <2>1 DEF message, data
<1>8. CASE /\ ~Sealed /\ rec.outer = "appdata"
           /\ Fail("RECORD")
           /\ UNCHANGED <<keys, rd_switch, message, out, data>>
  <2>1. Quiet
    BY <1>8 DEF Quiet, Failing, Fail, keys, message
  <2> QED BY <1>1, <1>3, <1>8, <2>1 DEF message, data
<1> QED BY <1>4, <1>5, <1>6, <1>7, <1>8 DEF Content

\* A record queued.
LEMMA Queued ==
  ASSUME EngineTypes, Room, NEW k \in {"finished", "empty+finished", "line", "close"}
  PROVE  /\ Record(k) \in OutRecords /\ Record(k).key = wr.key /\ Record(k).seq = wr.seq
         /\ Record(k).kind = k
         /\ Append(out, Record(k)) \in Seq(OutRecords) /\ Len(Append(out, Record(k))) <= OutMax
<1>1. wr \in WritePlace /\ out \in Seq(OutRecords) /\ OutMax \in Nat
  BY OutAssumption DEF EngineTypes, OutAssumption
<1>2. /\ Record(k) \in OutRecords /\ Record(k).key = wr.key /\ Record(k).seq = wr.seq
      /\ Record(k).kind = k
  BY <1>1 DEF Record, OutRecords, WritePlace
<1> HIDE DEF Record
<1> QED BY <1>1, <1>2 DEF Room

\* An item read.
LEMMA ContentKeeps ==
  ASSUME EngineTypes, Keys, Content, state = "WAIT_HS" => Room
  PROVE  EngineTypes' /\ Keys'
<1>1. /\ Reading /\ rec \in Records /\ rec.items # <<>>
      /\ rec' = [rec EXCEPT !.items = Tail(@)] /\ UNCHANGED rec_connected
      /\ Quiet \/ HelloTaken \/ FinishedTaken
      /\ cv_seen' \in BOOLEAN /\ leaf' \in BOOLEAN /\ cert_requested' \in BOOLEAN
      /\ msg_type' \in Messages
      /\ delivered' \in Seq(Said) /\ kept' \in 0..Len(delivered')
  BY ContentEffect
<1>2. rec' \in Records
  BY <1>1, ItemRead
<1>3. CASE Quiet
  <2>1. /\ state' \in {"IDLE", "WAIT_SH", "WAIT_HS", "VERIFYING", "CONNECTED", "CLOSED", "FAILED"}
        /\ state' = "FAILED" <=> error' # "NONE"
        /\ error' # "BUFFER"
        /\ UNCHANGED state \/ state' \in {"FAILED", "CLOSED"}
    BY <1>1, <1>3 DEF Quiet, Proceed, Failing, Closing, EngineTypes, Reading
  <2>2. UNCHANGED <<rd_on, rd, wr, rd_switch, out>>
    BY <1>3 DEF Quiet
  <2>3. EngineTypes'
    BY <1>1, <1>2, <2>1, <2>2 DEF EngineTypes
  <2>4. Keys'
    BY <1>1, <1>3, <2>1, <2>2 DEF Keys, Reading, Quiet
  <2> QED BY <2>3, <2>4
<1>4. CASE HelloTaken
  <2>1. /\ state' = "WAIT_HS" /\ error' = error /\ msg_type' = "none"
        /\ rd_on' = TRUE /\ rd' = [key |-> "s_hs", seq |-> 0]
        /\ wr' = [key |-> "c_hs", seq |-> 0] /\ UNCHANGED <<rd_switch, out>> /\ state = "WAIT_SH"
    BY <1>4 DEF HelloTaken, Enter
  <2>2. rd' \in ReadPlace /\ wr' \in WritePlace
    BY <2>1 DEF ReadPlace, WritePlace
  <2>3. error = "NONE" /\ ~rd_switch
    BY <2>1 DEF EngineTypes, Keys
  <2>4. EngineTypes'
    BY <1>1, <1>2, <2>1, <2>2, <2>3 DEF EngineTypes
  <2>5. Keys'
    BY <2>1, <2>3 DEF Keys, Plain
  <2> QED BY <2>4, <2>5
<1>5. CASE FinishedTaken
  <2>1. /\ state' = "VERIFYING" /\ error' = error /\ msg_type' = "none" /\ state = "WAIT_HS" /\ Room
        /\ wr' = [key |-> "c_ap", seq |-> 0] /\ rd_switch' = TRUE /\ UNCHANGED <<rd_on, rd>>
    BY <1>5 DEF FinishedTaken, Enter
  <2>2. out' \in Seq(OutRecords) /\ Len(out') <= OutMax
    BY <1>5, <2>1, Queued DEF FinishedTaken
  <2>3. error = "NONE" /\ rd.key = "s_hs" /\ wr' \in WritePlace
    BY <2>1 DEF EngineTypes, Keys, WritePlace
  <2>4. EngineTypes'
    BY <1>1, <1>2, <2>1, <2>2, <2>3 DEF EngineTypes
  <2>5. Keys'
    BY <2>1, <2>3 DEF Keys
  <2> QED BY <2>4, <2>5
<1> QED BY <1>1, <1>3, <1>4, <1>5

\* A record begun.
LEMMA StartKeeps ==
  ASSUME EngineTypes, Keys, NEW r \in Records, record_start(r)
  PROVE  EngineTypes' /\ Keys'
<1>1. /\ Reading /\ rec = NoRec /\ rec' = r
      /\ UNCHANGED <<rd_switch, rd_on, rd, wr, msg_type, cv_seen, leaf, cert_requested, out, delivered, kept>>
      /\ rec_connected' \in BOOLEAN
  BY DEF record_start, keys, message, data
<1>2. \/ UNCHANGED <<state, error>>
      \/ state' = "FAILED" /\ error' = "RECORD"
  BY DEF record_start, Proceed, Fail
<1>3. EngineTypes'
  BY <1>1, <1>2 DEF EngineTypes
<1>4. Keys'
  BY <1>1, <1>2 DEF Keys, Reading
<1> QED BY <1>3, <1>4

\* What a record's end does to the state.
LEMMA EndEffect ==
  ASSUME EngineTypes, Keys, record_end
  PROVE  /\ Reading /\ rec \in Records /\ rec.items = <<>> /\ rec' = NoRec
         /\ Proceed \/ Failing \/ Closing
         /\ UNCHANGED <<rec_connected, rd_on, wr, msg_type, cv_seen, leaf, cert_requested, out, delivered>>
         /\ kept' \in {kept, Len(delivered)}
         /\ ~Sealed => UNCHANGED <<rd, rd_switch>>
         /\ Sealed => /\ rd_switch' = FALSE
                      /\ rd' = IF rd_switch THEN [key |-> "s_ap", seq |-> 0]
                                            ELSE [key |-> rd.key, seq |-> rd.seq + 1]
<1>1. /\ Reading /\ rec \in Records /\ rec.items = <<>> /\ rec' = NoRec
      /\ UNCHANGED <<rec_connected, rd_on, wr, msg_type, cv_seen, leaf, cert_requested, out, delivered>>
      /\ kept' \in {kept, Len(delivered)}
  BY DEF record_end, EngineTypes, message
<1>2. Proceed \/ Failing \/ Closing
  BY DEF record_end, alert_in, Fail, Enter, Failing, Closing
<1>3. rd_switch \in BOOLEAN /\ rd_switch' = (rd_switch /\ ~Sealed)
  BY DEF record_end, EngineTypes
<1>4. ASSUME Sealed
      PROVE  rd' = IF rd_switch THEN [key |-> "s_ap", seq |-> 0]
                               ELSE [key |-> rd.key, seq |-> rd.seq + 1]
  <2>1. [rd EXCEPT !.seq = @ + 1] = [key |-> rd.key, seq |-> rd.seq + 1]
    BY DEF EngineTypes, ReadPlace
  <2>2. rd' = IF rd_switch THEN [key |-> "s_ap", seq |-> 0] ELSE [rd EXCEPT !.seq = @ + 1]
    BY <1>4 DEF record_end
  <2> QED BY <2>1, <2>2
<1>5. ~Sealed => rd' = rd
  BY DEF record_end
<1>6. Sealed => rd_switch' = FALSE
  BY <1>3
<1>7. ~Sealed => rd_switch' = rd_switch
  BY <1>3
<1> QED BY <1>1, <1>2, <1>4, <1>5, <1>6, <1>7

\* A record ended.
LEMMA EndKeeps ==
  ASSUME EngineTypes, Keys, record_end
  PROVE  EngineTypes' /\ Keys'
<1>1. /\ Reading /\ rec \in Records /\ rec.items = <<>> /\ rec' = NoRec
      /\ Proceed \/ Failing \/ Closing
      /\ UNCHANGED <<rec_connected, rd_on, wr, msg_type, cv_seen, leaf, cert_requested, out, delivered>>
      /\ kept' \in {kept, Len(delivered)}
      /\ ~Sealed => UNCHANGED <<rd, rd_switch>>
      /\ Sealed => /\ rd_switch' = FALSE
                   /\ rd' = IF rd_switch THEN [key |-> "s_ap", seq |-> 0]
                                         ELSE [key |-> rd.key, seq |-> rd.seq + 1]
  BY EndEffect
<1>2. /\ state' \in {"IDLE", "WAIT_SH", "WAIT_HS", "VERIFYING", "CONNECTED", "CLOSED", "FAILED"}
      /\ state' = "FAILED" <=> error' # "NONE"
      /\ error' # "BUFFER"
      /\ UNCHANGED state \/ state' \in {"FAILED", "CLOSED"}
  BY <1>1 DEF Proceed, Failing, Closing, EngineTypes, Reading
<1>3. rd' \in ReadPlace /\ rd_switch' \in BOOLEAN
  <2>1. rd \in ReadPlace /\ rd_switch \in BOOLEAN
    BY DEF EngineTypes
  <2>2. [key |-> "s_ap", seq |-> 0] \in ReadPlace /\ [key |-> rd.key, seq |-> rd.seq + 1] \in ReadPlace
    BY <2>1 DEF ReadPlace
  <2>3. rd' \in {rd, [key |-> "s_ap", seq |-> 0], [key |-> rd.key, seq |-> rd.seq + 1]}
    BY <1>1
  <2>4. rd_switch' \in {rd_switch, FALSE}
    BY <1>1
  <2> QED BY <2>1, <2>2, <2>3, <2>4
<1>4. EngineTypes'
  BY <1>1, <1>2, <1>3 DEF EngineTypes
<1>5. Keys'
  <2>1. rd \in ReadPlace
    BY DEF EngineTypes
  <2>2. CASE ~Sealed
    BY <1>1, <1>2, <2>2 DEF Keys, Reading
  <2>3. CASE Sealed /\ rd_switch
    <3>1. rd'.key = "s_ap" /\ rd_on /\ rd_switch' = FALSE
      BY <1>1, <2>3 DEF Sealed
    <3> QED BY <1>1, <1>2, <2>3, <3>1 DEF Keys, Reading
  <2>4. CASE Sealed /\ ~rd_switch
    <3>1. rd'.key = rd.key /\ rd_on /\ rd_switch' = FALSE
      BY <1>1, <2>4 DEF Sealed
    <3> QED BY <1>1, <1>2, <2>4, <3>1 DEF Keys, Reading
  <2> QED BY <2>2, <2>3, <2>4
<1> QED BY <1>4, <1>5

\* A connection begun.
LEMMA BeginKeeps ==
  ASSUME EngineTypes, tls_start
  PROVE  EngineTypes' /\ Keys' /\ out' = <<Hello>>
<1>1. Hello \in OutRecords /\ OutMax \in Nat \ {0}
  BY OutAssumption DEF Hello, OutRecords, OutAssumption
<1>2. Plain \in ReadPlace /\ Plain \in WritePlace /\ Plain.key = "plain" /\ Plain.seq = 0
  BY DEF Plain, ReadPlace, WritePlace
<1>3. out' = <<Hello>>
  BY DEF tls_start, Hello
<1>4. out' \in Seq(OutRecords) /\ Len(out') = 1
  <2> HIDE DEF Hello
  <2> QED BY <1>1, <1>3
<1>5. /\ state' = "WAIT_SH" /\ error' = "NONE" /\ rd_on' = FALSE /\ rd' = Plain /\ wr' = Plain
      /\ rec' = NoRec /\ rec_connected' = FALSE /\ rd_switch' = FALSE /\ msg_type' = "none"
      /\ cert_requested' = FALSE /\ cv_seen' = FALSE /\ delivered' = <<>> /\ kept' = 0 /\ UNCHANGED leaf
  BY DEF tls_start
<1>6. EngineTypes'
  <2>1. leaf' \in BOOLEAN
    BY <1>5 DEF EngineTypes
  <2>2. delivered' \in Seq(Said) /\ kept' \in 0..Len(delivered')
    BY <1>5
  <2>3. Len(out') <= OutMax
    BY <1>1, <1>4
  <2>4. rd' \in ReadPlace /\ wr' \in WritePlace /\ msg_type' \in Messages
    BY <1>2, <1>5 DEF Messages
  <2> QED BY <1>4, <1>5, <2>1, <2>2, <2>3, <2>4 DEF EngineTypes
<1>7. Keys'
  BY <1>2, <1>5 DEF Keys
<1> QED BY <1>3, <1>6, <1>7

\* A line or a close_notify sealed, the connection being up.
LEMMA SealKeeps ==
  ASSUME EngineTypes, Keys, state = "CONNECTED", Room,
         NEW k \in {"line", "close"}, out' = Append(out, Record(k)), wr' = Numbered,
         UNCHANGED <<state, error, rd_on, rd, record, message, data>>
  PROVE  EngineTypes' /\ Keys' /\ wr' = [key |-> "c_ap", seq |-> wr.seq + 1] /\ wr.key = "c_ap"
<1>1. wr.key = "c_ap" /\ wr \in WritePlace
  BY DEF Keys, EngineTypes
<1>2. wr' = [key |-> "c_ap", seq |-> wr.seq + 1] /\ wr' \in WritePlace
  BY <1>1 DEF Numbered, WritePlace
<1>3. out' \in Seq(OutRecords) /\ Len(out') <= OutMax
  BY Queued
<1>4. UNCHANGED <<state, error, rd_on, rd, rec, rec_connected, rd_switch, msg_type, cv_seen, leaf,
                  cert_requested, delivered, kept>>
  BY DEF record, message, data
<1>5. EngineTypes'
  BY <1>2, <1>3, <1>4 DEF EngineTypes
<1>6. Keys'
  BY <1>2, <1>4 DEF Keys, Reading
<1> QED BY <1>1, <1>2, <1>5, <1>6

\* The signature looked at.
LEMMA VerifyKeeps ==
  ASSUME EngineTypes, Keys, tls_verify
  PROVE  /\ EngineTypes' /\ Keys'
         /\ UNCHANGED <<rd_on, rd, wr, rec, rec_connected, rd_switch, out>>
<1>1. UNCHANGED <<rd_on, rd, wr, rec, rec_connected, rd_switch, msg_type, cv_seen, leaf,
                  cert_requested, out, delivered, kept>>
  BY DEF tls_verify, keys, record, message, data
<1>2. \/ UNCHANGED <<state, error>>
      \/ state = "VERIFYING" /\ state' = "CONNECTED" /\ error' = error
      \/ state = "VERIFYING" /\ state' = "FAILED" /\ error' \in {"MESSAGE", "SIGNATURE"}
  BY DEF tls_verify, Fail, Enter, Proceed
<1>3. EngineTypes'
  BY <1>1, <1>2 DEF EngineTypes
<1>4. Keys'
  BY <1>1, <1>2 DEF Keys, Reading
<1> QED BY <1>1, <1>3, <1>4

-----------------------------------------------------------------------------
(* Trails *)

\* The last record of a way leads to its end.
LEMMA WayLast ==
  ASSUME NEW S, NEW q \in Seq(S), q # <<>>, NEW R, NEW P, NEW a, NEW b, Way(q, 0, R, P, a, b)
  PROVE  \E p \in P : <<p, q[Len(q)], b>> \in R
<1> PICK w \in [0..Len(q) -> P] :
      /\ w[0] = a /\ w[Len(q)] = b
      /\ \A i \in (0 + 1)..Len(q) : <<w[i - 1], q[i], w[i]>> \in R
  BY DEF Way
<1>1. Len(q) \in (0 + 1)..Len(q) /\ Len(q) - 1 \in 0..Len(q)
  OBVIOUS
<1>2. w[Len(q) - 1] \in P /\ <<w[Len(q) - 1], q[Len(q)], b>> \in R
  BY <1>1
<1> QED BY <1>2

\* A trail in the next state is one of the next state's.
LEMMA TrailLater ==
  Trail(sent, srv.heard, srv.rd, out, wr)' <=> Trail(sent', srv'.heard, srv'.rd, out', wr')
  BY DEF Trail, Way, Sends, WritePlace, OutRecords

\* A record sealed.
LEMMA TrailSeal ==
  ASSUME NEW se \in Seq(OutRecords), NEW hd \in 0..Len(se), NEW p, NEW ou \in Seq(OutRecords),
         NEW w \in WritePlace, Trail(se, hd, p, ou, w), w.key # "plain",
         NEW r \in OutRecords, NEW c \in WritePlace, c.key # "plain", <<w, r, c>> \in Sends
  PROVE  Trail(se, hd, p, Append(ou, r), c)
<1> PICK m \in WritePlace :
      /\ Way(se, hd, Sends, WritePlace, p, m)
      /\ Way(ou, 0, Sends, WritePlace, m, w)
  BY DEF Trail
<1>1. 0 \in 0..Len(ou)
  OBVIOUS
<1>2. Way(Append(ou, r), 0, Sends, WritePlace, m, c)
  BY <1>1, WayAppend
<1> QED BY <1>2 DEF Trail

\* The first write key up.
LEMMA TrailKeyed ==
  ASSUME NEW se, NEW hd, NEW p, NEW ou, Trail(se, hd, p, ou, Plain)
  PROVE  Trail(se, hd, p, ou, [key |-> "c_hs", seq |-> 0])
  BY DEF Trail, Plain

\* A record sent.
LEMMA TrailPush ==
  ASSUME NEW se \in Seq(OutRecords), NEW hd \in 0..Len(se), NEW p, NEW ou \in Seq(OutRecords),
         ou # <<>>, NEW w, Trail(se, hd, p, ou, w)
  PROVE  Trail(Append(se, Head(ou)), hd, p, Tail(ou), w)
<1> DEFINE e == IF w.key = "plain" THEN [key |-> "c_hs", seq |-> 0] ELSE w
<1> HIDE DEF e
<1> PICK m \in WritePlace :
      /\ Way(se, hd, Sends, WritePlace, p, m)
      /\ Way(ou, 0, Sends, WritePlace, m, e)
  BY DEF Trail, e
<1>1. Head(ou) \in OutRecords
  OBVIOUS
<1> PICK c \in WritePlace : <<m, Head(ou), c>> \in Sends /\ Way(Tail(ou), 0, Sends, WritePlace, c, e)
  BY WayTail
<1>2. Way(Append(se, Head(ou)), hd, Sends, WritePlace, p, c)
  BY <1>1, WayAppend
<1> QED BY <1>2 DEF Trail, e

\* A record heard.
LEMMA TrailHear ==
  ASSUME NEW se \in Seq(OutRecords), NEW hd \in 0..(Len(se) - 1), NEW p, NEW ou, NEW w,
         Trail(se, hd, p, ou, w)
  PROVE  \E c \in WritePlace : <<p, se[hd + 1], c>> \in Sends /\ Trail(se, hd + 1, c, ou, w)
<1> DEFINE e == IF w.key = "plain" THEN [key |-> "c_hs", seq |-> 0] ELSE w
<1> HIDE DEF e
<1> PICK m \in WritePlace :
      /\ Way(se, hd, Sends, WritePlace, p, m)
      /\ Way(ou, 0, Sends, WritePlace, m, e)
  BY DEF Trail, e
<1> PICK c \in WritePlace : <<p, se[hd + 1], c>> \in Sends /\ Way(se, hd + 1, Sends, WritePlace, c, m)
  BY WayOn
<1> QED BY DEF Trail, e

\* Where the trail begins, when the server has its keys.
LEMMA TrailBegins ==
  ASSUME NEW se \in Seq(OutRecords)
  PROVE  Trail(se, Len(se), [key |-> "c_hs", seq |-> 0], <<>>, Plain)
<1> DEFINE a == [key |-> "c_hs", seq |-> 0]
           none == <<>>
<1>1. a \in WritePlace
  BY DEF WritePlace
<1>2. none \in Seq(OutRecords) /\ Len(none) = 0
  OBVIOUS
<1> HIDE DEF a, none
<1>3. Way(se, Len(se), Sends, WritePlace, a, a)
  BY <1>1, WayNone
<1>4. Way(none, 0, Sends, WritePlace, a, a)
  BY <1>1, <1>2, WayNone
<1> QED BY <1>1, <1>3, <1>4 DEF Trail, Plain, a, none

\* Before its Finished the client has nothing queued.
LEMMA NothingQueued ==
  ASSUME EngineTypes, ServerTypes, Keys, Sending, state = "WAIT_HS"
  PROVE  out = <<>> /\ Room /\ srv.key # "plain"
<1>1. rd_on /\ wr = [key |-> "c_hs", seq |-> 0]
  BY DEF Keys
<1>2. srv.key # "plain"
  BY <1>1 DEF Sending, Greeting
<1>3. out \in Seq(OutRecords)
  BY DEF EngineTypes
<1>4. PICK m \in WritePlace : Way(out, 0, Sends, WritePlace, m, wr)
  BY <1>1, <1>2 DEF Sending, Trail
<1>5. out = <<>>
  <2> SUFFICES ASSUME out # <<>> PROVE FALSE
    OBVIOUS
  <2>1. PICK p \in WritePlace : <<p, out[Len(out)], wr>> \in Sends
    BY <1>3, <1>4, WayLast
  <2> QED BY <1>1, <2>1 DEF Sends
<1>6. Room
  BY <1>5, OutAssumption DEF Room, OutAssumption
<1> QED BY <1>2, <1>5, <1>6

-----------------------------------------------------------------------------
(* The steps of conn.c, of the socket and of the server *)

\* What changes nothing the client sends by.
LEMMA SendingSame ==
  ASSUME Sending, UNCHANGED <<sent, out, wr, srv>>,
         srv.key = "plain" => /\ ~rd_on' /\ rec'.outer # "handshake"
                              /\ \A i \in 1..Len(wire') : wire'[i].outer # "handshake"
  PROVE  Sending'
<1>1. Trail(sent, srv.heard, srv.rd, out, wr)' <=> Trail(sent, srv.heard, srv.rd, out, wr)
  BY TrailLater
<1>2. srv.key = "plain" => Greeting'
  BY DEF Sending, Greeting, Hello, Plain
<1> QED BY <1>1, <1>2 DEF Sending

\* What changes nothing but where conn.c is, and the socket.
LEMMA OutsideKeeps ==
  ASSUME CInv, UNCHANGED <<engine, wire, sent, srv>>, ConnTypes'
  PROVE  CInv'
<1>1. UNCHANGED <<state, error, rd_on, rd, wr, rec, rec_connected, rd_switch, msg_type, cv_seen, leaf,
                  cert_requested, out, delivered, kept>>
  BY DEF engine, keys, record, message, data
<1>2. EngineTypes'
  BY <1>1 DEF CInv, EngineTypes
<1>3. ServerTypes'
  BY DEF CInv, ServerTypes
<1>4. Keys'
  BY <1>1 DEF CInv, Keys, Reading
<1>5. Sending'
  <2>1. srv.key = "plain" => Greeting
    BY DEF CInv, Sending
  <2>2. srv.key = "plain" => /\ ~rd_on' /\ rec'.outer # "handshake"
                             /\ \A i \in 1..Len(wire') : wire'[i].outer # "handshake"
    BY <1>1, <2>1 DEF Greeting
  <2> QED BY <1>1, <2>2, SendingSame DEF CInv
<1> QED BY <1>2, <1>3, <1>4, <1>5 DEF CInv

\* ... of which these are.
LEMMA OutsideStep ==
  ASSUME CInv,
         PumpFed \/ PumpRound \/ PumpGivesUp \/ conn_sent \/ conn_closed \/ conn_abort
           \/ Drop \/ WindowShuts \/ WindowOpens \/ UNCHANGED vars
  PROVE  CInv'
<1>1. UNCHANGED <<engine, wire, sent, srv>>
  BY DEF PumpFed, PumpRound, PumpGivesUp, conn_sent, conn_closed, conn_abort, Drop, WindowShuts,
         WindowOpens, vars
<1>2. ConnTypes
  BY DEF CInv
<1>3. ASSUME PumpFed \/ conn_sent PROVE ConnTypes'
  BY <1>2, <1>3 DEF PumpFed, conn_sent, ConnTypes, Phases, outcome, socket
<1>4. ASSUME Drop \/ WindowShuts \/ WindowOpens PROVE ConnTypes'
  BY <1>2, <1>4 DEF Drop, WindowShuts, WindowOpens, ConnTypes, outcome
<1>5. ASSUME NEW r \in BOOLEAN, NEW c \in BOOLEAN, Abort(r, c), UNCHANGED <<conn_chain, window>>
      PROVE  ConnTypes'
  BY <1>2, <1>5 DEF Abort, ConnTypes, Phases
<1>6. ASSUME PumpGivesUp PROVE ConnTypes'
  <2> PICK stop \in BOOLEAN : Abort(error # "ALERT", stop)
    BY <1>6 DEF PumpGivesUp
  <2>1. (error # "ALERT") \in BOOLEAN
    OBVIOUS
  <2>2. UNCHANGED <<conn_chain, window>>
    BY <1>6 DEF PumpGivesUp
  <2> QED BY <1>5, <2>1, <2>2
<1>7. ASSUME conn_closed \/ conn_abort PROVE ConnTypes'
  <2>1. conn_retry \in BOOLEAN /\ conn_cancelled \in BOOLEAN
    BY <1>2 DEF ConnTypes
  <2>2. Abort(conn_retry, conn_cancelled) /\ UNCHANGED <<conn_chain, window>>
    BY <1>7 DEF conn_closed, conn_abort
  <2> QED BY <1>5, <2>1, <2>2
<1>8. ASSUME PumpRound PROVE ConnTypes'
  <2>1. ASSUME Abort(error # "ALERT", FALSE), UNCHANGED conn_chain PROVE ConnTypes'
    <3>1. (error # "ALERT") \in BOOLEAN /\ FALSE \in BOOLEAN
      OBVIOUS
    <3>2. UNCHANGED <<conn_chain, window>>
      BY <1>8, <2>1 DEF PumpRound
    <3> QED BY <1>5, <2>1, <3>1, <3>2
  <2>2. ASSUME conn' \in {"verify", "pump"}, UNCHANGED <<outcome, alive>> PROVE ConnTypes'
    BY <1>2, <1>8, <2>2 DEF PumpRound, ConnTypes, Phases, outcome
  <2> QED BY <1>8, <2>1, <2>2 DEF PumpRound
<1>9. ASSUME UNCHANGED vars PROVE ConnTypes'
  BY <1>2, <1>9 DEF vars, outcome, socket, ConnTypes
<1>10. ConnTypes'
  BY <1>3, <1>4, <1>6, <1>7, <1>8, <1>9
<1> QED BY <1>1, <1>10, OutsideKeeps

\* The dial, well and ill.
LEMMA OpenStep ==
  ASSUME CInv, conn_open
  PROVE  CInv'
<1>1. CASE /\ conn' = "shut" /\ conn_retry' = TRUE /\ alive' = FALSE
           /\ UNCHANGED <<engine, wire, sent, srv, window>>
  <2>1. ConnTypes'
    BY <1>1 DEF conn_open, CInv, ConnTypes, Phases
  <2> QED BY <1>1, <2>1, OutsideKeeps
<1>2. CASE /\ conn' = "pump" /\ conn_retry' = FALSE /\ alive' = TRUE
           /\ tls_start
           /\ wire' = <<>> /\ sent' = <<>> /\ window' = TRUE
           /\ srv' = [at |-> "listening", key |-> "plain", seq |-> 0, todo |-> <<>>,
                      rd |-> Plain, heard |-> 0, honest |-> TRUE, proves |-> FALSE,
                      said |-> <<>>, replies |-> 0, faults |-> 0]
  <2>1. ConnTypes'
    BY <1>2 DEF conn_open, ConnTypes, Phases
  <2>2. EngineTypes' /\ Keys' /\ out' = <<Hello>>
    BY <1>2, BeginKeeps DEF CInv
  <2>3. /\ DOMAIN srv' = SrvFields /\ srv'.key = "plain" /\ srv'.seq = 0 /\ srv'.todo = <<>>
        /\ srv'.rd = Plain /\ srv'.heard = 0 /\ srv'.said = <<>> /\ srv'.at = "listening"
    BY <1>2 DEF SrvFields
  <2>4. ServerTypes'
    BY <1>2, <2>3 DEF ServerTypes, Plain, WritePlace
  <2>5. Sending'
    <3>1. rd_on' = FALSE /\ rec' = NoRec /\ wr' = Plain
      BY <1>2 DEF tls_start
    <3>2. Greeting'
      BY <1>2, <2>2, <2>3, <3>1, NoRecord DEF Greeting, Hello, Plain
    <3> QED BY <2>3, <3>2 DEF Sending
  <2> QED BY <2>1, <2>2, <2>4, <2>5 DEF CInv
<1> QED BY <1>1, <1>2 DEF conn_open

\* A record begun.
LEMMA ReadStartStep ==
  ASSUME CInv, ReadStart
  PROVE  CInv'
<1>1. wire \in Seq(Records) /\ wire # <<>>
  BY DEF CInv, ServerTypes, ReadStart
<1>2. Head(wire) \in Records /\ Head(wire) = wire[1] /\ 1 \in 1..Len(wire)
  BY <1>1
<1>3. /\ record_start(Head(wire)) /\ wire' = Tail(wire)
      /\ UNCHANGED <<conn, outcome, socket, sent, srv, opens>>
  BY DEF ReadStart
<1>4. EngineTypes' /\ Keys'
  BY <1>2, <1>3, StartKeeps DEF CInv
<1>5. wire' \in Seq(Records) /\ Len(wire') = Len(wire) - 1
      /\ \A i \in 1..Len(wire') : i + 1 \in 1..Len(wire) /\ wire'[i] = wire[i + 1]
  BY <1>1, <1>3
<1>6. ServerTypes' /\ ConnTypes'
  BY <1>3, <1>5 DEF CInv, ServerTypes, ConnTypes, outcome, socket
<1>7. UNCHANGED <<out, wr, rd_on>> /\ rec' = Head(wire)
  BY <1>3 DEF record_start, keys
<1>8. Sending'
  <2>1. srv.key = "plain" => Greeting
    BY DEF CInv, Sending
  <2>2. srv.key = "plain" => /\ ~rd_on' /\ rec'.outer # "handshake"
                             /\ \A i \in 1..Len(wire') : wire'[i].outer # "handshake"
    BY <1>2, <1>5, <1>7, <2>1 DEF Greeting
  <2> QED BY <1>3, <1>7, <2>2, SendingSame DEF CInv
<1> QED BY <1>4, <1>6, <1>8 DEF CInv

\* An item read.
LEMMA ReadContentStep ==
  ASSUME CInv, ReadContent
  PROVE  CInv'
<1>1. Content /\ UNCHANGED <<conn, outcome, socket, wire, sent, srv, opens>>
  BY DEF ReadContent
<1>2. state = "WAIT_HS" => Room
  BY NothingQueued DEF CInv
<1>3. EngineTypes' /\ Keys'
  BY <1>1, <1>2, ContentKeeps DEF CInv
<1>4. ServerTypes' /\ ConnTypes'
  BY <1>1 DEF CInv, ServerTypes, ConnTypes, outcome, socket
<1>5. /\ rec \in Records /\ rec' = [rec EXCEPT !.items = Tail(@)] /\ rec.items # <<>>
      /\ Quiet \/ HelloTaken \/ FinishedTaken
  BY <1>1, <1>2, ContentEffect DEF CInv
<1>6. rec'.outer = rec.outer
  BY <1>5, ItemRead
<1>7. srv.key = "plain" => Greeting
  BY DEF CInv, Sending
<1>8. CASE Quiet
  <2>1. UNCHANGED <<rd_on, wr, out>>
    BY <1>8 DEF Quiet
  <2>2. srv.key = "plain" => /\ ~rd_on' /\ rec'.outer # "handshake"
                             /\ \A i \in 1..Len(wire') : wire'[i].outer # "handshake"
    BY <1>1, <1>6, <1>7, <2>1 DEF Greeting
  <2>3. Sending'
    BY <1>1, <2>1, <2>2, SendingSame DEF CInv
  <2> QED BY <1>3, <1>4, <2>3 DEF CInv
<1>9. CASE HelloTaken
  <2>1. /\ rec.outer = "handshake" /\ state = "WAIT_SH"
        /\ wr' = [key |-> "c_hs", seq |-> 0] /\ UNCHANGED out
    BY <1>9 DEF HelloTaken
  <2>2. srv.key # "plain" /\ wr = Plain
    BY <1>7, <2>1 DEF Greeting, CInv, Keys
  <2>3. Trail(sent, srv.heard, srv.rd, out, wr')
    BY <2>1, <2>2, TrailKeyed DEF CInv, Sending
  <2>4. Sending'
    BY <1>1, <2>1, <2>2, <2>3, TrailLater DEF CInv, Sending
  <2> QED BY <1>3, <1>4, <2>4 DEF CInv
<1>10. CASE FinishedTaken
  <2> PICK k \in {"finished", "empty+finished"} : out' = Append(out, Record(k))
    BY <1>10 DEF FinishedTaken
  <2>1. state = "WAIT_HS" /\ Room /\ wr' = [key |-> "c_ap", seq |-> 0]
    BY <1>10 DEF FinishedTaken
  <2>2. srv.key # "plain" /\ wr = [key |-> "c_hs", seq |-> 0]
    BY <2>1, NothingQueued DEF CInv, Keys
  <2>3. /\ Record(k) \in OutRecords /\ Record(k).key = wr.key /\ Record(k).seq = wr.seq
        /\ Record(k).kind = k
    BY <2>1, Queued DEF CInv
  <2>4. wr' \in WritePlace /\ wr \in WritePlace /\ <<wr, Record(k), wr'>> \in Sends
    <3> HIDE DEF Record
    <3>1. wr' \in WritePlace /\ wr \in WritePlace
      BY <2>1, <2>2 DEF WritePlace
    <3> QED BY <2>1, <2>2, <2>3, <3>1 DEF Sends
  <2>5. /\ sent \in Seq(OutRecords) /\ srv.heard \in 0..Len(sent) /\ out \in Seq(OutRecords)
        /\ Trail(sent, srv.heard, srv.rd, out, wr)
    BY <2>2 DEF CInv, Sending, ServerTypes, EngineTypes
  <2>6. wr.key # "plain" /\ wr'.key # "plain"
    BY <2>1, <2>2
  <2>7. Trail(sent, srv.heard, srv.rd, Append(out, Record(k)), wr')
    BY <2>3, <2>4, <2>5, <2>6, TrailSeal
  <2>8. Sending'
    BY <1>1, <2>2, <2>7, TrailLater DEF CInv, Sending
  <2> QED BY <1>3, <1>4, <2>8 DEF CInv
<1> QED BY <1>5, <1>8, <1>9, <1>10

\* A record ended.
LEMMA ReadEndStep ==
  ASSUME CInv, ReadEnd
  PROVE  CInv'
<1>1. record_end /\ UNCHANGED <<conn, outcome, socket, wire, sent, srv, opens>>
  BY DEF ReadEnd
<1>2. EngineTypes' /\ Keys'
  BY <1>1, EndKeeps DEF CInv
<1>3. ServerTypes' /\ ConnTypes'
  BY <1>1 DEF CInv, ServerTypes, ConnTypes, outcome, socket
<1>4. UNCHANGED <<rd_on, wr, out>> /\ rec' = NoRec
  BY <1>1, EndEffect DEF CInv
<1>5. Sending'
  <2>1. srv.key = "plain" => Greeting
    BY DEF CInv, Sending
  <2>2. srv.key = "plain" => /\ ~rd_on' /\ rec'.outer # "handshake"
                             /\ \A i \in 1..Len(wire') : wire'[i].outer # "handshake"
    BY <1>1, <1>4, <2>1, NoRecord DEF Greeting
  <2> QED BY <1>1, <1>4, <2>2, SendingSame DEF CInv
<1> QED BY <1>2, <1>3, <1>5 DEF CInv

\* A record given to the socket.
LEMMA PushStep ==
  ASSUME CInv, PushOut
  PROVE  CInv'
<1>1. /\ out # <<>> /\ sent' = Append(sent, Head(out)) /\ out' = Tail(out)
      /\ UNCHANGED <<state, error, keys, record, message, data, conn, outcome, socket, wire, srv>>
  BY DEF PushOut
<1>2. UNCHANGED <<rd_on, rd, wr, rec, rec_connected, rd_switch, msg_type, cv_seen, leaf,
                  cert_requested, delivered, kept>>
  BY <1>1 DEF keys, record, message, data
<1>3. out \in Seq(OutRecords) /\ Len(out) <= OutMax /\ OutMax \in Nat /\ sent \in Seq(OutRecords)
  BY OutAssumption DEF CInv, EngineTypes, ServerTypes, OutAssumption
<1>4. Head(out) \in OutRecords /\ out' \in Seq(OutRecords) /\ Len(out') = Len(out) - 1
  BY <1>1, <1>3
<1>5. EngineTypes'
  BY <1>1, <1>2, <1>3, <1>4 DEF CInv, EngineTypes
<1>6. sent' \in Seq(OutRecords) /\ Len(sent') = Len(sent) + 1
  BY <1>1, <1>3, <1>4
<1>7. ServerTypes' /\ ConnTypes'
  BY <1>1, <1>6 DEF CInv, ServerTypes, ConnTypes, outcome, socket
<1>8. Keys'
  BY <1>1, <1>2 DEF CInv, Keys, Reading
<1>9. Sending'
  <2>1. CASE srv.key = "plain"
    <3>1. Greeting
      BY <2>1 DEF CInv, Sending
    <3>2. sent = <<>> /\ srv.heard = 0 /\ out = <<Hello>> /\ srv.at = "listening"
      BY <1>1, <3>1 DEF Greeting
    <3>3. sent' = <<Hello>> /\ out' = <<>>
      BY <1>1, <3>2
    <3>4. UNCHANGED <<rd_on, rec, wire, wr, srv>>
      BY <1>1, <1>2
    <3>5. Greeting'
      BY <3>1, <3>2, <3>3, <3>4 DEF Greeting, Hello, Plain
    <3> QED BY <2>1, <3>2, <3>4, <3>5 DEF Sending
  <2>2. CASE srv.key # "plain"
    <3>1. srv.heard \in 0..Len(sent) /\ Trail(sent, srv.heard, srv.rd, out, wr)
      BY <2>2 DEF CInv, Sending
    <3>2. Trail(sent', srv.heard, srv.rd, out', wr)
      BY <1>1, <1>3, <3>1, TrailPush
    <3>3. srv.heard \in 0..Len(sent')
      BY <1>3, <1>6, <3>1
    <3> QED BY <1>1, <1>2, <2>2, <3>2, <3>3, TrailLater DEF CInv, Sending
  <2> QED BY <2>1, <2>2
<1> QED BY <1>5, <1>7, <1>8, <1>9 DEF CInv

\* What leaves alone all that the client sends by, but moves the state.
LEMMA VerifyStep ==
  ASSUME CInv, Verify
  PROVE  CInv'
<1>1. tls_verify /\ UNCHANGED <<window, wire, sent, srv>>
  BY DEF Verify
<1>2. EngineTypes' /\ Keys' /\ UNCHANGED <<rd_on, rd, wr, rec, rec_connected, rd_switch, out>>
  BY <1>1, VerifyKeeps DEF CInv
<1>3. ConnTypes'
  <2>1. ConnTypes
    BY DEF CInv
  <2>2. ASSUME NEW r \in BOOLEAN, NEW c \in BOOLEAN, Abort(r, c),
               conn_chain' \in ChainResults \cup {"unreached"}
        PROVE  ConnTypes'
    BY <1>1, <2>1, <2>2 DEF Abort, ConnTypes, Phases
  <2>3. ASSUME state' # "CONNECTED" PROVE ConnTypes'
    <3>1. Abort(FALSE, FALSE) /\ UNCHANGED conn_chain
      BY <2>3 DEF Verify
    <3> QED BY <2>1, <2>2, <3>1 DEF ConnTypes
  <2>4. ASSUME state' = "CONNECTED" PROVE ConnTypes'
    <3> PICK r \in ChainResults :
          /\ conn_chain' = r
          /\ IF r = "OK"
               THEN conn' = "open" /\ UNCHANGED <<alive, conn_retry, conn_cancelled>>
               ELSE Abort(r = "UNSUPPORTED", FALSE)
      BY <2>4 DEF Verify
    <3>1. ASSUME r = "OK" PROVE ConnTypes'
      BY <1>1, <2>1, <3>1 DEF ConnTypes, Phases
    <3>2. ASSUME r # "OK" PROVE ConnTypes'
      <4>1. (r = "UNSUPPORTED") \in BOOLEAN /\ FALSE \in BOOLEAN
        OBVIOUS
      <4>2. Abort(r = "UNSUPPORTED", FALSE)
        BY <3>2
      <4> QED BY <2>2, <4>1, <4>2
    <3> QED BY <3>1, <3>2
  <2> QED BY <2>3, <2>4
<1>4. ServerTypes'
  BY <1>1 DEF CInv, ServerTypes
<1>5. Sending'
  <2>1. srv.key = "plain" => Greeting
    BY DEF CInv, Sending
  <2>2. srv.key = "plain" => /\ ~rd_on' /\ rec'.outer # "handshake"
                             /\ \A i \in 1..Len(wire') : wire'[i].outer # "handshake"
    BY <1>1, <1>2, <2>1 DEF Greeting
  <2> QED BY <1>1, <1>2, <2>2, SendingSame DEF CInv
<1> QED BY <1>2, <1>3, <1>4, <1>5 DEF CInv

\* A line, or a close_notify, sealed.
LEMMA SealStep ==
  ASSUME CInv, state = "CONNECTED", Room, NEW k \in {"line", "close"},
         out' = Append(out, Record(k)), wr' = Numbered,
         UNCHANGED <<state, error, rd_on, rd, record, message, data, wire, sent, srv>>, ConnTypes'
  PROVE  CInv'
<1>1. EngineTypes' /\ Keys' /\ wr' = [key |-> "c_ap", seq |-> wr.seq + 1] /\ wr.key = "c_ap"
  BY SealKeeps DEF CInv
<1>2. ServerTypes'
  BY DEF CInv, ServerTypes
<1>3. srv.key # "plain"
  BY <1>1 DEF CInv, Sending, Greeting, Plain
<1>4. /\ Record(k) \in OutRecords /\ Record(k).key = wr.key /\ Record(k).seq = wr.seq
      /\ Record(k).kind = k
  BY Queued DEF CInv
<1>5. wr \in WritePlace /\ wr' \in WritePlace
  BY <1>1 DEF CInv, EngineTypes
<1>6. <<wr, Record(k), wr'>> \in Sends
  <2> HIDE DEF Record
  <2> QED BY <1>1, <1>4, <1>5 DEF Sends
<1>7. /\ sent \in Seq(OutRecords) /\ srv.heard \in 0..Len(sent) /\ out \in Seq(OutRecords)
      /\ Trail(sent, srv.heard, srv.rd, out, wr)
  BY <1>3 DEF CInv, Sending, ServerTypes, EngineTypes
<1>8. Trail(sent, srv.heard, srv.rd, Append(out, Record(k)), wr')
  <2>1. wr.key # "plain" /\ wr'.key # "plain"
    BY <1>1
  <2> QED BY <1>4, <1>5, <1>6, <1>7, <2>1, TrailSeal
<1>9. Sending'
  BY <1>3, <1>8, TrailLater DEF CInv, Sending
<1> QED BY <1>1, <1>2, <1>9 DEF CInv

\* ... by conn_send and conn_close.
LEMMA SendStep ==
  ASSUME CInv, conn_send \/ conn_close
  PROVE  CInv'
<1>1. ConnTypes'
  BY DEF conn_send, conn_close, CInv, ConnTypes, Phases, outcome, socket
<1>2. CASE conn_send
  <2>1. /\ state = "CONNECTED" /\ Room
        /\ out' = Append(out, Record("line")) /\ wr' = Numbered
        /\ UNCHANGED <<state, error, rd_on, rd, record, message, data, wire, sent, srv>>
    BY <1>2 DEF conn_send, tls_write, CanWrite
  <2> QED BY <1>1, <2>1, SealStep
<1>3. CASE conn_close
  <2>1. /\ state = "CONNECTED"
        /\ out' = (IF Room THEN Append(out, Record("close")) ELSE out)
        /\ wr' = (IF Room THEN Numbered ELSE wr)
        /\ mac' = (IF Room THEN SealedOver(mac) ELSE mac)
        /\ UNCHANGED <<state, error, rd_on, rd, record, message, data, wire, sent, srv>>
    BY <1>3 DEF conn_close, tls_close
  <2>2. CASE Room
    BY <1>1, <2>1, <2>2, SealStep
  <2>3. CASE ~Room
    BY <1>1, <2>1, <2>3, OutsideKeeps DEF engine, keys
  <2> QED BY <2>2, <2>3
<1> QED BY <1>2, <1>3

-----------------------------------------------------------------------------
(* The server's steps *)

\* What is on the wire and where the server is when a record has left it: an honest
\* server's comes as it was made, if the server stays honest.
Left(s, outer, inner, items, desc) ==
  /\ \E r \in Records :
       /\ wire' = Append(wire, r)
       /\ r.outer = outer /\ r.inner = inner /\ r.items = items /\ r.desc = desc
       /\ r.key = srv.key /\ r.seq = srv.seq
       /\ srv'.honest => s.honest /\ r.framed /\ r.good
  /\ DOMAIN srv' = SrvFields
  /\ srv'.at = s.at /\ srv'.key = s.key /\ srv'.seq = s.seq /\ srv'.todo = s.todo
  /\ srv'.rd = s.rd /\ srv'.heard = s.heard /\ srv'.said = s.said /\ srv'.proves = s.proves
LEMMA OntoLeft ==
  ASSUME ServerTypes, NEW s, DOMAIN s = SrvFields,
         NEW outer \in {"handshake", "appdata", "alert", "ccs"},
         NEW inner \in {"none", "handshake", "appdata", "alert"},
         NEW items \in Seq(Items),
         NEW desc \in {"none", "line", "ticket", "close", "fatal"},
         Onto(s, outer, inner, items, desc)
  PROVE  Left(s, outer, inner, items, desc)
<1> PICK flaw :
      /\ wire' = Append(wire, [outer |-> outer, inner |-> inner, key |-> srv.key,
                               seq |-> srv.seq, items |-> items, desc |-> desc,
                               framed |-> flaw # "framing", good |-> flaw # "tag"])
      /\ srv' = [s EXCEPT !.faults = IF flaw = "none" THEN @ ELSE @ + 1,
                          !.honest = @ /\ flaw = "none"]
  BY DEF Onto
<1> DEFINE r == [outer |-> outer, inner |-> inner, key |-> srv.key,
                 seq |-> srv.seq, items |-> items, desc |-> desc,
                 framed |-> flaw # "framing", good |-> flaw # "tag"]
<1>1. (flaw # "framing") \in BOOLEAN /\ (flaw # "tag") \in BOOLEAN
  OBVIOUS
<1>2. srv.key \in {"plain", "s_hs", "s_ap"} /\ srv.seq \in Nat
  BY DEF ServerTypes
<1>3. r \in Records
  BY <1>1, <1>2 DEF Records
<1>4. /\ r.outer = outer /\ r.inner = inner /\ r.items = items /\ r.desc = desc
      /\ r.key = srv.key /\ r.seq = srv.seq /\ wire' = Append(wire, r)
      /\ flaw = "none" => r.framed /\ r.good
  OBVIOUS
<1> HIDE DEF r
<1>5. /\ DOMAIN srv' = SrvFields
      /\ srv'.at = s.at /\ srv'.key = s.key /\ srv'.seq = s.seq /\ srv'.todo = s.todo
      /\ srv'.rd = s.rd /\ srv'.heard = s.heard /\ srv'.said = s.said /\ srv'.proves = s.proves
  BY DEF SrvFields
<1>6. srv'.honest => s.honest /\ flaw = "none"
  BY DEF SrvFields
<1> QED BY <1>3, <1>4, <1>5, <1>6 DEF Left

\* The client has no part in it.
LEMMA ServerStepKeeps ==
  ASSUME CInv, ServerStep
  PROVE  /\ EngineTypes' /\ Keys' /\ ConnTypes'
         /\ UNCHANGED <<sent, out, wr, rd_on, rec>>
<1>1. UNCHANGED <<state, error, rd_on, rd, wr, rec, rec_connected, rd_switch, msg_type, cv_seen, leaf,
                  cert_requested, out, delivered, kept, conn, outcome, socket, sent>>
  BY DEF ServerStep, engine, keys, record, message, data
<1>2. EngineTypes'
  BY <1>1 DEF CInv, EngineTypes
<1>3. Keys'
  BY <1>1 DEF CInv, Keys, Reading
<1>4. ConnTypes'
  BY <1>1 DEF CInv, ConnTypes, outcome, socket
<1> QED BY <1>1, <1>2, <1>3, <1>4

\* Parts of messages, and of flights.
LEMMA PartItem ==
  ASSUME NEW mm \in {"SH", "EE", "CR", "CERT", "CV", "FIN", "line", "ticket", "close", "fatal", "ccs"},
         NEW at \in {"header", "body", "data", "alert"}, NEW ok \in Oks
  PROVE  Part(mm, at, ok) \in Items
BY DEF Part, Items

\* What a flight is made of are items.
LEMMA FlightItems == Seq(FlightParts) \subseteq Seq(Items)
<1>1. FlightParts \subseteq Items
  BY DEF FlightParts, Items, Oks
<1> QED BY <1>1

\* The server's key being up, a step that moves neither where it reads nor what
\* it heard.
LEMMA TrailKept ==
  ASSUME CInv, srv.key # "plain", UNCHANGED <<sent, out, wr>>, srv'.rd = srv.rd,
         srv'.heard = srv.heard, srv'.key # "plain",
         srv'.at \notin {"broken", "listening", "hello"}
  PROVE  Sending'
<1>1. srv.heard \in 0..Len(sent) /\ Trail(sent, srv.heard, srv.rd, out, wr)
  BY DEF CInv, Sending
<1>2. Trail(sent', srv'.heard, srv'.rd, out', wr')
  BY <1>1
<1>3. Trail(sent, srv.heard, srv.rd, out, wr)'
  BY <1>2, TrailLater
<1> QED BY <1>1, <1>3 DEF Sending

\* The ServerHello.
LEMMA HelloStep ==
  ASSUME CInv, ServerHello
  PROVE  CInv'
<1> PICK ok \in HelloKinds, flight \in Flights :
       Onto([srv EXCEPT !.at = "flight", !.key = "s_hs", !.seq = 0,
                        !.rd = [key |-> "c_hs", seq |-> 0],
                        !.todo = flight,
                        !.honest = ok = "good" /\ Proves(flight),
                        !.proves = ok = "good" /\ Proves(flight)],
            "handshake", "none",
            <<Part("SH", "header", "good"), Part("SH", "body", ok)>>, "none")
  BY DEF ServerHello
<1> DEFINE s == [srv EXCEPT !.at = "flight", !.key = "s_hs", !.seq = 0,
                            !.rd = [key |-> "c_hs", seq |-> 0],
                            !.todo = flight,
                            !.honest = ok = "good" /\ Proves(flight),
                            !.proves = ok = "good" /\ Proves(flight)]
           items == <<Part("SH", "header", "good"), Part("SH", "body", ok)>>
<1>1. ServerStep /\ srv.at = "hello"
  BY DEF ServerHello
<1>2. EngineTypes' /\ Keys' /\ ConnTypes' /\ UNCHANGED <<sent, out, wr, rd_on, rec>>
  BY <1>1, ServerStepKeeps
<1>3. ServerTypes
  BY DEF CInv
<1>4. /\ DOMAIN s = SrvFields /\ s.at = "flight" /\ s.key = "s_hs" /\ s.seq = 0
      /\ s.rd = [key |-> "c_hs", seq |-> 0] /\ s.todo = flight
      /\ s.heard = srv.heard /\ s.said = srv.said
  BY <1>3 DEF ServerTypes, SrvFields
<1>5. items \in Seq(Items)
  <2>1. "good" \in Oks /\ ok \in Oks
    BY DEF Oks
  <2>2. Part("SH", "header", "good") \in Items /\ Part("SH", "body", ok) \in Items
    BY <2>1, PartItem
  <2> QED BY <2>2
<1>6. Onto(s, "handshake", "none", items, "none")
  OBVIOUS
<1> HIDE DEF s, items
<1>7. /\ \E r \in Records : wire' = Append(wire, r)
      /\ DOMAIN srv' = SrvFields
      /\ srv'.at = s.at /\ srv'.key = s.key /\ srv'.seq = s.seq /\ srv'.todo = s.todo
      /\ srv'.rd = s.rd /\ srv'.heard = s.heard /\ srv'.said = s.said
  <2>1. Left(s, "handshake", "none", items, "none")
    BY <1>3, <1>4, <1>5, <1>6, OntoLeft
  <2> QED BY <2>1 DEF Left
<1>8. flight \in Seq(FlightParts)
  BY ConnAssumption DEF ConnAssumption
<1>9. [key |-> "c_hs", seq |-> 0] \in WritePlace
  BY DEF WritePlace
<1>10. wire' \in Seq(Records)
  BY <1>3, <1>7 DEF ServerTypes
<1>11. ServerTypes'
  BY <1>2, <1>3, <1>4, <1>7, <1>8, <1>9, <1>10 DEF ServerTypes
<1>12. sent = <<Hello>> /\ out = <<>> /\ srv.heard = 1 /\ wr = Plain
  BY <1>1 DEF CInv, Sending, Greeting
<1>13. sent \in Seq(OutRecords) /\ Len(sent) = 1
  BY <1>3, <1>12 DEF ServerTypes
<1>14. Trail(sent, Len(sent), [key |-> "c_hs", seq |-> 0], <<>>, Plain)
  BY <1>13, TrailBegins
<1>15. Trail(sent', srv'.heard, srv'.rd, out', wr')
  BY <1>2, <1>4, <1>7, <1>12, <1>13, <1>14
<1>16. Sending'
  <2>1. Trail(sent, srv.heard, srv.rd, out, wr)'
    BY <1>15, TrailLater
  <2>2. srv'.heard \in 0..Len(sent')
    BY <1>2, <1>4, <1>7, <1>12, <1>13
  <2> QED BY <1>4, <1>7, <2>1, <2>2 DEF Sending
<1> QED BY <1>2, <1>11, <1>16 DEF CInv

\* A record of the flight.
LEMMA FlightStep ==
  ASSUME CInv, ServerFlight
  PROVE  CInv'
<1> PICK k \in Cuts \cap 1..Len(srv.todo) :
       LET rest == SubSeq(srv.todo, k + 1, Len(srv.todo))
       IN  Onto(IF rest = <<>>
                  THEN [srv EXCEPT !.todo = rest, !.at = "done", !.key = "s_ap", !.seq = 0]
                  ELSE [srv EXCEPT !.todo = rest, !.seq = @ + 1],
                "appdata", "handshake", SubSeq(srv.todo, 1, k), "none")
  BY DEF ServerFlight
<1> DEFINE rest == SubSeq(srv.todo, k + 1, Len(srv.todo))
           items == SubSeq(srv.todo, 1, k)
           s == IF rest = <<>>
                  THEN [srv EXCEPT !.todo = rest, !.at = "done", !.key = "s_ap", !.seq = 0]
                  ELSE [srv EXCEPT !.todo = rest, !.seq = @ + 1]
<1>1. ServerStep /\ srv.at = "flight"
  BY DEF ServerFlight
<1>2. EngineTypes' /\ Keys' /\ ConnTypes' /\ UNCHANGED <<sent, out, wr, rd_on, rec>>
  BY <1>1, ServerStepKeeps
<1>3. ServerTypes /\ srv.todo \in Seq(FlightParts)
  BY DEF CInv, ServerTypes
<1>4. items \in Seq(FlightParts) /\ rest \in Seq(FlightParts)
  BY <1>3
<1>5. items \in Seq(Items)
  BY <1>4, FlightItems
<1>6. Onto(s, "appdata", "handshake", items, "none")
  OBVIOUS
<1> HIDE DEF rest, items
<1>7. srv.key # "plain"
  BY <1>1 DEF CInv, Sending, Greeting
<1>8. /\ DOMAIN s = SrvFields /\ s.at \in {"flight", "done"} /\ s.key \in {"s_hs", "s_ap"}
      /\ s.seq \in Nat /\ s.todo = rest
      /\ s.rd = srv.rd /\ s.heard = srv.heard /\ s.said = srv.said
  BY <1>1, <1>3, <1>7 DEF ServerTypes, SrvFields
<1> HIDE DEF s
<1>9. /\ \E r \in Records : wire' = Append(wire, r)
      /\ DOMAIN srv' = SrvFields
      /\ srv'.at = s.at /\ srv'.key = s.key /\ srv'.seq = s.seq /\ srv'.todo = s.todo
      /\ srv'.rd = s.rd /\ srv'.heard = s.heard /\ srv'.said = s.said
  <2>1. Left(s, "appdata", "handshake", items, "none")
    BY <1>3, <1>5, <1>6, <1>8, OntoLeft
  <2> QED BY <2>1 DEF Left
<1>10. wire' \in Seq(Records)
  BY <1>3, <1>9 DEF ServerTypes
<1>11. ServerTypes'
  BY <1>2, <1>3, <1>4, <1>8, <1>9, <1>10 DEF ServerTypes
<1>12. Sending'
  <2>1. /\ srv'.rd = srv.rd /\ srv'.heard = srv.heard /\ srv'.key # "plain"
        /\ srv'.at \notin {"broken", "listening", "hello"}
    BY <1>8, <1>9
  <2> QED BY <1>2, <1>7, <2>1, TrailKept
<1> QED BY <1>2, <1>11, <1>12 DEF CInv

\* The change_cipher_spec.
LEMMA CCSStep ==
  ASSUME CInv, ServerCCS
  PROVE  CInv'
<1> DEFINE r == [outer |-> "ccs", inner |-> "none", key |-> "plain", seq |-> 0,
                 items |-> <<Part("ccs", "data", "good")>>, desc |-> "none",
                 framed |-> TRUE, good |-> TRUE]
<1>1. ServerStep /\ srv.at = "flight" /\ wire' = Append(wire, r) /\ UNCHANGED srv
  BY DEF ServerCCS
<1>2. EngineTypes' /\ Keys' /\ ConnTypes' /\ UNCHANGED <<sent, out, wr, rd_on, rec>>
  BY <1>1, ServerStepKeeps
<1>3. Part("ccs", "data", "good") \in Items
  BY PartItem DEF Oks
<1>4. <<Part("ccs", "data", "good")>> \in Seq(Items)
  BY <1>3
<1>5. r \in Records
  BY <1>4 DEF Records
<1> HIDE DEF r
<1>6. ServerTypes'
  <2>1. ServerTypes
    BY DEF CInv
  <2>2. wire' \in Seq(Records)
    BY <1>1, <1>5, <2>1 DEF ServerTypes
  <2> QED BY <1>1, <1>2, <2>1, <2>2 DEF ServerTypes
<1>7. srv.key # "plain"
  BY <1>1 DEF CInv, Sending, Greeting
<1>8. Sending'
  BY <1>1, <1>2, <1>7, TrailKept
<1> QED BY <1>2, <1>6, <1>8 DEF CInv

\* A record of the client's heard.
LEMMA HearStep ==
  ASSUME CInv, ServerHears
  PROVE  CInv'
<1> DEFINE r == sent[srv.heard + 1]
           s == [srv EXCEPT !.heard = @ + 1]
<1>1. /\ ServerStep /\ srv.heard < Len(sent) /\ UNCHANGED wire
      /\ srv' = IF r.key # srv.rd.key \/ r.seq # srv.rd.seq THEN [s EXCEPT !.at = "broken"]
                ELSE IF r.kind = "hello" THEN [s EXCEPT !.at = "hello"]
                ELSE IF r.kind \in {"finished", "empty+finished"}
                  THEN [s EXCEPT !.at = "up", !.rd = [key |-> "c_ap", seq |-> 0]]
                ELSE [s EXCEPT !.rd.seq = @ + 1]
  BY DEF ServerHears
<1>2. EngineTypes' /\ Keys' /\ ConnTypes' /\ UNCHANGED <<sent, out, wr, rd_on, rec>>
  BY <1>1, ServerStepKeeps
<1>3. ServerTypes
  BY DEF CInv
<1>4. /\ DOMAIN s = SrvFields /\ s.heard = srv.heard + 1 /\ s.at = srv.at /\ s.key = srv.key
      /\ s.seq = srv.seq /\ s.todo = srv.todo /\ s.rd = srv.rd /\ s.said = srv.said
  BY <1>3 DEF ServerTypes, SrvFields
<1>5. CASE srv.key = "plain"
  <2>1. Greeting
    BY <1>5 DEF CInv, Sending
  <2>2. /\ sent = <<Hello>> /\ out = <<>> /\ srv.heard = 0 /\ srv.rd = Plain
    BY <1>1, <2>1 DEF Greeting
  <2>3. r = Hello
    BY <2>2
  <2>4. srv' = [s EXCEPT !.at = "hello"]
    BY <1>1, <2>2, <2>3 DEF Hello, Plain
  <2> HIDE DEF s
  <2>5. /\ DOMAIN srv' = SrvFields /\ srv'.at = "hello" /\ srv'.heard = 1
        /\ srv'.key = srv.key /\ srv'.seq = srv.seq /\ srv'.todo = srv.todo
        /\ srv'.rd = srv.rd /\ srv'.said = srv.said
    BY <1>4, <2>2, <2>4 DEF SrvFields
  <2>6. ServerTypes'
    BY <1>1, <1>2, <1>3, <2>5 DEF ServerTypes
  <2>7. Greeting'
    BY <1>1, <1>2, <2>1, <2>2, <2>5 DEF Greeting, Hello, Plain
  <2> QED BY <1>2, <1>5, <2>5, <2>6, <2>7 DEF CInv, Sending
<1>6. CASE srv.key # "plain"
  <2>1. /\ srv.heard \in 0..(Len(sent) - 1) /\ sent \in Seq(OutRecords)
        /\ Trail(sent, srv.heard, srv.rd, out, wr)
        /\ srv.at \notin {"broken", "listening", "hello"}
    BY <1>1, <1>3, <1>6 DEF CInv, Sending, ServerTypes
  <2> PICK c \in WritePlace :
        <<srv.rd, r, c>> \in Sends /\ Trail(sent, srv.heard + 1, c, out, wr)
    BY <2>1, TrailHear
  <2>2. /\ r.key = srv.rd.key /\ r.seq = srv.rd.seq
        /\ \/ r.kind \in {"finished", "empty+finished"} /\ c = [key |-> "c_ap", seq |-> 0]
           \/ /\ r.kind \in {"line", "close"}
              /\ srv.rd.key = "c_ap" /\ c = [key |-> "c_ap", seq |-> srv.rd.seq + 1]
    BY DEF Sends
  <2>3. srv.rd \in WritePlace
    BY <1>3 DEF ServerTypes
  <2> HIDE DEF s
  <2>4. /\ DOMAIN srv' = SrvFields /\ srv'.heard = srv.heard + 1 /\ srv'.rd = c
        /\ srv'.key = srv.key /\ srv'.seq = srv.seq /\ srv'.todo = srv.todo
        /\ srv'.said = srv.said /\ srv'.at \in {srv.at, "up"}
    <3> HIDE DEF r
    <3>1. CASE r.kind \in {"finished", "empty+finished"}
      <4>1. srv' = [s EXCEPT !.at = "up", !.rd = [key |-> "c_ap", seq |-> 0]]
        BY <1>1, <2>2, <3>1
      <4>2. c = [key |-> "c_ap", seq |-> 0]
        BY <2>2, <3>1
      <4> QED BY <1>4, <4>1, <4>2 DEF SrvFields
    <3>2. CASE r.kind \in {"line", "close"}
      <4>1. srv' = [s EXCEPT !.rd.seq = @ + 1]
        BY <1>1, <2>2, <3>2
      <4>2. c = [key |-> "c_ap", seq |-> srv.rd.seq + 1] /\ srv.rd.key = "c_ap"
        BY <2>2, <3>2
      <4>3. [srv.rd EXCEPT !.seq = @ + 1] = c
        BY <2>3, <4>2 DEF WritePlace
      <4>4. srv' = [s EXCEPT !.rd = c]
        BY <1>4, <4>1, <4>3
      <4> QED BY <1>4, <4>4 DEF SrvFields
    <3> QED BY <2>2, <3>1, <3>2
  <2>5. ServerTypes'
    <3>1. srv.heard + 1 \in Nat
      BY <1>3 DEF ServerTypes
    <3>2. srv'.heard \in Nat /\ srv'.rd \in WritePlace
      BY <2>4, <3>1
    <3>3. UNCHANGED <<wire, sent>>
      BY <1>1, <1>2
    <3> QED BY <1>3, <2>4, <3>2, <3>3 DEF ServerTypes
  <2>6. Trail(sent', srv'.heard, srv'.rd, out', wr')
    BY <1>2, <2>4
  <2>7. Sending'
    <3>1. Trail(sent, srv.heard, srv.rd, out, wr)'
      BY <2>6, TrailLater
    <3>2. srv'.heard \in 0..Len(sent')
      BY <1>2, <2>1, <2>4
    <3>3. srv'.key # "plain" /\ srv'.at \notin {"broken", "listening", "hello"}
      BY <1>6, <2>1, <2>4
    <3> QED BY <3>1, <3>2, <3>3 DEF Sending
  <2> QED BY <1>2, <2>5, <2>7 DEF CInv
<1> QED BY <1>5, <1>6

\* What a server sends when its handshake is over.
LEMMA ReplyStep ==
  ASSUME CInv, ServerReplies
  PROVE  CInv'
<1> PICK r \in Replies :
       LET x == [m |-> r, ok |-> "good",
                 at |-> CASE r = "ticket" -> "body" [] r = "line" -> "data" [] OTHER -> "alert",
                 n |-> IF r = "line" THEN Len(srv.said) + 1 ELSE 0]
           s == [srv EXCEPT !.replies = @ + 1, !.seq = @ + 1,
                            !.at = IF r \in {"close", "fatal"} THEN "closed" ELSE @,
                            !.honest = @ /\ r # "fatal",
                            !.said = IF r = "line" THEN Append(@, <<x.m, x.n>>) ELSE @]
       IN  Onto(s, "appdata",
                CASE r = "ticket" -> "handshake" [] r = "line" -> "appdata" [] OTHER -> "alert",
                <<x>>, r)
  BY DEF ServerReplies
<1> DEFINE place == CASE r = "ticket" -> "body" [] r = "line" -> "data" [] OTHER -> "alert"
           inner == CASE r = "ticket" -> "handshake" [] r = "line" -> "appdata" [] OTHER -> "alert"
           x == [m |-> r, ok |-> "good", at |-> place,
                 n |-> IF r = "line" THEN Len(srv.said) + 1 ELSE 0]
           said == IF r = "line" THEN Append(srv.said, <<x.m, x.n>>) ELSE srv.said
           s == [srv EXCEPT !.replies = @ + 1, !.seq = @ + 1,
                            !.at = IF r \in {"close", "fatal"} THEN "closed" ELSE @,
                            !.honest = @ /\ r # "fatal",
                            !.said = IF r = "line" THEN Append(@, <<x.m, x.n>>) ELSE @]
<1>1. ServerStep /\ srv.at = "up"
  BY DEF ServerReplies
<1>2. EngineTypes' /\ Keys' /\ ConnTypes' /\ UNCHANGED <<sent, out, wr, rd_on, rec>>
  BY <1>1, ServerStepKeeps
<1>3. ServerTypes
  BY DEF CInv
<1>4. r \in {"line", "ticket", "close", "fatal"}
  BY ConnAssumption DEF ConnAssumption
<1>5. place \in {"body", "data", "alert"} /\ inner \in {"handshake", "appdata", "alert"}
  BY <1>4
<1> HIDE DEF place, inner
<1>6. Len(srv.said) \in Nat /\ srv.said \in Seq(Said)
  BY <1>3 DEF ServerTypes
<1>7. x \in Items
  BY <1>4, <1>5, <1>6 DEF Items, Oks
<1>8. said \in Seq(Said)
  <2>1. CASE r = "line"
    <3>1. <<x.m, x.n>> \in Said
      BY <1>6, <2>1 DEF Said, Messages
    <3> QED BY <1>6, <2>1, <3>1
  <2>2. CASE r # "line"
    BY <1>6, <2>2
  <2> QED BY <2>1, <2>2
<1>9. Onto(s, "appdata", inner, <<x>>, r)
  BY DEF inner, place
<1>10. <<x>> \in Seq(Items)
  BY <1>7
<1> HIDE DEF x
<1>11. /\ DOMAIN s = SrvFields /\ s.at \in {"up", "closed"} /\ s.key = srv.key
       /\ s.seq = srv.seq + 1 /\ s.todo = srv.todo
       /\ s.rd = srv.rd /\ s.heard = srv.heard /\ s.said = said
  BY <1>1, <1>3 DEF ServerTypes, SrvFields
<1> HIDE DEF s, said
<1>12. /\ \E q \in Records : wire' = Append(wire, q)
       /\ DOMAIN srv' = SrvFields
       /\ srv'.at = s.at /\ srv'.key = s.key /\ srv'.seq = s.seq /\ srv'.todo = s.todo
       /\ srv'.rd = s.rd /\ srv'.heard = s.heard /\ srv'.said = s.said
  <2>1. /\ "appdata" \in {"handshake", "appdata", "alert", "ccs"}
        /\ inner \in {"none", "handshake", "appdata", "alert"}
        /\ r \in {"none", "line", "ticket", "close", "fatal"}
    BY <1>4, <1>5
  <2> DEFINE items == <<x>>
  <2>2. items \in Seq(Items) /\ Onto(s, "appdata", inner, items, r) /\ DOMAIN s = SrvFields
    BY <1>9, <1>10, <1>11
  <2> HIDE DEF items
  <2>3. Left(s, "appdata", inner, items, r)
    BY <1>3, <2>1, <2>2, OntoLeft
  <2> QED BY <2>3 DEF Left
<1>13. wire' \in Seq(Records)
  BY <1>3, <1>12 DEF ServerTypes
<1>14. ServerTypes'
  <2>1. srv'.seq \in Nat
    BY <1>3, <1>11, <1>12 DEF ServerTypes
  <2> QED BY <1>2, <1>3, <1>8, <1>11, <1>12, <1>13, <2>1 DEF ServerTypes
<1>15. Sending'
  <2>1. srv.key # "plain"
    BY <1>1 DEF CInv, Sending, Greeting
  <2>2. /\ srv'.rd = srv.rd /\ srv'.heard = srv.heard /\ srv'.key # "plain"
        /\ srv'.at \notin {"broken", "listening", "hello"}
    BY <1>11, <1>12, <2>1
  <2> QED BY <1>2, <2>1, <2>2, TrailKept
<1> QED BY <1>2, <1>14, <1>15 DEF CInv

\* A refusal.
LEMMA RefuseStep ==
  ASSUME CInv, ServerRefuses
  PROVE  CInv'
<1> DEFINE outer == IF srv.key = "plain" THEN "alert" ELSE "appdata"
           items == <<Part("fatal", "alert", "good")>>
           s == [srv EXCEPT !.at = "closed", !.honest = FALSE]
<1>1. /\ ServerStep /\ srv.at \in {"hello", "flight", "done"}
      /\ Onto(s, outer, "alert", items, "fatal")
  BY DEF ServerRefuses
<1>2. EngineTypes' /\ Keys' /\ ConnTypes' /\ UNCHANGED <<sent, out, wr, rd_on, rec>>
  BY <1>1, ServerStepKeeps
<1>3. ServerTypes
  BY DEF CInv
<1>4. Part("fatal", "alert", "good") \in Items
  BY PartItem DEF Oks
<1>5. items \in Seq(Items)
  BY <1>4
<1>6. outer \in {"alert", "appdata"}
  OBVIOUS
<1>7. /\ DOMAIN s = SrvFields /\ s.at = "closed" /\ s.key = srv.key /\ s.seq = srv.seq
      /\ s.todo = srv.todo /\ s.rd = srv.rd /\ s.heard = srv.heard /\ s.said = srv.said
  BY <1>3 DEF ServerTypes, SrvFields
<1> HIDE DEF s, items, outer
<1>8. /\ \E r \in Records : wire' = Append(wire, r) /\ r.outer = outer
      /\ DOMAIN srv' = SrvFields
      /\ srv'.at = s.at /\ srv'.key = s.key /\ srv'.seq = s.seq /\ srv'.todo = s.todo
      /\ srv'.rd = s.rd /\ srv'.heard = s.heard /\ srv'.said = s.said
  <2>1. Left(s, outer, "alert", items, "fatal")
    BY <1>1, <1>3, <1>5, <1>6, <1>7, OntoLeft
  <2> QED BY <2>1 DEF Left
<1> PICK r \in Records : wire' = Append(wire, r) /\ r.outer = outer
  BY <1>8
<1>9. wire \in Seq(Records) /\ wire' \in Seq(Records)
  BY <1>3 DEF ServerTypes
<1>10. ServerTypes'
  BY <1>2, <1>3, <1>7, <1>8, <1>9 DEF ServerTypes
<1>11. CASE srv.key = "plain"
  <2>1. Greeting /\ srv.at = "hello"
    BY <1>1, <1>11 DEF CInv, Sending, Greeting
  <2>2. sent = <<Hello>> /\ out = <<>> /\ srv.heard = 1
    BY <2>1 DEF Greeting
  <2>3. \A i \in 1..Len(wire') : wire'[i].outer # "handshake"
    <3>1. \A i \in 1..Len(wire) : wire[i].outer # "handshake"
      BY <2>1 DEF Greeting
    <3>2. \A i \in 1..Len(wire') : wire'[i] = IF i \in 1..Len(wire) THEN wire[i] ELSE r
      BY <1>9
    <3>3. r.outer # "handshake"
      BY <1>6
    <3> QED BY <3>1, <3>2, <3>3
  <2>4. Greeting'
    BY <1>2, <1>7, <1>8, <2>1, <2>2, <2>3 DEF Greeting, Hello, Plain
  <2> QED BY <1>2, <1>7, <1>8, <1>10, <1>11, <2>4 DEF CInv, Sending
<1>12. CASE srv.key # "plain"
  <2>1. Sending'
    BY <1>2, <1>7, <1>8, <1>12, TrailKept
  <2> QED BY <1>2, <1>10, <2>1 DEF CInv
<1> QED BY <1>11, <1>12

-----------------------------------------------------------------------------
(* The theorems *)

\* Where a program starts.
LEMMA CInvInit == Init => CInv
<1> SUFFICES ASSUME Init PROVE CInv
  OBVIOUS
<1> DEFINE none == <<>>
<1>1. /\ state = "IDLE" /\ error = "NONE" /\ rd_on = FALSE /\ rd = Plain /\ wr = Plain
      /\ rec = NoRec /\ rec_connected = FALSE /\ rd_switch = FALSE /\ msg_type = "none"
      /\ cv_seen = FALSE /\ leaf = FALSE /\ cert_requested = FALSE
      /\ out = none /\ delivered = none /\ kept = 0
  BY DEF Init, EngineInit
<1>2. /\ conn = "shut" /\ conn_retry = FALSE /\ conn_cancelled = FALSE
      /\ conn_chain = "unreached" /\ alive = FALSE /\ window = TRUE
      /\ wire = none /\ sent = none
      /\ srv = [at |-> "closed", key |-> "plain", seq |-> 0, todo |-> none,
                rd |-> Plain, heard |-> 0, honest |-> TRUE, proves |-> FALSE,
                said |-> none, replies |-> 0, faults |-> 0]
  BY DEF Init
<1>3. /\ none \in Seq(OutRecords) /\ none \in Seq(Said) /\ none \in Seq(Records)
      /\ none \in Seq(FlightParts) /\ Len(none) = 0
  OBVIOUS
<1>4. Plain \in ReadPlace /\ Plain \in WritePlace /\ Plain.key = "plain" /\ Plain.seq = 0
  BY DEF Plain, ReadPlace, WritePlace
<1> HIDE DEF none
<1>5. EngineTypes
  <2>1. OutMax \in Nat
    BY OutAssumption DEF OutAssumption
  <2>2. Len(out) <= OutMax /\ kept \in 0..Len(delivered)
    BY <1>1, <1>3, <2>1
  <2> QED BY <1>1, <1>3, <1>4, <2>2 DEF EngineTypes, Messages
<1>6. /\ DOMAIN srv = SrvFields /\ srv.key = "plain" /\ srv.seq = 0 /\ srv.todo = none
      /\ srv.rd = Plain /\ srv.heard = 0 /\ srv.said = none /\ srv.at = "closed"
  BY <1>2 DEF SrvFields
<1>7. ServerTypes
  BY <1>2, <1>3, <1>4, <1>6 DEF ServerTypes
<1>8. ConnTypes
  BY <1>2 DEF ConnTypes, Phases
<1>9. Keys
  BY <1>1, <1>4 DEF Keys
<1>10. Sending
  <2>1. \A i \in 1..Len(wire) : wire[i].outer # "handshake"
    BY <1>2, <1>3
  <2>2. Greeting
    BY <1>1, <1>2, <1>6, <2>1, NoRecord DEF Greeting, none
  <2> QED BY <1>6, <2>2 DEF Sending
<1> QED BY <1>5, <1>7, <1>8, <1>9, <1>10 DEF CInv

\* Every step keeps the invariant.
LEMMA CInvStep == CInv /\ [Next]_vars => CInv'
<1> SUFFICES ASSUME CInv, [Next]_vars PROVE CInv'
  OBVIOUS
<1>1. CASE Client
  BY <1>1, ReadStartStep, ReadContentStep, ReadEndStep, OutsideStep, PushStep, VerifyStep DEF Client
<1>2. CASE Choice
  BY <1>2, OpenStep, OutsideStep, SendStep DEF Choice
<1>3. CASE Server
  BY <1>3, HelloStep, FlightStep, CCSStep, HearStep, ReplyStep, RefuseStep DEF Server
<1>4. CASE Socket
  BY <1>4, OutsideStep DEF Socket
<1>5. CASE UNCHANGED vars
  BY <1>5, OutsideStep
<1> QED BY <1>1, <1>2, <1>3, <1>4, <1>5 DEF Next

\* It always holds.
LEMMA CInvAlways == Spec => []CInv
BY CInvInit, CInvStep, PTL DEF Spec

\* The types, the buffers' bounds among them: the out buffer never holds more
\* than OutMax records, no more is left with the caller than was handed to it,
\* and seal never finds the buffer full (tls.c's TLS_E_BUFFER).
THEOREM ConnTypesHold == Spec => []TypeOK
<1>1. CInv => TypeOK
  BY DEF CInv, EngineTypes, ConnTypes, TypeOK, ReadPlace, WritePlace
<1> QED BY <1>1, CInvAlways, PTL

\* The server opens every record of the client's: its Finished under the
\* handshake key, then lines and close_notify under the application key,
\* numbered from zero without a gap, over any number of connections, lines,
\* replies and damaged records.
THEOREM ClientRecordsOpen == Spec => []ServerOpensAll
<1>1. CInv => ServerOpensAll
  BY DEF CInv, Sending, ServerOpensAll
<1> QED BY <1>1, CInvAlways, PTL

-----------------------------------------------------------------------------
(* Flights *)

FinHead(x) == x.m = "FIN" /\ x.at = "header"
FinBody(x) == x.m = "FIN" /\ x.at = "body"
FinIn(items) == \E i \in 1..Len(items) : FinBody(items[i])

\* A flight, or what is left of it: its last message is its Finished, and no
\* other is; of which the body alone may be left.
Ended(t) ==
  /\ Len(t) >= 2
  /\ \A i \in 1..Len(t) : /\ FinBody(t[i]) <=> i = Len(t)
                          /\ FinHead(t[i]) <=> i = Len(t) - 1
Half(t) == Len(t) = 1 /\ FinBody(t[1])
LastFin(t) == Len(t) >= 1 /\ \A i \in 1..Len(t) : FinBody(t[i]) <=> i = Len(t)

\* u is what is left of t after k items.
Rest(t, k, u) ==
  /\ k <= Len(t)
  /\ Len(u) = Len(t) - k
  /\ \A i \in 1..Len(u) : u[i] = t[k + i]

\* The first item of what is left read: the rest is the rest.
LEMMA RestTail ==
  ASSUME NEW S, NEW t \in Seq(S), NEW u \in Seq(S), NEW k \in Nat, k >= 1, Rest(t, k, u)
  PROVE  Rest(Tail(t), k - 1, u)
<1> DEFINE p == Tail(t)
<1>1. Len(t) \in Nat /\ Len(t) >= 1 /\ Len(u) \in Nat
  BY DEF Rest
<1>2. p \in Seq(S) /\ Len(p) = Len(t) - 1 /\ \A i \in 1..(Len(t) - 1) : p[i] = t[i + 1]
  BY <1>1
<1> HIDE DEF p
<1>3. k - 1 <= Len(p) /\ Len(u) = Len(p) - (k - 1)
  BY <1>1, <1>2 DEF Rest
<1>4. ASSUME NEW i \in 1..Len(u) PROVE u[i] = p[(k - 1) + i]
  <2>1. (k - 1) + i \in 1..(Len(t) - 1) /\ ((k - 1) + i) + 1 = k + i
    BY <1>1 DEF Rest
  <2>2. p[(k - 1) + i] = t[k + i]
    BY <1>2, <2>1
  <2> QED BY <2>2 DEF Rest
<1> QED BY <1>3, <1>4 DEF Rest, p

\* Nothing read: the rest is all.
LEMMA RestAll ==
  ASSUME NEW S, NEW t \in Seq(S), NEW u \in Seq(S), Rest(t, 0, u)
  PROVE  u = t
<1>1. Len(t) \in Nat /\ Len(u) = Len(t)
  BY DEF Rest
<1>2. \A i \in 1..Len(u) : u[i] = t[i]
  BY <1>1 DEF Rest
<1> QED BY <1>1, <1>2, SeqEqual

\* A queue's rest, as SubSeq makes it.
LEMMA RestCut ==
  ASSUME NEW S, NEW t \in Seq(S), NEW k \in 1..Len(t)
  PROVE  /\ SubSeq(t, k + 1, Len(t)) \in Seq(S) /\ Rest(t, k, SubSeq(t, k + 1, Len(t)))
         /\ SubSeq(t, 1, k) \in Seq(S) /\ Len(SubSeq(t, 1, k)) = k
         /\ \A i \in 1..k : SubSeq(t, 1, k)[i] = t[i]
<1> DEFINE n == Len(t)
           l == SubSeq(t, k + 1, n)
           f == SubSeq(t, 1, k)
<1>1. n \in Nat /\ k \in 1..n
  OBVIOUS
<1>2. f \in Seq(S) /\ Len(f) = k /\ \A i \in 1..k : f[i] = t[i]
  BY <1>1
<1>3. \A i \in (k + 1)..n : t[i] \in S
  BY <1>1
<1>4. /\ l \in Seq(S)
      /\ Len(l) = IF k + 1 <= n THEN n - (k + 1) + 1 ELSE 0
      /\ \A i \in 1..(n - (k + 1) + 1) : l[i] = t[k + 1 + i - 1]
  BY <1>1, <1>3, SubSeqProperties
<1> HIDE DEF l, f
<1>5. Len(l) = n - k /\ \A i \in 1..Len(l) : l[i] = t[k + i]
  BY <1>1, <1>4
<1>6. Rest(t, k, l)
  BY <1>1, <1>5 DEF Rest, n
<1> QED BY <1>2, <1>4, <1>6 DEF l, f, n

\* The rest of what ends with Finished does.
LEMMA RestLast ==
  ASSUME NEW S, NEW t \in Seq(S), NEW u \in Seq(S), NEW k \in Nat, Rest(t, k, u), LastFin(t),
         Len(u) >= 1
  PROVE  LastFin(u)
<1>1. Len(t) \in Nat /\ Len(u) \in Nat /\ k + Len(u) = Len(t)
  BY DEF Rest
<1>2. ASSUME NEW i \in 1..Len(u) PROVE FinBody(u[i]) <=> i = Len(u)
  <2>1. u[i] = t[k + i] /\ k + i \in 1..Len(t)
    BY <1>1 DEF Rest
  <2>2. FinBody(t[k + i]) <=> k + i = Len(t)
    BY <2>1 DEF LastFin
  <2> QED BY <1>1, <2>1, <2>2
<1> QED BY <1>2 DEF LastFin

\* A flight read on by an item that is not of Finished, or by its header.
LEMMA EndedTail ==
  ASSUME NEW S, NEW t \in Seq(S), Ended(t)
  PROVE  /\ t # <<>> /\ Head(t) = t[1] /\ ~FinBody(t[1])
         /\ FinHead(t[1]) => Half(Tail(t))
         /\ ~FinHead(t[1]) => Ended(Tail(t))
<1> DEFINE p == Tail(t)
<1>1. Len(t) \in Nat /\ Len(t) >= 2
  BY DEF Ended
<1>2. t # <<>> /\ Head(t) = t[1] /\ p \in Seq(S) /\ Len(p) = Len(t) - 1
      /\ \A i \in 1..(Len(t) - 1) : p[i] = t[i + 1]
  BY <1>1
<1> HIDE DEF p
<1>3. /\ FinBody(t[1]) <=> 1 = Len(t)
      /\ FinHead(t[1]) <=> 1 = Len(t) - 1
  <2>1. 1 \in 1..Len(t)
    BY <1>1
  <2> HIDE DEF FinBody, FinHead
  <2> QED BY <2>1 DEF Ended
<1>4. ASSUME NEW i \in 1..Len(p)
      PROVE  /\ FinBody(p[i]) <=> i = Len(p)
             /\ FinHead(p[i]) <=> i = Len(p) - 1
  <2>1. i + 1 \in 1..Len(t) /\ p[i] = t[i + 1]
    BY <1>1, <1>2
  <2>2. /\ FinBody(t[i + 1]) <=> i + 1 = Len(t)
        /\ FinHead(t[i + 1]) <=> i + 1 = Len(t) - 1
    BY <2>1 DEF Ended
  <2> HIDE DEF FinBody, FinHead
  <2> QED BY <1>1, <1>2, <2>1, <2>2
<1>5. FinHead(t[1]) => Half(p)
  <2> HAVE FinHead(t[1])
  <2>1. Len(p) = 1
    BY <1>1, <1>2, <1>3
  <2> QED BY <1>4, <2>1 DEF Half
<1>6. ~FinHead(t[1]) => Ended(p)
  <2> HAVE ~FinHead(t[1])
  <2>1. Len(p) >= 2
    BY <1>1, <1>2, <1>3
  <2> QED BY <1>4, <2>1 DEF Ended
<1> QED BY <1>1, <1>2, <1>3, <1>5, <1>6 DEF p

-----------------------------------------------------------------------------
(* What a flight proves *)

Fine(x) == x.ok \in {"good", "odd"}
Signature(t) == \E i \in 1..Len(t) : t[i].m = "CV"

\* A message is its header and then its body.
Paired(t) ==
  \A i \in 1..Len(t) :
    /\ t[i].at = "header" => i < Len(t) /\ t[i + 1].at = "body" /\ t[i + 1].m = t[i].m
    /\ i > 1 => (t[i].at = "body" => t[i - 1].at = "header")

\* What can be wrong with one: a signature, the Finished, or the form of a message
\* that is looked into; and a wrong one is not signed over.
Faulty(x) ==
  /\ x.at = "body"
  /\ x.m \in {"CV", "FIN"} \/ (x.ok = "malformed" /\ x.m # "EE")
Outright(t) ==
  \A i \in 1..Len(t) : ~Fine(t[i]) =>
    Faulty(t[i]) /\ \A j \in 1..Len(t) : j > i => t[j].m # "CV"

\* What is left of a flight, a message of type m begun or none.
Proper(t, m) ==
  /\ Paired(t) /\ Outright(t)
  /\ IF m = "none" THEN t # <<>> => t[1].at = "header"
                   ELSE t # <<>> /\ t[1].at = "body" /\ t[1].m = m
Candid == \A f \in Flights : Proper(f, "none")

\* The signature in the message buffer will do; or what is left, with what came,
\* may come to be a proof.
Signed(cv, b) == cv /\ b.type = "CV" /\ b.ok # "wrong"
Proving(t, m, cv, b) ==
  /\ \A i \in 1..Len(t) : Fine(t[i])
  /\ m = "CV" \/ Signed(cv, b) \/ Signature(t)

\* What is left of a flight, after its first item.
LEMMA ProperTail ==
  ASSUME NEW t \in Seq(FlightParts), t # <<>>, NEW m, Proper(t, m)
  PROVE  /\ t[1].at = "header" => Fine(t[1]) /\ Proper(Tail(t), t[1].m)
         /\ t[1].at = "body" => t[1].m = m /\ Proper(Tail(t), "none")
         /\ ~Fine(t[1]) => Faulty(t[1]) /\ ~Signature(Tail(t))
<1> DEFINE p == Tail(t)
<1>1. /\ Len(t) \in Nat /\ Len(t) >= 1 /\ p \in Seq(FlightParts) /\ Len(p) = Len(t) - 1
      /\ \A i \in 1..(Len(t) - 1) : p[i] = t[i + 1]
  OBVIOUS
<1>2. t[1] \in FlightParts /\ 1 \in 1..Len(t)
  BY <1>1
<1>3. t[1].at \in {"header", "body"} /\ t[1].m # "none"
  BY <1>2 DEF FlightParts
<1> HIDE DEF p
<1>4. Paired(p)
  <2> SUFFICES ASSUME NEW i \in 1..Len(p)
               PROVE  /\ p[i].at = "header" => /\ i < Len(p) /\ p[i + 1].at = "body"
                                               /\ p[i + 1].m = p[i].m
                      /\ i > 1 => (p[i].at = "body" => p[i - 1].at = "header")
    BY DEF Paired
  <2>1. i + 1 \in 1..Len(t) /\ p[i] = t[i + 1]
    BY <1>1
  <2>2. /\ t[i + 1].at = "header" => /\ i + 1 < Len(t) /\ t[(i + 1) + 1].at = "body"
                                     /\ t[(i + 1) + 1].m = t[i + 1].m
        /\ i + 1 > 1 => (t[i + 1].at = "body" => t[(i + 1) - 1].at = "header")
    BY <2>1 DEF Proper, Paired
  <2>3. i < Len(p) => p[i + 1] = t[(i + 1) + 1]
    BY <1>1
  <2>4. i > 1 => p[i - 1] = t[(i + 1) - 1]
    BY <1>1
  <2> QED BY <1>1, <2>1, <2>2, <2>3, <2>4
<1>5. Outright(p)
  <2> SUFFICES ASSUME NEW i \in 1..Len(p), ~Fine(p[i])
               PROVE  Faulty(p[i]) /\ \A j \in 1..Len(p) : j > i => p[j].m # "CV"
    BY DEF Outright
  <2>1. i + 1 \in 1..Len(t) /\ p[i] = t[i + 1]
    BY <1>1
  <2>2. Faulty(t[i + 1]) /\ \A j \in 1..Len(t) : j > i + 1 => t[j].m # "CV"
    BY <2>1 DEF Proper, Outright
  <2>3. ASSUME NEW j \in 1..Len(p), j > i PROVE p[j].m # "CV"
    <3>1. j + 1 \in 1..Len(t) /\ j + 1 > i + 1 /\ p[j] = t[j + 1]
      BY <1>1, <2>3
    <3> QED BY <2>2, <3>1
  <2> QED BY <2>1, <2>2, <2>3
<1>6. ~Fine(t[1]) => Faulty(t[1]) /\ ~Signature(p)
  <2> HAVE ~Fine(t[1])
  <2>1. Faulty(t[1]) /\ \A j \in 1..Len(t) : j > 1 => t[j].m # "CV"
    BY <1>2 DEF Proper, Outright
  <2>2. ASSUME NEW i \in 1..Len(p) PROVE p[i].m # "CV"
    <3>1. i + 1 \in 1..Len(t) /\ i + 1 > 1 /\ p[i] = t[i + 1]
      BY <1>1
    <3> QED BY <2>1, <3>1
  <2> QED BY <2>1, <2>2 DEF Signature
<1>7. t[1].at = "header" => Fine(t[1]) /\ Proper(p, t[1].m)
  <2> HAVE t[1].at = "header"
  <2>1. 1 < Len(t) /\ t[1 + 1].at = "body" /\ t[1 + 1].m = t[1].m
    BY <1>2 DEF Proper, Paired
  <2>2. p # <<>> /\ p[1] = t[1 + 1]
    BY <1>1, <2>1
  <2>3. Fine(t[1])
    BY <1>6 DEF Faulty
  <2> QED BY <1>3, <1>4, <1>5, <2>1, <2>2, <2>3 DEF Proper
<1>8. t[1].at = "body" => t[1].m = m /\ Proper(p, "none")
  <2> HAVE t[1].at = "body"
  <2>1. t[1].m = m
    BY DEF Proper
  <2>2. ASSUME p # <<>> PROVE p[1].at = "header"
    <3>1. 1 \in 1..Len(p) /\ 2 \in 1..Len(t) /\ p[1] = t[2]
      <4>1. Len(p) # 0
        BY <1>1, <2>2, EmptySeq
      <4> QED BY <1>1, <4>1
    <3>2. t[2].at = "body" => t[2 - 1].at = "header"
      BY <3>1 DEF Proper, Paired
    <3>3. t[2].at \in {"header", "body"}
      <4>1. t[2] \in FlightParts
        BY <3>1
      <4> QED BY <4>1 DEF FlightParts
    <3> QED BY <3>1, <3>2, <3>3
  <2> QED BY <1>4, <1>5, <2>1, <2>2 DEF Proper
<1> QED BY <1>6, <1>7, <1>8 DEF p

\* An item that is fine takes no proof away.
LEMMA ProvingTail ==
  ASSUME NEW t \in Seq(FlightParts), t # <<>>, Fine(t[1]),
         NEW m, NEW cv, NEW b, NEW m1, NEW cv1, NEW b1,
         Proving(Tail(t), m1, cv1, b1),
         m1 = "CV" \/ Signed(cv1, b1) => m = "CV" \/ Signed(cv, b) \/ t[1].m = "CV"
  PROVE  Proving(t, m, cv, b)
<1> DEFINE p == Tail(t)
<1>1. /\ Len(t) \in Nat /\ Len(t) >= 1 /\ p \in Seq(FlightParts) /\ Len(p) = Len(t) - 1
      /\ \A i \in 1..(Len(t) - 1) : p[i] = t[i + 1]
  OBVIOUS
<1> HIDE DEF p
<1>2. Proving(p, m1, cv1, b1)
  BY DEF p
<1>3. ASSUME NEW i \in 1..Len(t) PROVE Fine(t[i])
  <2>1. CASE i = 1
    BY <2>1
  <2>2. CASE i # 1
    <3>1. i - 1 \in 1..Len(p) /\ p[i - 1] = t[(i - 1) + 1] /\ (i - 1) + 1 = i
      BY <1>1, <2>2
    <3>2. Fine(p[i - 1])
      BY <1>2, <3>1 DEF Proving
    <3> QED BY <3>1, <3>2
  <2> QED BY <2>1, <2>2
<1>4. Signature(p) => Signature(t)
  <2> SUFFICES ASSUME NEW i \in 1..Len(p), p[i].m = "CV" PROVE Signature(t)
    BY DEF Signature
  <2>1. i + 1 \in 1..Len(t) /\ t[i + 1].m = "CV"
    BY <1>1
  <2> QED BY <2>1 DEF Signature
<1>5. t[1].m = "CV" => Signature(t)
  <2>1. 1 \in 1..Len(t)
    BY <1>1
  <2> QED BY <2>1 DEF Signature
<1> QED BY <1>2, <1>3, <1>4, <1>5 DEF Proving

-----------------------------------------------------------------------------
(* What the client reads *)

\* Where a reader of the server's records is: the key, the next number, and the
\* part of the flight to come.
Place == [key : {"plain", "s_hs", "s_ap"}, seq : Nat, todo : Seq(FlightParts)]

\* A record, or what is left of it, takes the reader from a to c: the
\* ServerHello; what is in the clear and no part of this; a part of the flight;
\* a refusal; what comes after the handshake.  v: the server proved itself, and
\* so it has if its hello and the flight after it are a proof.
HelloRead(a, r, c, v) ==
  /\ r.outer = "handshake"
  /\ \/ /\ a.key = "plain" /\ c.key = "s_hs" /\ c.seq = 0 /\ Ended(c.todo)
        /\ \/ Len(r.items) = 2 /\ r.items[1].at = "header" /\ r.items[2].at = "body"
           \/ Len(r.items) = 1 /\ r.items[1].at = "body"
        /\ ~FinIn(r.items)
        /\ Candid => Proper(c.todo, "none")
        /\ Proves(c.todo) /\ r.items[Len(r.items)].ok = "good" => v
     \/ a.key = "s_hs" /\ r.items = <<>> /\ c = a
ClearRead(a, r, c) == r.outer \in {"ccs", "alert"} /\ c = a
FlightRead(a, r, c) ==
  /\ r.outer = "appdata" /\ r.inner = "handshake"
  /\ a.key = "s_hs" /\ r.key = "s_hs" /\ r.seq = a.seq
  /\ Rest(a.todo, Len(r.items), c.todo)
  /\ \A i \in 1..Len(r.items) : r.items[i] = a.todo[i]
  /\ IF c.todo = <<>> THEN c.key = "s_ap" /\ c.seq = 0
                      ELSE c.key = "s_hs" /\ c.seq = a.seq + 1
RefusalRead(a, r, c) ==
  /\ r.outer = "appdata" /\ r.inner = "alert"
  /\ a.key # "plain" /\ r.key = a.key /\ r.seq = a.seq
  /\ \A i \in 1..Len(r.items) : r.items[i].at = "alert"
  /\ c = a
ReplyRead(a, r, c) ==
  /\ r.outer = "appdata"
  /\ a.key = "s_ap" /\ r.key = "s_ap" /\ r.seq = a.seq
  /\ c.key = "s_ap" /\ c.seq = a.seq + 1 /\ c.todo = a.todo

RecStep(v) ==
  {s \in Place \X Records \X Place :
     \/ HelloRead(s[1], s[2], s[3], v) \/ ClearRead(s[1], s[2], s[3])
     \/ FlightRead(s[1], s[2], s[3]) \/ RefusalRead(s[1], s[2], s[3])
     \/ ReplyRead(s[1], s[2], s[3])}

\* What is left of the flight, as the client's state has it: a Finished begun is
\* its last half, and when it is taken there is nothing left, but the end of
\* the record it was in.
Tied(t, r, p, switch, m, st) ==
  /\ p.key # "s_hs" => t = <<>>
  /\ p.key = "s_hs" /\ switch => t = <<>> /\ r # NoRec /\ r.outer = "appdata" /\ r.inner = "handshake"
  /\ p.key = "s_hs" /\ ~switch => IF m = "FIN" THEN Half(t) ELSE Ended(t)
  /\ st = "WAIT_SH" => m \in {"none", "SH"}

\* And, with what came of it, it is a proof only if the server proved itself.
Heard(t, p, m, st, cv, b, v) ==
  /\ st = "WAIT_SH" => ~cv
  /\ p.key # "plain" /\ Candid => Proper(t, m) /\ (Proving(t, m, cv, b) => v)

\* What is left of the record being read, and then what is on the wire, takes
\* the client to where the server is.
At(p, t) == [key |-> p.key, seq |-> p.seq, todo |-> t]
Begins(r, p, t, c, v) == IF r = NoRec THEN c = At(p, t) ELSE <<At(p, t), r, c>> \in RecStep(v)
Arrives(q, r, p, switch, m, st, there, cv, b, v) ==
  \E t \in Seq(FlightParts), c \in Place :
    /\ Begins(r, p, t, c, v)
    /\ Way(q, 0, RecStep(v), Place, c, there)
    /\ Tied(t, r, p, switch, m, st)
    /\ Heard(t, p, m, st, cv, b, v)
There == [key |-> srv.key, seq |-> srv.seq, todo |-> srv.todo]
Arrived == Arrives(wire, rec, rd, rd_switch, msg_type, state, There, cv_seen, msg, srv.proves)
ArrivedThen ==
  Arrives(wire', rec', rd', rd_switch', msg_type', state', There', cv_seen', msg', srv'.proves)
Arriving == Reading => Arrived

\* The server's side: what is left of its flight under which key.
Serving ==
  /\ srv.key = "plain" => srv.seq = 0 /\ ~srv.proves
  /\ srv.key # "s_hs" => srv.todo = <<>>
  /\ srv.at = "flight" => srv.key = "s_hs" /\ LastFin(srv.todo)
  /\ srv.at = "up" => srv.key = "s_ap"

\* The client's Finished comes after the server's, and that after its flight.
IsFin(r) == r.kind \in {"finished", "empty+finished"}
Finishing ==
  /\ \A i \in 1..Len(sent) : IsFin(sent[i]) => wr.key = "c_ap"
  /\ \A i \in 1..Len(out) : IsFin(out[i]) => wr.key = "c_ap"
  /\ wr.key = "c_ap" => srv.key = "s_ap"
  /\ \A i \in 1..Len(wire) : FinIn(wire[i].items) => srv.key = "s_ap"
  /\ rec # NoRec => (FinIn(rec.items) => srv.key = "s_ap")

Reads == Serving /\ Finishing /\ Arriving /\ KeysInStep
RInv == CInv /\ Reads
-----------------------------------------------------------------------------
(* What an item does, if the client reads on after it *)

Ignored == UNCHANGED <<state, rd_on, rd, wr, rd_switch, out, msg_type, msg, cv_seen>>
Begun(x) ==
  /\ UNCHANGED <<state, rd_on, rd, wr, rd_switch, out, msg, cv_seen>>
  /\ msg_type' = x.m /\ Expected(x.m)
Buffered(x) ==
  /\ UNCHANGED <<state, rd_on, rd, wr, rd_switch, out>> /\ msg_type' = "none"
  /\ msg_type \in {"EE", "CR", "CERT", "CV"} /\ (msg_type # "EE" => x.ok # "malformed")
  /\ msg_type = "CERT" => msg' = msg
  /\ msg_type # "CERT" => msg'.type = msg_type /\ msg'.ok = x.ok
  /\ cv_seen' => cv_seen \/ msg_type = "CV"
Read(x) ==
  \/ x.at = "header" /\ Begun(x)
  \/ x.at = "alert" /\ Ignored
  \/ /\ x.at = "body"
     /\ \/ Buffered(x)
        \/ HelloTaken /\ cv_seen' = cv_seen /\ x.ok = "good"
        \/ FinishedTaken /\ UNCHANGED <<msg, cv_seen>> /\ x.ok = "good"

\* A part of a handshake message.
LEMMA FeedRead ==
  ASSUME Keys, Reading, NEW x, hs_feed(x), Reading', state = "WAIT_HS" => Room,
         rec.outer = "handshake" \/ Sealed
  PROVE  Read(x)
<1>1. ~Failing /\ state' # "FAILED"
  BY DEF Failing, Reading
<1>2. CASE x.at = "header" /\ msg_begin(x.m)
  <2>1. Expected(x.m) /\ Proceed
    BY <1>1, <1>2 DEF msg_begin, Fail
  <2> QED BY <1>2, <2>1 DEF Read, Begun, msg_begin, keys, Proceed
<1>3. CASE x.at = "body" /\ msg_type # "none" /\ msg_end(x.ok)
  <2>1. msg_type' = "none"
    BY <1>3 DEF msg_end
  <2>2. CASE msg_type = "SH" /\ server_hello(x.ok)
    <3>1. state = "WAIT_SH" /\ rec.outer = "handshake"
      BY <2>2 DEF Keys, Sealed
    <3>2. x.ok = "good"
      BY <1>1, <2>2 DEF server_hello, Fail
    <3>3. HelloTaken
      BY <2>1, <2>2, <3>1, <3>2 DEF server_hello, HelloTaken
    <3>4. cv_seen' = cv_seen
      BY <2>2 DEF server_hello
    <3> QED BY <1>3, <3>2, <3>3, <3>4 DEF Read
  <2>3. CASE msg_type = "FIN" /\ server_finished(x.ok)
    <3>1. state = "WAIT_HS" /\ Room
      BY <2>3 DEF Keys
    <3>2. x.ok = "good"
      BY <1>1, <2>3 DEF server_finished, Fail
    <3>3. FinishedTaken
      BY <2>1, <2>3, <3>1, <3>2 DEF server_finished, FinishedTaken
    <3>4. UNCHANGED <<msg, cv_seen>>
      BY <1>3, <2>3 DEF msg_end, server_finished
    <3> QED BY <1>3, <3>2, <3>3, <3>4 DEF Read
  <2>4. CASE /\ msg_type \in {"EE", "CR", "CERT", "CV"}
             /\ IF msg_type = "EE" \/ x.ok # "malformed" THEN Proceed
                ELSE Fail(IF msg_type = "CERT" THEN "CERT" ELSE "MESSAGE")
             /\ cv_seen' = (cv_seen \/ (msg_type = "CV" /\ x.ok # "malformed"))
             /\ UNCHANGED <<keys, out, rd_switch>>
    <3>1. Proceed /\ (msg_type # "EE" => x.ok # "malformed")
      BY <1>1, <2>4 DEF Fail
    <3>2. msg' = IF msg_type \in {"SH", "EE", "CR", "CV"} THEN [type |-> msg_type, ok |-> x.ok] ELSE msg
      BY <1>3 DEF msg_end
    <3>3. /\ msg_type = "CERT" => msg' = msg
          /\ msg_type # "CERT" => msg'.type = msg_type /\ msg'.ok = x.ok
      BY <2>4, <3>2
    <3>4. cv_seen' => cv_seen \/ msg_type = "CV"
      BY <2>4
    <3> QED BY <1>3, <2>1, <2>4, <3>1, <3>3, <3>4 DEF Read, Buffered, keys, Proceed
  <2> QED BY <1>3, <2>2, <2>3, <2>4 DEF msg_end
<1>4. CASE Fail("MESSAGE")
  BY <1>1, <1>4 DEF Fail
<1>5. CASE x.at = "alert" /\ Proceed /\ UNCHANGED <<message, keys, rd_switch, out>>
  BY <1>5 DEF Read, Ignored, message, keys, Proceed
<1> QED BY <1>2, <1>3, <1>4, <1>5 DEF hs_feed

\* An item of a record.
LEMMA ContentRead ==
  ASSUME EngineTypes, Keys, Content, Reading', state = "WAIT_HS" => Room
  PROVE  /\ rec \in Records /\ rec.items # <<>> /\ rec' = [rec EXCEPT !.items = Tail(@)]
         /\ \/ (rec.outer = "handshake" \/ Sealed) /\ Read(Head(rec.items))
            \/ (rec.outer \in {"ccs", "alert"} \/ state = "CONNECTED") /\ Ignored
<1> DEFINE x == Head(rec.items)
<1>1. /\ Reading /\ rec \in Records /\ rec.items # <<>>
      /\ rec' = [rec EXCEPT !.items = Tail(@)]
  BY DEF Content, EngineTypes
<1>2. state' # "FAILED" /\ state' # "CLOSED"
  BY DEF Reading
<1>3. CASE /\ Sealed /\ state = "CONNECTED"
           /\ UNCHANGED <<state, error, keys, rd_switch, message, out, kept>>
  BY <1>1, <1>3 DEF Ignored, keys, message
<1>4. CASE (rec.outer = "handshake" \/ (Sealed /\ state # "CONNECTED")) /\ hs_feed(x)
  <2>1. Read(x)
    BY <1>1, <1>4, FeedRead
  <2> QED BY <1>1, <1>4, <2>1
<1>5. CASE /\ rec.outer = "alert"
           /\ alert_in(rec.desc) \/ Proceed
           /\ UNCHANGED <<keys, rd_switch, message, out, data>>
  <2>1. Proceed
    BY <1>2, <1>5 DEF alert_in, Enter, Fail
  <2> QED BY <1>1, <1>5, <2>1 DEF Ignored, keys, message, Proceed
<1>6. CASE /\ rec.outer = "ccs"
           /\ UNCHANGED <<state, error, keys, rd_switch, message, out, data>>
  BY <1>1, <1>6 DEF Ignored, keys, message
<1>7. CASE ~Sealed /\ rec.outer = "appdata" /\ Fail("RECORD")
  BY <1>2, <1>7 DEF Fail
<1> QED BY <1>3, <1>4, <1>5, <1>6, <1>7 DEF Content

\* A record's end, if the client reads on.
LEMMA EndRead ==
  ASSUME EngineTypes, Keys, record_end, Reading'
  PROVE  /\ Reading /\ rec \in Records /\ rec.items = <<>> /\ rec' = NoRec
         /\ UNCHANGED <<state, msg_type, rd_on, msg, cv_seen>>
         /\ ~Sealed => UNCHANGED <<rd, rd_switch>>
         /\ Sealed => /\ rd_switch' = FALSE /\ rec.inner # "alert"
                      /\ rd' = IF rd_switch THEN [key |-> "s_ap", seq |-> 0]
                                            ELSE [key |-> rd.key, seq |-> rd.seq + 1]
<1>1. state' # "FAILED" /\ state' # "CLOSED"
  BY DEF Reading
<1>2. UNCHANGED state
  BY <1>1, EndEffect DEF Proceed, Failing, Closing
<1>3. Sealed => rec.inner # "alert"
  <2> SUFFICES ASSUME Sealed, rec.inner = "alert" PROVE FALSE
    OBVIOUS
  <2>1. Fail("TAG") \/ alert_in(rec.desc)
    BY DEF record_end
  <2> QED BY <1>1, <2>1 DEF alert_in, Fail, Enter
<1>4. UNCHANGED <<msg, cv_seen>>
  BY DEF record_end, message
<1> QED BY <1>2, <1>3, <1>4, EndEffect

\* What is heard of the flight, one item on.
LEMMA HeardOn ==
  ASSUME NEW t \in Seq(FlightParts), t # <<>>, NEW v, Candid, rd.key # "plain",
         Heard(t, rd, msg_type, state, cv_seen, msg, v),
         \/ t[1].at = "header" /\ Begun(t[1])
         \/ t[1].at = "body" /\ Buffered(t[1])
         \/ /\ t[1].at = "body" /\ t[1].ok = "good" /\ msg_type' = "none"
            /\ UNCHANGED <<msg, cv_seen>>
  PROVE  Proper(Tail(t), msg_type') /\ (Proving(Tail(t), msg_type', cv_seen', msg') => v)
<1> DEFINE x == t[1]
<1>1. Proper(t, msg_type) /\ (Proving(t, msg_type, cv_seen, msg) => v)
  BY DEF Heard
<1>2. /\ x.at = "header" => Fine(x) /\ Proper(Tail(t), x.m)
      /\ x.at = "body" => x.m = msg_type /\ Proper(Tail(t), "none")
      /\ ~Fine(x) => Faulty(x) /\ ~Signature(Tail(t))
  BY <1>1, ProperTail
<1>3. x.ok \in {"good", "odd", "wrong", "malformed"}
  <2>1. x \in FlightParts
    OBVIOUS
  <2> QED BY <2>1 DEF FlightParts
<1> HIDE DEF x
<1>4. Proper(Tail(t), msg_type')
  <2>1. x.at = "header" \/ x.at = "body"
    BY DEF x
  <2>2. x.at = "header" => msg_type' = x.m
    BY DEF Begun, x
  <2>3. x.at = "body" => msg_type' = "none"
    BY DEF Buffered, x
  <2> QED BY <1>2, <2>1, <2>2, <2>3
<1> SUFFICES ASSUME Proving(Tail(t), msg_type', cv_seen', msg') PROVE v
  BY <1>4
<1>5. CASE Fine(x)
  <2>1. msg_type' = "CV" \/ Signed(cv_seen', msg') => msg_type = "CV" \/ Signed(cv_seen, msg) \/ x.m = "CV"
    <3>1. CASE Begun(x)
      BY <3>1 DEF Begun
    <3>2. CASE x.at = "body" /\ Buffered(x)
      BY <1>2, <3>2 DEF Buffered, Signed
    <3>3. CASE msg_type' = "none" /\ UNCHANGED <<msg, cv_seen>>
      BY <3>3
    <3> QED BY <3>1, <3>2, <3>3 DEF x
  <2> QED BY <1>1, <1>5, <2>1, ProvingTail DEF x
<1>6. CASE ~Fine(x)
  <2>1. Faulty(x) /\ ~Signature(Tail(t)) /\ x.at = "body" /\ x.m = msg_type
    BY <1>2, <1>6 DEF Faulty
  <2>2. Buffered(x)
    BY <1>6, <2>1 DEF Fine, x
  <2>3. x.ok \in {"wrong", "malformed"}
    BY <1>3, <1>6 DEF Fine
  <2>4. msg_type = "CV" /\ x.ok = "wrong"
    BY <2>1, <2>2, <2>3 DEF Buffered, Faulty
  <2>5. ~Signed(cv_seen', msg') /\ msg_type' = "none"
    BY <2>2, <2>4 DEF Buffered, Signed
  <2> QED BY <2>1, <2>5 DEF Proving
<1> QED BY <1>5, <1>6

-----------------------------------------------------------------------------
(* The steps of the client's that read *)

\* What arrives in the next state is what arrives there.
LEMMA ArrivesLater ==
  Arrived' <=> ArrivedThen
BY DEF Arrived, ArrivedThen, Arrives, Begins, Way, RecStep, Place, Records, Tied, At, Ended, Half, Rest, LastFin, HelloRead,
       ClearRead, FlightRead, RefusalRead, ReplyRead, FinIn, FinBody, FinHead, Items, Oks, FlightParts,
       NoRec, Heard, Proper, Paired, Outright, Faulty, Fine, Signature, Candid, Proving, Signed, Proves

\* What moves nothing of it.
LEMMA ArrivingSame ==
  ASSUME Arriving, UNCHANGED <<wire, rec, rd, rd_switch, msg_type, msg, cv_seen, srv>>,
         Reading' => Reading, state' = "WAIT_SH" => state = "WAIT_SH"
  PROVE  Arriving'
<1> SUFFICES ASSUME Reading' PROVE Arrived'
  BY DEF Arriving
<1>1. Arrived
  BY DEF Arriving
<1> PICK t \in Seq(FlightParts), c \in Place :
      /\ Begins(rec, rd, t, c, srv.proves)
      /\ Way(wire, 0, RecStep(srv.proves), Place, c, There)
      /\ Tied(t, rec, rd, rd_switch, msg_type, state)
      /\ Heard(t, rd, msg_type, state, cv_seen, msg, srv.proves)
  BY <1>1 DEF Arrived, Arrives
<1>2. There' = There
  BY DEF There
<1>3. /\ Tied(t, rec', rd', rd_switch', msg_type', state')
      /\ Heard(t, rd', msg_type', state', cv_seen', msg', srv'.proves)
  BY DEF Tied, Heard
<1>4. Begins(rec', rd', t, c, srv'.proves) /\ Way(wire', 0, RecStep(srv'.proves), Place, c, There')
  BY <1>2
<1>5. ArrivedThen
  BY <1>3, <1>4 DEF ArrivedThen, Arrives
<1> QED BY <1>5, ArrivesLater
\* Any of the five is a step.
LEMMA IsStep ==
  ASSUME NEW a \in Place, NEW r \in Records, NEW c \in Place, NEW v,
         \/ HelloRead(a, r, c, v) \/ ClearRead(a, r, c)
         \/ FlightRead(a, r, c) \/ RefusalRead(a, r, c) \/ ReplyRead(a, r, c)
  PROVE  <<a, r, c>> \in RecStep(v)
BY DEF RecStep

\* Where the client is is a place.
LEMMA AtPlace ==
  ASSUME NEW p \in ReadPlace, NEW t \in Seq(FlightParts)
  PROVE  /\ At(p, t) \in Place
         /\ At(p, t).key = p.key /\ At(p, t).seq = p.seq /\ At(p, t).todo = t
BY DEF At, Place, ReadPlace

\* And a place is the client's, if it has its key and number and what is left.
LEMMA PlaceAt ==
  ASSUME NEW p, NEW c \in Place, c.key = p.key, c.seq = p.seq
  PROVE  c = At(p, c.todo)
BY DEF At, Place

\* What is sealed is read under the key and number it was sealed under.
LEMMA StepOpens ==
  ASSUME NEW p \in ReadPlace, NEW t \in Seq(FlightParts), NEW r, NEW c, NEW v,
         <<At(p, t), r, c>> \in RecStep(v), r.outer = "appdata"
  PROVE  r.key = p.key /\ r.seq = p.seq
<1>1. At(p, t).key = p.key /\ At(p, t).seq = p.seq
  BY AtPlace
<1> HIDE DEF At
<1> QED BY <1>1 DEF RecStep, HelloRead, ClearRead, FlightRead, RefusalRead, ReplyRead

\* A record begun.
LEMMA ReadStartReads ==
  ASSUME RInv, ReadStart
  PROVE  Reads'
<1>1. /\ Reading /\ rec = NoRec /\ rec' = Head(wire) /\ wire # <<>> /\ wire' = Tail(wire)
      /\ UNCHANGED <<rd_switch, rd_on, rd, wr, msg_type, msg, cv_seen, out, sent, srv>>
  BY DEF ReadStart, record_start, keys, message
<1>2. /\ wire \in Seq(Records) /\ rd \in ReadPlace /\ Keys
  BY DEF RInv, CInv, ServerTypes, EngineTypes
<1>3. Head(wire) \in Records /\ Head(wire) = wire[1] /\ 1 \in 1..Len(wire)
      /\ \A i \in 1..Len(wire') : i + 1 \in 1..Len(wire) /\ wire'[i] = wire[i + 1]
  BY <1>1, <1>2
<1> PICK t \in Seq(FlightParts), c \in Place :
      /\ Begins(rec, rd, t, c, srv.proves)
      /\ Way(wire, 0, RecStep(srv.proves), Place, c, There)
      /\ Tied(t, rec, rd, rd_switch, msg_type, state)
      /\ Heard(t, rd, msg_type, state, cv_seen, msg, srv.proves)
  BY <1>1 DEF RInv, Reads, Arriving, Arrived, Arrives
<1>4. c = At(rd, t)
  BY <1>1 DEF Begins
<1> PICK d \in Place :
      <<c, Head(wire), d>> \in RecStep(srv.proves) /\ Way(Tail(wire), 0, RecStep(srv.proves), Place, d, There)
  BY <1>1, <1>2, WayTail
<1>5. Serving'
  BY <1>1 DEF RInv, Reads, Serving
<1>6. Finishing'
  <2>1. \A i \in 1..Len(wire) : FinIn(wire[i].items) => srv.key = "s_ap"
    BY DEF RInv, Reads, Finishing
  <2>2. \A i \in 1..Len(wire') : FinIn(wire'[i].items) => srv.key = "s_ap"
    BY <1>3, <2>1
  <2>3. FinIn(rec'.items) => srv.key = "s_ap"
    BY <1>1, <1>3, <2>1
  <2>4. /\ \A i \in 1..Len(sent') : IsFin(sent'[i]) => wr'.key = "c_ap"
        /\ \A i \in 1..Len(out') : IsFin(out'[i]) => wr'.key = "c_ap"
        /\ wr'.key = "c_ap" => srv'.key = "s_ap"
    BY <1>1 DEF RInv, Reads, Finishing
  <2> QED BY <1>1, <2>2, <2>3, <2>4 DEF Finishing, FinIn, FinBody, IsFin
<1>7. Arriving'
  <2> SUFFICES ASSUME Reading' PROVE Arrived'
    BY DEF Arriving
  <2>1. state' = state
    BY DEF ReadStart, record_start, Proceed, Fail, Reading
  <2>2. Begins(rec', rd', t, d, srv'.proves)
    BY <1>1, <1>3, <1>4, NoRecord DEF Begins
  <2>3. /\ Tied(t, rec', rd', rd_switch', msg_type', state')
        /\ Heard(t, rd', msg_type', state', cv_seen', msg', srv'.proves)
    BY <1>1, <2>1 DEF Tied, Heard
  <2>4. There' = There
    BY <1>1 DEF There
  <2>5. ArrivedThen
    BY <1>1, <2>2, <2>3, <2>4 DEF ArrivedThen, Arrives
  <2> QED BY <2>5, ArrivesLater
<1>8. KeysInStep'
  <2> SUFFICES ASSUME rec'.outer = "appdata" PROVE rec'.key = rd'.key /\ rec'.seq = rd'.seq
    BY DEF KeysInStep, Sealed
  <2> QED BY <1>1, <1>2, <1>4, StepOpens
<1> QED BY <1>5, <1>6, <1>7, <1>8 DEF Reads

\* A record ended.
LEMMA ReadEndReads ==
  ASSUME RInv, ReadEnd
  PROVE  Reads'
<1>1. record_end /\ UNCHANGED <<wire, sent, srv>>
  BY DEF ReadEnd
<1>2. EngineTypes /\ Keys /\ rd \in ReadPlace
  BY DEF RInv, CInv, EngineTypes
<1>3. /\ Reading /\ rec \in Records /\ rec.items = <<>> /\ rec' = NoRec /\ rec # NoRec
      /\ UNCHANGED <<rd_on, wr, msg_type, out>>
  BY <1>1, <1>2, EndEffect, NoRecord
<1>4. Serving'
  BY <1>1 DEF RInv, Reads, Serving
<1>5. Finishing'
  <2>1. Finishing
    BY DEF RInv, Reads
  <2> QED BY <1>1, <1>3, <2>1 DEF Finishing
<1>6. KeysInStep'
  BY <1>3 DEF KeysInStep
<1>7. Arriving'
  <2> SUFFICES ASSUME Reading' PROVE Arrived'
    BY DEF Arriving
  <2>1. /\ UNCHANGED <<state, msg_type, rd_on, msg, cv_seen>>
        /\ ~Sealed => UNCHANGED <<rd, rd_switch>>
        /\ Sealed => /\ rd_switch' = FALSE /\ rec.inner # "alert"
                     /\ rd' = IF rd_switch THEN [key |-> "s_ap", seq |-> 0]
                                           ELSE [key |-> rd.key, seq |-> rd.seq + 1]
    BY <1>1, <1>2, EndRead
  <2> PICK t \in Seq(FlightParts), c \in Place :
        /\ Begins(rec, rd, t, c, srv.proves)
        /\ Way(wire, 0, RecStep(srv.proves), Place, c, There)
        /\ Tied(t, rec, rd, rd_switch, msg_type, state)
        /\ Heard(t, rd, msg_type, state, cv_seen, msg, srv.proves)
    BY <1>3 DEF RInv, Reads, Arriving, Arrived, Arrives
  <2> DEFINE a == At(rd, t)
  <2>2. <<a, rec, c>> \in RecStep(srv.proves)
    BY <1>3 DEF Begins
  <2>3. a \in Place /\ a.key = rd.key /\ a.seq = rd.seq /\ a.todo = t
    BY <1>2, AtPlace
  <2>4. Len(rec.items) = 0
    BY <1>3
  <2> HIDE DEF a
  <2>5. \/ HelloRead(a, rec, c, srv.proves) \/ ClearRead(a, rec, c)
        \/ FlightRead(a, rec, c) \/ RefusalRead(a, rec, c) \/ ReplyRead(a, rec, c)
    BY <2>2 DEF RecStep
  <2>6. c.todo \in Seq(FlightParts)
    BY DEF Place
  <2>7. /\ rd_on <=> rd.key # "plain"
        /\ rd_switch => rd.key = "s_hs"
        /\ rd.key = "s_hs" => (~rd_switch <=> state = "WAIT_HS")
        /\ state \in {"WAIT_SH", "WAIT_HS", "VERIFYING", "CONNECTED"}
    BY <1>2, <1>3 DEF Keys, Reading, EngineTypes, Plain
  <2> SUFFICES c.key = rd'.key /\ c.seq = rd'.seq
               /\ Tied(c.todo, rec', rd', rd_switch', msg_type', state')
               /\ c.todo = t /\ (rd.key = "plain" => rd'.key = "plain")
    <3>1. c = At(rd', c.todo)
      BY PlaceAt
    <3>2. Begins(rec', rd', c.todo, c, srv'.proves)
      BY <1>3, <3>1 DEF Begins
    <3>3. There' = There
      BY <1>1 DEF There
    <3>4. Heard(c.todo, rd', msg_type', state', cv_seen', msg', srv'.proves)
      BY <1>1, <2>1 DEF Heard
    <3>5. ArrivedThen
      BY <1>1, <2>6, <3>2, <3>3, <3>4 DEF ArrivedThen, Arrives
    <3> QED BY <3>5, ArrivesLater
  <2>8. CASE c = a
    <3>1. ~Sealed
      <4> SUFFICES ASSUME Sealed PROVE FALSE
        OBVIOUS
      <4>1. rec.outer = "appdata" /\ rec.inner # "alert"
        BY <2>1 DEF Sealed
      <4>2. FlightRead(a, rec, c) \/ ReplyRead(a, rec, c)
        BY <2>5, <4>1 DEF HelloRead, ClearRead, RefusalRead
      <4>3. a.seq \in Nat /\ c.seq = a.seq /\ c.key = a.key
        BY <2>3, <2>8 DEF Place
      <4>4. a.seq + 1 # a.seq
        BY <4>3
      <4> QED BY <4>2, <4>3, <4>4 DEF FlightRead, ReplyRead
    <3>2. ~rd_switch
      BY <2>7, <3>1 DEF Tied, Sealed
    <3> QED BY <2>1, <2>3, <2>8, <3>1, <3>2 DEF Tied
  <2>9. CASE FlightRead(a, rec, c)
    <3>1. Sealed /\ rd.key = "s_hs"
      BY <2>3, <2>7, <2>9 DEF FlightRead, Sealed
    <3>2. c.todo = t
      BY <2>3, <2>4, <2>6, <2>9, RestAll DEF FlightRead
    <3>3. CASE rd_switch
      <4>1. t = <<>>
        BY <3>1, <3>3 DEF Tied
      <4>2. c.key = "s_ap" /\ c.seq = 0 /\ rd' = [key |-> "s_ap", seq |-> 0]
        BY <2>1, <2>9, <3>1, <3>2, <3>3, <4>1 DEF FlightRead
      <4> QED BY <2>1, <2>7, <3>1, <3>2, <3>3, <4>1, <4>2 DEF Tied
    <3>4. CASE ~rd_switch
      <4>1. IF msg_type = "FIN" THEN Half(t) ELSE Ended(t)
        BY <3>1, <3>4 DEF Tied
      <4>2. t # <<>>
        BY <4>1 DEF Half, Ended
      <4>3. c.key = "s_hs" /\ c.seq = rd.seq + 1 /\ rd' = [key |-> "s_hs", seq |-> rd.seq + 1]
        BY <2>1, <2>3, <2>9, <3>1, <3>2, <3>4, <4>2 DEF FlightRead
      <4> QED BY <2>1, <2>7, <3>1, <3>2, <3>4, <4>1, <4>3 DEF Tied
    <3> QED BY <3>3, <3>4
  <2>10. CASE ReplyRead(a, rec, c)
    <3>1. Sealed /\ rd.key = "s_ap" /\ ~rd_switch
      BY <2>3, <2>7, <2>10 DEF ReplyRead, Sealed
    <3>2. c.key = "s_ap" /\ c.seq = rd.seq + 1 /\ c.todo = t
          /\ rd' = [key |-> "s_ap", seq |-> rd.seq + 1]
      BY <2>1, <2>3, <2>10, <3>1 DEF ReplyRead
    <3> QED BY <2>1, <3>1, <3>2 DEF Tied
  <2>11. CASE HelloRead(a, rec, c, srv.proves)
    <3>1. c = a
      BY <2>4, <2>11 DEF HelloRead
    <3> QED BY <2>8, <3>1
  <2>12. CASE ClearRead(a, rec, c) \/ RefusalRead(a, rec, c)
    BY <2>8, <2>12 DEF ClearRead, RefusalRead
  <2> QED BY <2>5, <2>9, <2>10, <2>11, <2>12
<1> QED BY <1>4, <1>5, <1>6, <1>7 DEF Reads
\* A step of the reader's that does not look at what it has read of the record.
LEMMA StepOn ==
  ASSUME NEW a \in Place, NEW c \in Place, NEW r \in Records, r.items # <<>>, NEW v,
         <<a, r, c>> \in RecStep(v), ~HelloRead(a, r, c, v), ~FlightRead(a, r, c)
  PROVE  <<a, [r EXCEPT !.items = Tail(@)], c>> \in RecStep(v)
<1> DEFINE r1 == [r EXCEPT !.items = Tail(@)]
<1>1. /\ r1 \in Records /\ r1.items = Tail(r.items)
      /\ r1.outer = r.outer /\ r1.inner = r.inner /\ r1.key = r.key /\ r1.seq = r.seq
  BY ItemRead
<1>2. r.items \in Seq(Items) /\ r.items # <<>>
  BY DEF Records
<1>3. /\ Len(Tail(r.items)) = Len(r.items) - 1 /\ Len(r.items) \in Nat
      /\ \A i \in 1..Len(Tail(r.items)) : i + 1 \in 1..Len(r.items) /\ Tail(r.items)[i] = r.items[i + 1]
  BY <1>2
<1> HIDE DEF r1
<1>4. ClearRead(a, r, c) \/ RefusalRead(a, r, c) \/ ReplyRead(a, r, c)
  BY DEF RecStep
<1>5. CASE ClearRead(a, r, c)
  <2>1. ClearRead(a, r1, c)
    BY <1>1, <1>5 DEF ClearRead
  <2> QED BY <1>1, <2>1, IsStep DEF r1
<1>6. CASE ReplyRead(a, r, c)
  <2>1. ReplyRead(a, r1, c)
    BY <1>1, <1>6 DEF ReplyRead
  <2> QED BY <1>1, <2>1, IsStep DEF r1
<1>7. CASE RefusalRead(a, r, c)
  <2>1. \A i \in 1..Len(r1.items) : r1.items[i].at = "alert"
    BY <1>1, <1>3, <1>7 DEF RefusalRead
  <2>2. RefusalRead(a, r1, c)
    BY <1>1, <1>7, <2>1 DEF RefusalRead
  <2> QED BY <1>1, <2>2, IsStep DEF r1
<1> QED BY <1>4, <1>5, <1>6, <1>7 DEF r1

\* A part of the flight read.
LEMMA FlightOn ==
  ASSUME NEW p \in ReadPlace, NEW t \in Seq(FlightParts), NEW c \in Place, NEW r \in Records,
         NEW v, r.items # <<>>, FlightRead(At(p, t), r, c)
  PROVE  /\ t # <<>> /\ Head(r.items) = t[1] /\ Tail(t) \in Seq(FlightParts)
         /\ <<At(p, Tail(t)), [r EXCEPT !.items = Tail(@)], c>> \in RecStep(v)
<1> DEFINE s == [r EXCEPT !.items = Tail(@)]
           u == Tail(t)
<1>1. /\ s \in Records /\ s.items = Tail(r.items)
      /\ s.outer = r.outer /\ s.inner = r.inner /\ s.key = r.key /\ s.seq = r.seq
  BY ItemRead
<1>2. r.items \in Seq(Items) /\ r.items # <<>>
  BY DEF Records
<1>3. /\ Len(Tail(r.items)) = Len(r.items) - 1 /\ Len(r.items) \in Nat /\ Len(r.items) >= 1
      /\ Head(r.items) = r.items[1]
      /\ \A i \in 1..Len(Tail(r.items)) : i + 1 \in 1..Len(r.items) /\ Tail(r.items)[i] = r.items[i + 1]
  BY <1>2
<1>4. /\ r.outer = "appdata" /\ r.inner = "handshake"
      /\ p.key = "s_hs" /\ r.key = "s_hs" /\ r.seq = p.seq
      /\ Rest(t, Len(r.items), c.todo)
      /\ \A i \in 1..Len(r.items) : r.items[i] = t[i]
      /\ IF c.todo = <<>> THEN c.key = "s_ap" /\ c.seq = 0
                          ELSE c.key = "s_hs" /\ c.seq = p.seq + 1
  BY AtPlace DEF FlightRead
<1>5. Len(t) \in Nat /\ Len(r.items) <= Len(t)
  BY <1>4 DEF Rest
<1>6. /\ t # <<>> /\ u \in Seq(FlightParts)
      /\ \A i \in 1..(Len(t) - 1) : u[i] = t[i + 1]
  BY <1>3, <1>5
<1>7. Head(r.items) = t[1]
  BY <1>3, <1>4
<1>8. c.todo \in Seq(FlightParts)
  BY DEF Place
<1>9. Rest(u, Len(r.items) - 1, c.todo)
  BY <1>3, <1>4, <1>8, RestTail
<1>10. At(p, u) \in Place /\ At(p, u).key = p.key /\ At(p, u).seq = p.seq /\ At(p, u).todo = u
  BY <1>6, AtPlace
<1>11. \A i \in 1..Len(s.items) : s.items[i] = u[i]
  BY <1>1, <1>3, <1>4, <1>5, <1>6
<1> HIDE DEF s, u
<1>12. FlightRead(At(p, u), s, c)
  BY <1>1, <1>3, <1>4, <1>9, <1>10, <1>11 DEF FlightRead
<1>13. <<At(p, u), s, c>> \in RecStep(v)
  BY <1>1, <1>10, <1>12 DEF RecStep
<1> QED BY <1>6, <1>7, <1>13 DEF s, u

\* What is read on, the client's key and number and the state staying.
LEMMA ReadOn ==
  ASSUME UNCHANGED <<state, rd, rd_switch, wire, srv>>, rec # NoRec, rec' \in Records,
         rec'.outer = rec.outer, rec'.inner = rec.inner,
         NEW t, NEW u \in Seq(FlightParts), NEW c \in Place,
         Way(wire, 0, RecStep(srv.proves), Place, c, There),
         Tied(t, rec, rd, rd_switch, msg_type, state),
         <<At(rd, u), rec', c>> \in RecStep(srv'.proves),
         rd.key # "s_hs" \/ rd_switch => u = t,
         rd.key = "s_hs" /\ ~rd_switch => IF msg_type' = "FIN" THEN Half(u) ELSE Ended(u),
         state = "WAIT_SH" => msg_type' \in {"none", "SH"},
         Heard(u, rd, msg_type', state, cv_seen', msg', srv.proves)
  PROVE  Arriving'
<1>1. Begins(rec', rd', u, c, srv'.proves)
  BY NoRecord DEF Begins
<1>2. Tied(u, rec', rd', rd_switch', msg_type', state')
  BY NoRecord DEF Tied
<1>3. There' = There
  BY DEF There
<1>4. Heard(u, rd', msg_type', state', cv_seen', msg', srv'.proves)
  OBVIOUS
<1>5. ArrivedThen
  BY <1>1, <1>2, <1>3, <1>4 DEF ArrivedThen, Arrives
<1> QED BY <1>5, ArrivesLater DEF Arriving

\* An item of a record, read.
LEMMA ContentReads ==
  ASSUME RInv, Content, UNCHANGED <<wire, srv>>, state = "WAIT_HS" => Room, Reading'
  PROVE  /\ Arriving'
         /\ FinishedTaken => FinIn(rec.items)
<1> DEFINE x == Head(rec.items)
           r1 == [rec EXCEPT !.items = Tail(@)]
<1>1. EngineTypes /\ Keys /\ rd \in ReadPlace /\ Reading
  BY DEF RInv, CInv, EngineTypes, Content
<1>2. /\ rec \in Records /\ rec # NoRec /\ rec.items # <<>> /\ rec' = r1
      /\ \/ (rec.outer = "handshake" \/ Sealed) /\ Read(x)
         \/ (rec.outer \in {"ccs", "alert"} \/ state = "CONNECTED") /\ Ignored
  BY <1>1, ContentRead, NoRecord
<1>3. /\ r1 \in Records /\ r1.items = Tail(rec.items)
      /\ r1.outer = rec.outer /\ r1.inner = rec.inner /\ r1.key = rec.key /\ r1.seq = rec.seq
  BY <1>2, ItemRead
<1>4. /\ rec.items \in Seq(Items) /\ Len(rec.items) \in Nat /\ Len(rec.items) >= 1
      /\ x = rec.items[1] /\ 1 \in 1..Len(rec.items)
      /\ Len(Tail(rec.items)) = Len(rec.items) - 1
      /\ \A i \in 1..(Len(rec.items) - 1) : Tail(rec.items)[i] = rec.items[i + 1]
  BY <1>2 DEF Records
<1> PICK t \in Seq(FlightParts), c \in Place :
      /\ Begins(rec, rd, t, c, srv.proves)
      /\ Way(wire, 0, RecStep(srv.proves), Place, c, There)
      /\ Tied(t, rec, rd, rd_switch, msg_type, state)
      /\ Heard(t, rd, msg_type, state, cv_seen, msg, srv.proves)
  BY <1>1 DEF RInv, Reads, Arriving, Arrived, Arrives
<1> DEFINE a == At(rd, t)
<1>5. <<a, rec, c>> \in RecStep(srv.proves)
  BY <1>2 DEF Begins
<1>6. a \in Place /\ a.key = rd.key /\ a.seq = rd.seq /\ a.todo = t
  BY <1>1, AtPlace
<1>7. /\ rd_on <=> rd.key # "plain"
      /\ rd_switch => rd.key = "s_hs"
      /\ rd.key = "s_hs" => (~rd_switch <=> state = "WAIT_HS")
      /\ rd.key = "plain" <=> state = "WAIT_SH"
      /\ state = "WAIT_HS" => rd.key = "s_hs" /\ ~rd_switch
      /\ state \in {"WAIT_SH", "WAIT_HS", "VERIFYING", "CONNECTED"}
      /\ msg_type = "SH" => state = "WAIT_SH"
  BY <1>1 DEF Keys, Reading, EngineTypes, Plain
<1> HIDE DEF a, x, r1
<1>8. rec.outer = "handshake" => HelloRead(a, rec, c, srv.proves)
  BY <1>5 DEF RecStep, ClearRead, FlightRead, RefusalRead, ReplyRead
\* The ServerHello.
<1>9. CASE HelloRead(a, rec, c, srv.proves)
  <2>1. /\ rec.outer = "handshake"
        /\ a.key = "plain" /\ c.key = "s_hs" /\ c.seq = 0 /\ Ended(c.todo)
        /\ \/ Len(rec.items) = 2 /\ x.at = "header" /\ rec.items[2].at = "body"
           \/ Len(rec.items) = 1 /\ x.at = "body"
        /\ ~FinIn(rec.items)
        /\ Candid => Proper(c.todo, "none")
        /\ Proves(c.todo) /\ rec.items[Len(rec.items)].ok = "good" => srv.proves
    BY <1>2, <1>4, <1>9 DEF HelloRead
  <2>2. state = "WAIT_SH" /\ ~rd_switch /\ msg_type \in {"none", "SH"} /\ ~FinishedTaken
    BY <1>6, <1>7, <2>1 DEF Tied, FinishedTaken
  <2>3. Read(x)
    BY <1>2, <2>1, <2>2
  <2>4. CASE Begun(x)
    <3>1. msg_type' = "SH"
      BY <2>2, <2>4 DEF Begun, Expected
    <3>2. Len(rec.items) = 2 \/ x.at = "body"
      BY <2>1
    <3>3. x.at # "body"
      BY <2>2, <2>3, <2>4 DEF Read, Begun, Buffered, HelloTaken, Enter
    <3>4. /\ Len(r1.items) = 1 /\ r1.items[1].at = "body"
          /\ r1.items[Len(r1.items)] = rec.items[Len(rec.items)]
      BY <1>3, <1>4, <2>1, <3>2, <3>3
    <3>5. ~FinIn(r1.items)
      <4>1. \A i \in 1..Len(r1.items) : i + 1 \in 1..Len(rec.items) /\ r1.items[i] = rec.items[i + 1]
        BY <1>3, <1>4
      <4> QED BY <2>1, <4>1 DEF FinIn
    <3>6. HelloRead(a, r1, c, srv.proves)
      BY <1>3, <2>1, <3>4, <3>5 DEF HelloRead
    <3>7. <<At(rd, t), r1, c>> \in RecStep(srv.proves)
      BY <1>3, <1>6, <3>6 DEF RecStep, a
    <3>8. UNCHANGED <<state, rd, rd_switch>>
      BY <2>4 DEF Begun
    <3>9. Heard(t, rd, msg_type', state, cv_seen', msg', srv.proves)
      BY <1>6, <2>1, <2>4 DEF Heard, Begun
    <3>10. Arriving'
      BY <1>2, <1>3, <1>6, <2>1, <2>2, <3>1, <3>7, <3>8, <3>9, ReadOn
    <3> QED BY <2>2, <3>10
  <2>5. CASE HelloTaken
    <3>1. x.at = "body"
      BY <2>2, <2>3, <2>5 DEF Read, Begun, Ignored, HelloTaken, Enter
    <3>2. Len(rec.items) = 1
      BY <2>1, <3>1
    <3>3. r1.items = <<>>
      <4>1. r1.items \in Seq(Items) /\ Len(r1.items) = 0
        BY <1>3, <1>4, <3>2 DEF Records
      <4> QED BY <4>1
    <3>4. /\ rd' = [key |-> "s_hs", seq |-> 0] /\ msg_type' = "none" /\ ~rd_switch'
          /\ state' = "WAIT_HS"
      BY <2>2, <2>5 DEF HelloTaken, Enter
    <3>5. c = At(rd', c.todo)
      BY <2>1, <3>4, PlaceAt
    <3>6. HelloRead(c, r1, c, srv.proves)
      BY <1>3, <2>1, <3>3 DEF HelloRead
    <3>7. <<c, r1, c>> \in RecStep(srv.proves)
      BY <1>3, <3>6 DEF RecStep
    <3>8. Begins(rec', rd', c.todo, c, srv'.proves)
      BY <1>2, <1>3, <3>5, <3>7, NoRecord DEF Begins
    <3>9. Tied(c.todo, rec', rd', rd_switch', msg_type', state')
      BY <2>1, <3>4 DEF Tied
    <3>10. c.todo \in Seq(FlightParts) /\ There' = There
      BY DEF Place, There
    <3>11. Heard(c.todo, rd', msg_type', state', cv_seen', msg', srv'.proves)
      <4>1. ~cv_seen' /\ x.ok = "good"
        <5>1. Read(x) /\ x.at = "body" /\ ~Buffered(x) /\ ~FinishedTaken
          BY <2>2, <2>3, <3>1 DEF Buffered
        <5>2. cv_seen' = cv_seen /\ x.ok = "good"
          BY <5>1 DEF Read
        <5> QED BY <2>2, <5>2 DEF Heard
      <4>2. Proves(c.todo) => srv.proves
        BY <1>4, <2>1, <3>2, <4>1
      <4>3. Proving(c.todo, "none", cv_seen', msg') => Proves(c.todo)
        <5>1. DOMAIN c.todo = 1..Len(c.todo)
          BY <3>10
        <5> QED BY <4>1, <5>1 DEF Proving, Proves, Signed, Signature, Fine
      <4> QED BY <2>1, <3>4, <4>2, <4>3 DEF Heard
    <3>12. ArrivedThen
      BY <3>8, <3>9, <3>10, <3>11 DEF ArrivedThen, Arrives
    <3>13. Arriving'
      BY <3>12, ArrivesLater DEF Arriving
    <3> QED BY <2>2, <3>13
  <2>6. ~Ignored \/ x.at \notin {"header", "body"} \/ Begun(x) \/ HelloTaken
    BY <2>2, <2>3 DEF Read, Buffered
  <2>7. ~Buffered(x)
    BY <2>2 DEF Buffered
  <2> QED BY <2>1, <2>2, <2>3, <2>4, <2>5, <2>7 DEF Read
\* A part of the flight.
<1>10. CASE FlightRead(a, rec, c)
  <2>1. /\ t # <<>> /\ x = t[1] /\ Tail(t) \in Seq(FlightParts)
        /\ <<At(rd, Tail(t)), r1, c>> \in RecStep(srv.proves)
    BY <1>1, <1>2, <1>10, FlightOn DEF a, x, r1
  <2>2. rd.key = "s_hs" /\ rec.outer = "appdata" /\ rec.inner = "handshake"
    BY <1>6, <1>10 DEF FlightRead
  <2>3. ~rd_switch /\ state = "WAIT_HS"
    BY <1>7, <2>1, <2>2 DEF Tied
  <2>4. Read(x)
    BY <1>2, <2>2, <2>3
  <2>5. x \in FlightParts
    BY <2>1
  <2>6. x.at \in {"header", "body"}
    BY <2>5 DEF FlightParts
  <2>7. IF msg_type = "FIN" THEN Half(t) ELSE Ended(t)
    BY <2>2, <2>3 DEF Tied
  <2>8. CASE FinishedTaken
    <3>1. msg_type = "FIN" /\ state' = "VERIFYING" /\ rd_switch' = TRUE /\ rd' = rd
      BY <2>8 DEF FinishedTaken, Enter
    <3>2. Len(t) = 1 /\ FinBody(t[1])
      BY <2>7, <3>1 DEF Half
    <3>3. Tail(t) = <<>>
      <4>1. Len(Tail(t)) = 0
        BY <2>1, <3>2
      <4> HIDE DEF FinBody
      <4> QED BY <2>1, <4>1, EmptySeq
    <3>4. FinIn(rec.items)
      BY <1>4, <2>1, <3>2 DEF FinIn
    <3>5. Begins(rec', rd', Tail(t), c, srv'.proves)
      BY <1>2, <1>3, <2>1, <3>1, NoRecord DEF Begins
    <3>6. Tied(Tail(t), rec', rd', rd_switch', msg_type', state')
      BY <1>2, <1>3, <2>2, <3>1, <3>3, NoRecord DEF Tied
    <3>7. There' = There
      BY DEF There
    <3>8. Heard(Tail(t), rd', msg_type', state', cv_seen', msg', srv'.proves)
      <4>1. x.at = "body" /\ x.ok = "good" /\ UNCHANGED <<msg, cv_seen>>
        <5>1. state' # state /\ ~HelloTaken
          BY <2>3, <2>8 DEF FinishedTaken, HelloTaken, Enter
        <5>2. ~Begun(x) /\ ~Buffered(x) /\ ~Ignored
          BY <5>1 DEF Begun, Buffered, Ignored
        <5> QED BY <2>4, <5>1, <5>2 DEF Read
      <4>2. Candid => Proper(Tail(t), msg_type') /\ (Proving(Tail(t), msg_type', cv_seen', msg') => srv.proves)
        BY <2>1, <2>2, <2>8, <4>1, HeardOn DEF FinishedTaken
      <4> QED BY <3>1, <4>2 DEF Heard
    <3>9. ArrivedThen
      BY <2>1, <3>5, <3>6, <3>7, <3>8 DEF ArrivedThen, Arrives
    <3>10. Arriving'
      BY <3>9, ArrivesLater DEF Arriving
    <3> QED BY <3>4, <3>10
  <2>9. CASE x.at = "header" /\ Begun(x)
    <3>1. msg_type # "FIN"
      <4> SUFFICES ASSUME msg_type = "FIN" PROVE FALSE
        OBVIOUS
      <4>1. FinBody(t[1])
        BY <2>7 DEF Half
      <4> QED BY <2>1, <2>9, <4>1 DEF FinBody
    <3>2. Ended(t)
      BY <2>7, <3>1
    <3>3. /\ FinHead(x) => Half(Tail(t))
          /\ ~FinHead(x) => Ended(Tail(t))
      BY <2>1, <3>2, EndedTail
    <3>4. IF msg_type' = "FIN" THEN Half(Tail(t)) ELSE Ended(Tail(t))
      BY <2>9, <3>3 DEF Begun, FinHead
    <3>5. UNCHANGED <<state, rd, rd_switch>> /\ ~FinishedTaken
      BY <2>3, <2>9 DEF Begun, FinishedTaken, Enter
    <3>6. Heard(Tail(t), rd, msg_type', state, cv_seen', msg', srv.proves)
      <4>1. Candid => Proper(Tail(t), msg_type') /\ (Proving(Tail(t), msg_type', cv_seen', msg') => srv.proves)
        BY <2>1, <2>2, <2>9, HeardOn
      <4> QED BY <2>3, <4>1 DEF Heard
    <3>7. Arriving'
      BY <1>2, <1>3, <2>1, <2>2, <2>3, <3>4, <3>5, <3>6, ReadOn
    <3> QED BY <3>5, <3>7
  <2>10. CASE x.at = "body" /\ Buffered(x)
    <3>1. msg_type # "FIN" /\ msg_type' = "none"
      BY <2>10 DEF Buffered
    <3>2. Ended(t)
      BY <2>7, <3>1
    <3>3. ~FinHead(x)
      BY <2>10 DEF FinHead
    <3>4. Ended(Tail(t))
      BY <2>1, <3>2, <3>3, EndedTail
    <3>5. UNCHANGED <<state, rd, rd_switch>> /\ ~FinishedTaken
      BY <2>3, <2>10 DEF Buffered, FinishedTaken, Enter
    <3>6. Heard(Tail(t), rd, msg_type', state, cv_seen', msg', srv.proves)
      <4>1. Candid => Proper(Tail(t), msg_type') /\ (Proving(Tail(t), msg_type', cv_seen', msg') => srv.proves)
        BY <2>1, <2>2, <2>10, HeardOn
      <4> QED BY <2>3, <4>1 DEF Heard
    <3>7. Arriving'
      BY <1>2, <1>3, <2>1, <2>2, <2>3, <3>1, <3>4, <3>5, <3>6, ReadOn
    <3> QED BY <3>5, <3>7
  <2>11. ~HelloTaken
    BY <2>3 DEF HelloTaken
  <2> QED BY <2>4, <2>6, <2>8, <2>9, <2>10, <2>11 DEF Read
\* Anything else.
<1>11. CASE ~HelloRead(a, rec, c, srv.proves) /\ ~FlightRead(a, rec, c)
  <2>1. <<At(rd, t), r1, c>> \in RecStep(srv.proves)
    BY <1>2, <1>5, <1>6, <1>11, StepOn DEF a, r1
  <2>2. rec.outer # "handshake"
    BY <1>8, <1>11
  <2>3. CASE Ignored
    <3>1. UNCHANGED <<state, rd, rd_switch, msg_type, msg, cv_seen>> /\ ~FinishedTaken
      BY <1>7, <2>3 DEF Ignored, FinishedTaken, Enter
    <3>2. /\ rd.key = "s_hs" /\ ~rd_switch => IF msg_type' = "FIN" THEN Half(t) ELSE Ended(t)
          /\ state = "WAIT_SH" => msg_type' \in {"none", "SH"}
          /\ Heard(t, rd, msg_type', state, cv_seen', msg', srv.proves)
      BY <3>1 DEF Tied
    <3>3. Arriving'
      BY <1>2, <1>3, <2>1, <3>1, <3>2, ReadOn
    <3> QED BY <3>1, <3>3
  <2>4. CASE Sealed /\ Read(x) /\ ~Ignored
    <3>1. rec.outer = "appdata" /\ rd_on
      BY <2>4 DEF Sealed
    <3>2. RefusalRead(a, rec, c) \/ ReplyRead(a, rec, c)
      BY <1>5, <1>11, <3>1 DEF RecStep, ClearRead
    <3>3. CASE RefusalRead(a, rec, c)
      <4>1. x.at = "alert"
        BY <1>4, <3>3 DEF RefusalRead
      <4> QED BY <2>4, <4>1 DEF Read
    <3>4. CASE ReplyRead(a, rec, c)
      <4>1. rd.key = "s_ap" /\ state \in {"VERIFYING", "CONNECTED"} /\ ~rd_switch
        BY <1>6, <1>7, <3>4 DEF ReplyRead
      <4>2. ~HelloTaken /\ ~FinishedTaken
        BY <4>1 DEF HelloTaken, FinishedTaken
      <4>3. UNCHANGED <<state, rd, rd_switch>>
        BY <2>4, <4>2 DEF Read, Begun, Buffered
      <4>4. Heard(t, rd, msg_type', state, cv_seen', msg', srv.proves)
        <5>1. x.at = "body" /\ Buffered(x)
          BY <2>4, <4>1, <4>2 DEF Read, Begun, Expected
        <5>2. t = <<>> /\ msg_type # "none"
          BY <4>1, <5>1 DEF Tied, Buffered
        <5>3. ~Candid
          BY <4>1, <5>2 DEF Heard, Proper
        <5> QED BY <4>1, <5>3 DEF Heard
      <4>5. Arriving'
        BY <1>2, <1>3, <2>1, <4>1, <4>3, <4>4, ReadOn
      <4> QED BY <4>2, <4>5
    <3> QED BY <3>2, <3>3, <3>4
  <2> QED BY <1>2, <2>2, <2>3, <2>4
<1> QED BY <1>9, <1>10, <1>11
\* A record read on by an item.
LEMMA ReadContentReads ==
  ASSUME RInv, ReadContent
  PROVE  Reads'
<1>1. Content /\ UNCHANGED <<wire, sent, srv>>
  BY DEF ReadContent
<1>2. EngineTypes /\ Keys /\ CInv
  BY DEF RInv, CInv
<1>3. state = "WAIT_HS" => Room
  BY <1>2, NothingQueued DEF CInv
<1>4. /\ Reading /\ rec \in Records /\ rec.items # <<>> /\ rec # NoRec
      /\ rec' = [rec EXCEPT !.items = Tail(@)]
      /\ Quiet \/ HelloTaken \/ FinishedTaken
  BY <1>1, <1>2, <1>3, ContentEffect, NoRecord
<1>5. /\ rec' \in Records /\ rec'.items = Tail(rec.items) /\ rec'.outer = rec.outer
      /\ rec'.key = rec.key /\ rec'.seq = rec.seq
  BY <1>4, ItemRead
<1>6. FinIn(rec'.items) => FinIn(rec.items)
  <2>1. rec.items \in Seq(Items) /\ rec.items # <<>>
    BY <1>4 DEF Records
  <2>2. \A i \in 1..Len(Tail(rec.items)) : i + 1 \in 1..Len(rec.items)
                                           /\ Tail(rec.items)[i] = rec.items[i + 1]
    BY <2>1
  <2> HIDE DEF FinBody
  <2> QED BY <1>5, <2>2 DEF FinIn
<1>7. Serving'
  BY <1>1 DEF RInv, Reads, Serving
<1>8. Reading' => Arriving' /\ (FinishedTaken => FinIn(rec.items))
  BY <1>1, <1>3, ContentReads
<1>9. Arriving'
  BY <1>8 DEF Arriving
<1>10. KeysInStep'
  <2>1. KeysInStep
    BY DEF RInv, Reads
  <2>2. CASE UNCHANGED <<rd, rd_on>>
    BY <1>4, <1>5, <2>1, <2>2 DEF KeysInStep, Sealed
  <2>3. CASE HelloTaken
    BY <1>5, <2>3 DEF HelloTaken, KeysInStep, Sealed
  <2> QED BY <1>4, <2>2, <2>3 DEF Quiet, FinishedTaken
<1>11. Finishing'
  <2>1. Finishing
    BY DEF RInv, Reads
  <2>2. /\ \A i \in 1..Len(wire') : FinIn(wire'[i].items) => srv'.key = "s_ap"
        /\ FinIn(rec'.items) => srv'.key = "s_ap"
    BY <1>1, <1>4, <1>6, <2>1 DEF Finishing
  <2> SUFFICES /\ \A i \in 1..Len(sent) : IsFin(sent[i]) => wr'.key = "c_ap"
               /\ \A i \in 1..Len(out') : IsFin(out'[i]) => wr'.key = "c_ap"
               /\ wr'.key = "c_ap" => srv.key = "s_ap"
    BY <1>1, <2>2 DEF Finishing, FinIn, FinBody, IsFin
  <2>3. CASE Quiet
    BY <2>1, <2>3 DEF Quiet, Finishing
  <2>4. CASE HelloTaken
    <3>1. wr = Plain /\ wr' = [key |-> "c_hs", seq |-> 0] /\ out' = out
      BY <1>2, <2>4 DEF HelloTaken, Keys
    <3>2. wr.key # "c_ap" /\ wr'.key # "c_ap"
      BY <3>1 DEF Plain
    <3> QED BY <2>1, <3>1, <3>2 DEF Finishing
  <2>5. CASE FinishedTaken
    <3>1. Reading' /\ wr'.key = "c_ap"
      BY <2>5 DEF FinishedTaken, Enter, Reading
    <3>2. FinIn(rec.items)
      BY <1>8, <2>5, <3>1
    <3>3. srv.key = "s_ap"
      BY <1>4, <2>1, <3>2 DEF Finishing
    <3> QED BY <3>1, <3>3
  <2> QED BY <1>4, <2>3, <2>4, <2>5
<1> QED BY <1>7, <1>9, <1>10, <1>11 DEF Reads

-----------------------------------------------------------------------------
(* The client's other steps *)

\* What conn.c and the socket do outside of the engine.
LEMMA OutsideReads ==
  ASSUME RInv,
         PumpFed \/ PumpRound \/ PumpGivesUp \/ conn_sent \/ conn_closed \/ conn_abort
           \/ Drop \/ WindowShuts \/ WindowOpens \/ UNCHANGED vars
           \/ UNCHANGED <<engine, wire, sent, srv>>
  PROVE  Reads'
<1>1. UNCHANGED <<engine, wire, sent, srv>>
  BY DEF PumpFed, PumpRound, PumpGivesUp, conn_sent, conn_closed, conn_abort, Drop, WindowShuts,
         WindowOpens, vars
<1>2. UNCHANGED <<state, rd_on, rd, wr, rec, rd_switch, msg_type, msg, cv_seen, out>>
  BY <1>1 DEF engine, keys, record, message
<1>3. Serving'
  BY <1>1 DEF RInv, Reads, Serving
<1>4. Finishing'
  BY <1>1, <1>2 DEF RInv, Reads, Finishing
<1>5. Arriving'
  <2>1. Reading' => Reading
    BY <1>2 DEF Reading
  <2> QED BY <1>1, <1>2, <2>1, ArrivingSame DEF RInv, Reads
<1>6. KeysInStep'
  BY <1>2 DEF RInv, Reads, KeysInStep, Sealed
<1> QED BY <1>3, <1>4, <1>5, <1>6 DEF Reads

\* A connection begun.
LEMMA OpenReads ==
  ASSUME RInv, conn_open
  PROVE  Reads'
<1>1. CASE UNCHANGED <<engine, wire, sent, srv>>
  BY <1>1, OutsideReads
<1>2. CASE /\ tls_start
           /\ wire' = <<>> /\ sent' = <<>>
           /\ srv' = [at |-> "listening", key |-> "plain", seq |-> 0, todo |-> <<>>,
                      rd |-> Plain, heard |-> 0, honest |-> TRUE, proves |-> FALSE,
                      said |-> <<>>, replies |-> 0, faults |-> 0]
  <2>1. /\ rec' = NoRec /\ rd' = Plain /\ wr' = Plain /\ out' = <<Hello>> /\ rd_switch' = FALSE
        /\ msg_type' = "none" /\ cv_seen' = FALSE
    BY <1>2 DEF tls_start, Hello
  <2>2. ~srv'.proves /\ srv'.key = "plain" /\ srv'.seq = 0 /\ srv'.todo = <<>> /\ srv'.at = "listening"
    BY <1>2
  <2>3. Serving'
    BY <2>2 DEF Serving
  <2>4. KeysInStep'
    BY <2>1 DEF KeysInStep
  <2>5. Finishing'
    <3>1. wr'.key # "c_ap"
      BY <2>1 DEF Plain
    <3>2. Len(sent') = 0 /\ Len(wire') = 0
      BY <1>2
    <3>3. Len(out') = 1 /\ ~IsFin(out'[1])
      BY <2>1 DEF IsFin, Hello
    <3>4. \A i \in 1..Len(out') : ~IsFin(out'[i])
      BY <3>3
    <3> QED BY <2>1, <3>1, <3>2, <3>4 DEF Finishing, IsFin
  <2>6. Arriving'
    <3> DEFINE none == <<>>
               p == [key |-> "plain", seq |-> 0, todo |-> none]
    <3>1. none \in Seq(FlightParts) /\ none \in Seq(Records) /\ Len(none) = 0
      OBVIOUS
    <3> HIDE DEF none
    <3>2. p \in Place
      BY <3>1 DEF Place
    <3>3. p = At(rd', none) /\ There' = p
      BY <2>1, <2>2 DEF At, There, Plain, none
    <3> HIDE DEF p
    <3>4. Way(none, 0, RecStep(srv'.proves), Place, p, p)
      BY <3>1, <3>2, WayNone
    <3>5. Begins(rec', rd', none, p, srv'.proves)
      BY <2>1, <3>3 DEF Begins
    <3>6. Tied(none, rec', rd', rd_switch', msg_type', state')
      BY <2>1 DEF Tied, none, Plain
    <3>7. wire' = none
      BY <1>2 DEF none
    <3>8. Heard(none, rd', msg_type', state', cv_seen', msg', srv'.proves)
      BY <2>1 DEF Heard, Plain
    <3>9. ArrivedThen
      BY <3>1, <3>2, <3>3, <3>4, <3>5, <3>6, <3>7, <3>8 DEF ArrivedThen, Arrives
    <3> QED BY <3>9, ArrivesLater DEF Arriving
  <2> QED BY <2>3, <2>4, <2>5, <2>6 DEF Reads
<1> QED BY <1>1, <1>2 DEF conn_open

\* A record given to the socket.
LEMMA PushReads ==
  ASSUME RInv, PushOut
  PROVE  Reads'
<1>1. /\ out # <<>> /\ sent' = Append(sent, Head(out)) /\ out' = Tail(out)
      /\ UNCHANGED <<state, rd_on, rd, wr, rec, rd_switch, msg_type, msg, cv_seen, wire, srv>>
  BY DEF PushOut, keys, record, message
<1>2. out \in Seq(OutRecords) /\ sent \in Seq(OutRecords) /\ Finishing
  BY DEF RInv, CInv, EngineTypes, ServerTypes, Reads
<1>3. Head(out) = out[1] /\ 1 \in 1..Len(out) /\ Head(out) \in OutRecords
      /\ \A i \in 1..Len(out') : i + 1 \in 1..Len(out) /\ out'[i] = out[i + 1]
  BY <1>1, <1>2
<1>4. \A i \in 1..Len(sent') : sent'[i] = IF i \in 1..Len(sent) THEN sent[i] ELSE out[1]
  BY <1>1, <1>2, <1>3
<1>5. Finishing'
  <2>1. \A i \in 1..Len(sent') : IsFin(sent'[i]) => wr.key = "c_ap"
    BY <1>2, <1>3, <1>4 DEF Finishing
  <2>2. \A i \in 1..Len(out') : IsFin(out'[i]) => wr.key = "c_ap"
    BY <1>2, <1>3 DEF Finishing
  <2> QED BY <1>1, <1>2, <2>1, <2>2 DEF Finishing, IsFin, FinIn, FinBody
<1>6. Serving' /\ KeysInStep'
  BY <1>1 DEF RInv, Reads, Serving, KeysInStep, Sealed
<1>7. Arriving'
  <2>1. Reading' => Reading
    BY <1>1 DEF Reading
  <2> QED BY <1>1, <2>1, ArrivingSame DEF RInv, Reads
<1> QED BY <1>5, <1>6, <1>7 DEF Reads

\* The signature looked at.
LEMMA VerifyReads ==
  ASSUME RInv, Verify
  PROVE  Reads'
<1>1. tls_verify /\ UNCHANGED <<wire, sent, srv>>
  BY DEF Verify
<1>2. UNCHANGED <<rd_on, rd, wr, rec, rd_switch, msg_type, msg, cv_seen, out>>
  BY <1>1 DEF tls_verify, keys, record, message
<1>3. (Reading' => Reading) /\ (state' = "WAIT_SH" => state = "WAIT_SH")
  BY <1>1 DEF tls_verify, Reading, Fail, Enter, Proceed
<1>4. Serving' /\ Finishing' /\ KeysInStep'
  BY <1>1, <1>2 DEF RInv, Reads, Serving, Finishing, KeysInStep, Sealed
<1>5. Arriving'
  BY <1>1, <1>2, <1>3, ArrivingSame DEF RInv, Reads
<1> QED BY <1>4, <1>5 DEF Reads

\* A line, or a close_notify, sealed.
LEMMA SendReads ==
  ASSUME RInv, conn_send \/ conn_close
  PROVE  Reads'
<1>1. /\ state = "CONNECTED" /\ UNCHANGED <<state, rd_on, rd, rec, rd_switch, msg_type, msg, cv_seen, wire, sent, srv>>
      /\ \/ wr' = wr /\ out' = out
         \/ \E k \in {"line", "close"} : out' = Append(out, Record(k)) /\ wr' = Numbered
  BY DEF conn_send, conn_close, tls_write, tls_close, record, message, CanWrite
<1>2. wr.key = "c_ap" /\ wr \in WritePlace /\ out \in Seq(OutRecords) /\ Finishing
  BY <1>1 DEF RInv, CInv, Keys, EngineTypes, Reads
<1>3. wr'.key = "c_ap"
  BY <1>1, <1>2 DEF Numbered, WritePlace
<1>4. Finishing'
  BY <1>1, <1>2, <1>3 DEF Finishing, IsFin, FinIn, FinBody
<1>5. Serving' /\ KeysInStep'
  BY <1>1 DEF RInv, Reads, Serving, KeysInStep, Sealed
<1>6. Arriving'
  <2>1. Reading' => Reading
    BY <1>1 DEF Reading
  <2> QED BY <1>1, <2>1, ArrivingSame DEF RInv, Reads
<1> QED BY <1>4, <1>5, <1>6 DEF Reads
-----------------------------------------------------------------------------
(* The server's steps *)

\* Where the server is is a place.
LEMMA TherePlace ==
  ASSUME ServerTypes
  PROVE  /\ There \in Place
         /\ There.key = srv.key /\ There.seq = srv.seq /\ There.todo = srv.todo
BY DEF ServerTypes, There, Place

\* What is a step whether or not the server proved itself is one if it did.
LEMMA MoreSteps ==
  ASSUME NEW v, NEW v1, v => v1
  PROVE  RecStep(v) \subseteq RecStep(v1)
<1> SUFFICES ASSUME NEW s \in RecStep(v) PROVE s \in RecStep(v1)
  OBVIOUS
<1>1. HelloRead(s[1], s[2], s[3], v) => HelloRead(s[1], s[2], s[3], v1)
  BY DEF HelloRead
<1> QED BY <1>1 DEF RecStep

\* A way is one by more steps.
LEMMA WayMore ==
  ASSUME NEW q, NEW R, NEW R1, R \subseteq R1, NEW P, NEW a, NEW b, Way(q, 0, R, P, a, b)
  PROVE  Way(q, 0, R1, P, a, b)
BY DEF Way

\* A record that leaves the server.
LEMMA ServerReads ==
  ASSUME RInv, ServerStep, ServerTypes', Serving',
         NEW r \in Records, wire' = Append(wire, r),
         srv.proves => srv'.proves, <<There, r, There'>> \in RecStep(srv'.proves),
         FinIn(r.items) => srv'.key = "s_ap", srv.key = "s_ap" => srv'.key = "s_ap"
  PROVE  Reads' /\ (srv.proves => srv'.proves)
<1>1. UNCHANGED <<state, rd_on, rd, wr, rec, rd_switch, msg_type, msg, cv_seen, out, sent>>
  BY DEF ServerStep, engine, keys, record, message
<1>2. wire \in Seq(Records) /\ Finishing /\ ServerTypes
  BY DEF RInv, CInv, ServerTypes, Reads
<1>3. \A i \in 1..Len(wire') : wire'[i] = IF i \in 1..Len(wire) THEN wire[i] ELSE r
  BY <1>2
<1>4. Finishing'
  <2>1. \A i \in 1..Len(wire') : FinIn(wire'[i].items) => srv'.key = "s_ap"
    BY <1>2, <1>3 DEF Finishing
  <2> QED BY <1>1, <1>2, <2>1 DEF Finishing, IsFin, FinIn, FinBody
<1>5. KeysInStep'
  BY <1>1 DEF RInv, Reads, KeysInStep, Sealed
<1>6. Arriving'
  <2> SUFFICES ASSUME Reading' PROVE Arrived'
    BY DEF Arriving
  <2>1. Reading
    BY <1>1 DEF Reading
  <2> PICK t \in Seq(FlightParts), c \in Place :
        /\ Begins(rec, rd, t, c, srv.proves)
        /\ Way(wire, 0, RecStep(srv.proves), Place, c, There)
        /\ Tied(t, rec, rd, rd_switch, msg_type, state)
        /\ Heard(t, rd, msg_type, state, cv_seen, msg, srv.proves)
    BY <2>1 DEF RInv, Reads, Arriving, Arrived, Arrives
  <2>2. There' \in Place
    <3>1. There'.key = srv'.key /\ There' = [key |-> srv'.key, seq |-> srv'.seq, todo |-> srv'.todo]
      BY DEF There
    <3>2. srv'.key \in {"plain", "s_hs", "s_ap"} /\ srv'.seq \in Nat /\ srv'.todo \in Seq(FlightParts)
      BY DEF ServerTypes, FlightParts
    <3> QED BY <3>1, <3>2 DEF Place
  <2>3. Len(wire) \in Nat /\ 0 \in 0..Len(wire)
    BY <1>2
  <2>4. Way(wire', 0, RecStep(srv'.proves), Place, c, There')
    <3>1. Way(wire, 0, RecStep(srv'.proves), Place, c, There)
      BY MoreSteps, WayMore
    <3> QED BY <1>2, <2>2, <2>3, <3>1, WayAppend
  <2>5. /\ Begins(rec', rd', t, c, srv'.proves) /\ Tied(t, rec', rd', rd_switch', msg_type', state')
        /\ Heard(t, rd', msg_type', state', cv_seen', msg', srv'.proves)
    BY <1>1, MoreSteps DEF Begins, Heard
  <2>6. ArrivedThen
    BY <2>4, <2>5 DEF ArrivedThen, Arrives
  <2> QED BY <2>6, ArrivesLater
<1> QED BY <1>4, <1>5, <1>6 DEF Reads

\* Where the server is in the next state.
LEMMA ThereLater ==
  ASSUME ServerTypes'
  PROVE  /\ There' \in Place
         /\ There'.key = srv'.key /\ There'.seq = srv'.seq /\ There'.todo = srv'.todo
<1>1. There' = [key |-> srv'.key, seq |-> srv'.seq, todo |-> srv'.todo]
  BY DEF There
<1>2. srv'.key \in {"plain", "s_hs", "s_ap"} /\ srv'.seq \in Nat /\ srv'.todo \in Seq(FlightParts)
  BY DEF ServerTypes, FlightParts
<1> QED BY <1>1, <1>2 DEF Place

\* The ServerHello.
LEMMA HelloReads ==
  ASSUME RInv, ServerHello, \A f \in Flights : Ended(f)
  PROVE  Reads' /\ (srv.proves => srv'.proves)
<1> PICK ok \in HelloKinds, flight \in Flights :
       Onto([srv EXCEPT !.at = "flight", !.key = "s_hs", !.seq = 0,
                        !.rd = [key |-> "c_hs", seq |-> 0],
                        !.todo = flight,
                        !.honest = ok = "good" /\ Proves(flight),
                        !.proves = ok = "good" /\ Proves(flight)],
            "handshake", "none",
            <<Part("SH", "header", "good"), Part("SH", "body", ok)>>, "none")
  BY DEF ServerHello
<1> DEFINE s == [srv EXCEPT !.at = "flight", !.key = "s_hs", !.seq = 0,
                            !.rd = [key |-> "c_hs", seq |-> 0],
                            !.todo = flight,
                            !.honest = ok = "good" /\ Proves(flight),
                            !.proves = ok = "good" /\ Proves(flight)]
           h == Part("SH", "header", "good")
           b == Part("SH", "body", ok)
           items == <<h, b>>
<1>1. ServerStep /\ srv.at = "hello" /\ CInv /\ ServerTypes /\ CInv' /\ ServerTypes'
  BY HelloStep DEF ServerHello, RInv, CInv
<1>2. /\ DOMAIN s = SrvFields /\ s.at = "flight" /\ s.key = "s_hs" /\ s.seq = 0 /\ s.todo = flight
      /\ s.proves <=> ok = "good" /\ Proves(flight)
  BY <1>1 DEF ServerTypes, SrvFields
<1>3. /\ h \in Items /\ b \in Items /\ h.at = "header" /\ b.at = "body" /\ h.m = "SH" /\ b.m = "SH"
      /\ b.ok = ok
  <2>1. "good" \in Oks /\ ok \in Oks
    BY DEF Oks
  <2>2. h \in Items /\ b \in Items
    BY <2>1, PartItem
  <2> QED BY <2>2 DEF Part
<1>4. Onto(s, "handshake", "none", items, "none")
  OBVIOUS
<1> HIDE DEF s, h, b
<1>5. items \in Seq(Items) /\ Len(items) = 2 /\ items[1] = h /\ items[2] = b
  BY <1>3
<1>6. ~FinIn(items)
  BY <1>3, <1>5 DEF FinIn, FinBody
<1> HIDE DEF items
<1>7. /\ \E r \in Records : /\ wire' = Append(wire, r) /\ r.outer = "handshake" /\ r.items = items
      /\ srv'.at = s.at /\ srv'.key = s.key /\ srv'.seq = s.seq /\ srv'.todo = s.todo
      /\ srv'.proves = s.proves
  <2>1. Left(s, "handshake", "none", items, "none")
    BY <1>1, <1>2, <1>4, <1>5, OntoLeft
  <2> QED BY <2>1 DEF Left
<1> PICK r \in Records : wire' = Append(wire, r) /\ r.outer = "handshake" /\ r.items = items
  BY <1>7
<1>8. srv.key = "plain"
  BY <1>1 DEF CInv, Sending
<1>9. flight \in Seq(FlightParts) /\ Ended(flight) /\ LastFin(flight)
  <2>1. flight \in Seq(FlightParts) /\ Ended(flight)
    BY ConnAssumption DEF ConnAssumption
  <2> QED BY <2>1 DEF Ended, LastFin
<1>10. Serving'
  BY <1>2, <1>7, <1>9 DEF Serving, LastFin, FinBody
<1>11. /\ There \in Place /\ There.key = "plain"
       /\ There' \in Place /\ There'.key = "s_hs" /\ There'.seq = 0 /\ There'.todo = flight
  BY <1>1, <1>2, <1>7, <1>8, TherePlace, ThereLater
<1>12. HelloRead(There, r, There', srv'.proves)
  <2>1. Candid => Proper(flight, "none")
    BY DEF Candid
  <2>2. Proves(flight) /\ items[Len(items)].ok = "good" => srv'.proves
    BY <1>2, <1>3, <1>5, <1>7
  <2> QED BY <1>3, <1>5, <1>6, <1>9, <1>11, <2>1, <2>2 DEF HelloRead
<1>13. <<There, r, There'>> \in RecStep(srv'.proves)
  BY <1>11, <1>12, IsStep
<1>14. ~srv.proves
  BY <1>8 DEF RInv, Reads, Serving
<1> QED BY <1>1, <1>6, <1>8, <1>10, <1>13, <1>14, ServerReads

\* A record of the flight.
LEMMA FlightReads ==
  ASSUME RInv, ServerFlight
  PROVE  Reads' /\ (srv.proves => srv'.proves)
<1> PICK k \in Cuts \cap 1..Len(srv.todo) :
       LET rest == SubSeq(srv.todo, k + 1, Len(srv.todo))
       IN  Onto(IF rest = <<>>
                  THEN [srv EXCEPT !.todo = rest, !.at = "done", !.key = "s_ap", !.seq = 0]
                  ELSE [srv EXCEPT !.todo = rest, !.seq = @ + 1],
                "appdata", "handshake", SubSeq(srv.todo, 1, k), "none")
  BY DEF ServerFlight
<1> DEFINE rest == SubSeq(srv.todo, k + 1, Len(srv.todo))
           items == SubSeq(srv.todo, 1, k)
           s == IF rest = <<>>
                  THEN [srv EXCEPT !.todo = rest, !.at = "done", !.key = "s_ap", !.seq = 0]
                  ELSE [srv EXCEPT !.todo = rest, !.seq = @ + 1]
<1>1. ServerStep /\ srv.at = "flight" /\ CInv /\ ServerTypes /\ CInv' /\ ServerTypes'
  BY FlightStep DEF ServerFlight, RInv, CInv
<1>2. srv.key = "s_hs" /\ LastFin(srv.todo) /\ srv.todo \in Seq(FlightParts) /\ srv.seq \in Nat
  BY <1>1 DEF RInv, Reads, Serving, ServerTypes
<1>3. k \in 1..Len(srv.todo)
  OBVIOUS
<1>4. /\ rest \in Seq(FlightParts) /\ Rest(srv.todo, k, rest)
      /\ items \in Seq(FlightParts) /\ Len(items) = k
      /\ \A i \in 1..k : items[i] = srv.todo[i]
  BY <1>2, <1>3, RestCut
<1>5. Onto(s, "appdata", "handshake", items, "none")
  OBVIOUS
<1> HIDE DEF rest, items
<1>6. /\ DOMAIN s = SrvFields /\ s.todo = rest /\ s.proves = srv.proves
      /\ rest = <<>> => s.at = "done" /\ s.key = "s_ap" /\ s.seq = 0
      /\ rest # <<>> => s.at = "flight" /\ s.key = "s_hs" /\ s.seq = srv.seq + 1
  BY <1>1, <1>2 DEF ServerTypes, SrvFields
<1> HIDE DEF s
<1>7. items \in Seq(Items)
  BY <1>4, FlightItems
<1>8. /\ \E r \in Records : /\ wire' = Append(wire, r) /\ r.outer = "appdata" /\ r.inner = "handshake"
                            /\ r.items = items /\ r.key = srv.key /\ r.seq = srv.seq
      /\ srv'.at = s.at /\ srv'.key = s.key /\ srv'.seq = s.seq /\ srv'.todo = s.todo
      /\ srv'.proves = s.proves
  <2>1. Left(s, "appdata", "handshake", items, "none")
    BY <1>1, <1>5, <1>6, <1>7, OntoLeft
  <2> QED BY <2>1 DEF Left
<1> PICK r \in Records : /\ wire' = Append(wire, r) /\ r.outer = "appdata" /\ r.inner = "handshake"
                         /\ r.items = items /\ r.key = srv.key /\ r.seq = srv.seq
  BY <1>8
<1>9. k \in Nat /\ Len(rest) \in Nat /\ Len(srv.todo) = k + Len(rest)
  BY <1>2, <1>3, <1>4 DEF Rest
<1>10. Serving'
  <2>1. CASE rest = <<>>
    BY <1>6, <1>8, <2>1 DEF Serving
  <2>2. CASE rest # <<>>
    <3>1. Len(rest) >= 1
      BY <1>4, <1>9, <2>2, EmptySeq
    <3>2. LastFin(rest)
      BY <1>2, <1>4, <1>9, <3>1, RestLast
    <3>3. LastFin(srv'.todo)
      BY <1>6, <1>8, <3>2
    <3> QED BY <1>6, <1>8, <2>2, <3>3 DEF Serving, LastFin, FinBody
  <2> QED BY <2>1, <2>2
<1>11. FinIn(r.items) => srv'.key = "s_ap"
  <2> SUFFICES ASSUME NEW j \in 1..k, FinBody(items[j]) PROVE srv'.key = "s_ap"
    BY <1>4 DEF FinIn
  <2>1. j \in 1..Len(srv.todo) /\ FinBody(srv.todo[j])
    BY <1>3, <1>4, <1>9
  <2>2. j = Len(srv.todo)
    BY <1>2, <2>1 DEF LastFin
  <2>3. Len(rest) = 0
    BY <1>9, <2>2
  <2>4. rest = <<>>
    BY <1>4, <2>3, EmptySeq
  <2> QED BY <1>6, <1>8, <2>4
<1>12. /\ There \in Place /\ There.key = "s_hs" /\ There.seq = srv.seq /\ There.todo = srv.todo
       /\ There' \in Place /\ There'.todo = rest
       /\ There'.key = s.key /\ There'.seq = s.seq
  BY <1>1, <1>2, <1>6, <1>8, TherePlace, ThereLater
<1>13. FlightRead(There, r, There')
  BY <1>2, <1>4, <1>6, <1>12 DEF FlightRead
<1>14. <<There, r, There'>> \in RecStep(srv'.proves)
  BY <1>12, <1>13, IsStep
<1> QED BY <1>1, <1>2, <1>6, <1>8, <1>10, <1>11, <1>14, ServerReads

\* The change_cipher_spec.
LEMMA CCSReads ==
  ASSUME RInv, ServerCCS
  PROVE  Reads' /\ (srv.proves => srv'.proves)
<1> DEFINE items == <<Part("ccs", "data", "good")>>
           r == [outer |-> "ccs", inner |-> "none", key |-> "plain", seq |-> 0,
                 items |-> items, desc |-> "none", framed |-> TRUE, good |-> TRUE]
<1>1. /\ ServerStep /\ wire' = Append(wire, r) /\ UNCHANGED srv
      /\ CInv /\ ServerTypes /\ CInv' /\ ServerTypes'
  BY CCSStep DEF ServerCCS, RInv, CInv
<1>2. Part("ccs", "data", "good") \in Items /\ Part("ccs", "data", "good").m = "ccs"
  BY PartItem DEF Oks, Part
<1>3. items \in Seq(Items) /\ ~FinIn(items)
  BY <1>2 DEF FinIn, FinBody
<1> HIDE DEF items
<1>4. r \in Records /\ r.outer = "ccs" /\ r.items = items
  BY <1>3 DEF Records
<1> HIDE DEF r
<1>5. There \in Place /\ There' = There
  BY <1>1, TherePlace DEF There
<1>6. ClearRead(There, r, There')
  BY <1>4, <1>5 DEF ClearRead
<1>7. <<There, r, There'>> \in RecStep(srv'.proves)
  BY <1>4, <1>5, <1>6, IsStep
<1>8. Serving'
  BY <1>1 DEF RInv, Reads, Serving
<1> QED BY <1>1, <1>3, <1>4, <1>7, <1>8, ServerReads

\* A record of the client's heard.
LEMMA HearReads ==
  ASSUME RInv, ServerHears
  PROVE  Reads' /\ (srv.proves => srv'.proves)
<1> DEFINE r == sent[srv.heard + 1]
           s == [srv EXCEPT !.heard = @ + 1]
<1>1. /\ ServerStep /\ srv.heard < Len(sent) /\ UNCHANGED wire
      /\ srv' = IF r.key # srv.rd.key \/ r.seq # srv.rd.seq THEN [s EXCEPT !.at = "broken"]
                ELSE IF r.kind = "hello" THEN [s EXCEPT !.at = "hello"]
                ELSE IF r.kind \in {"finished", "empty+finished"}
                  THEN [s EXCEPT !.at = "up", !.rd = [key |-> "c_ap", seq |-> 0]]
                ELSE [s EXCEPT !.rd.seq = @ + 1]
  BY DEF ServerHears
<1>2. UNCHANGED <<state, rd_on, rd, wr, rec, rd_switch, msg_type, msg, cv_seen, out, sent>>
  BY <1>1 DEF ServerStep, engine, keys, record, message
<1>3. ServerTypes /\ Serving /\ Finishing
  BY DEF RInv, CInv, Reads
<1>4. /\ DOMAIN s = SrvFields /\ s.at = srv.at /\ s.key = srv.key
      /\ s.seq = srv.seq /\ s.todo = srv.todo /\ s.proves = srv.proves
  BY <1>3 DEF ServerTypes, SrvFields
<1> HIDE DEF s, r
<1>5. /\ srv'.key = srv.key /\ srv'.seq = srv.seq /\ srv'.todo = srv.todo
      /\ srv'.proves = srv.proves
      /\ \/ srv'.at \in {srv.at, "broken", "hello"}
         \/ srv'.at = "up" /\ IsFin(r)
  BY <1>1, <1>4 DEF SrvFields, IsFin
<1>6. srv.heard + 1 \in 1..Len(sent)
  BY <1>1, <1>3 DEF ServerTypes
<1>7. IsFin(r) => srv.key = "s_ap"
  BY <1>3, <1>6 DEF Finishing, r
<1>8. Serving'
  BY <1>3, <1>5, <1>7 DEF Serving
<1>9. Finishing'
  BY <1>1, <1>2, <1>3, <1>5 DEF Finishing
<1>10. KeysInStep'
  BY <1>2 DEF RInv, Reads, KeysInStep, Sealed
<1>11. Arriving'
  <2> SUFFICES ASSUME Reading' PROVE Arrived'
    BY DEF Arriving
  <2>1. Arrived
    BY <1>2 DEF RInv, Reads, Arriving, Reading
  <2>2. There' = There
    BY <1>5 DEF There
  <2>3. ArrivedThen
    BY <1>1, <1>2, <1>5, <2>1, <2>2 DEF Arrived, ArrivedThen
  <2> QED BY <2>3, ArrivesLater
<1> QED BY <1>5, <1>8, <1>9, <1>10, <1>11 DEF Reads

\* What comes after the handshake.
LEMMA ReplyReads ==
  ASSUME RInv, ServerReplies
  PROVE  Reads' /\ (srv.proves => srv'.proves)
<1> PICK q \in Replies :
       LET x == [m |-> q, ok |-> "good",
                 at |-> CASE q = "ticket" -> "body" [] q = "line" -> "data" [] OTHER -> "alert",
                 n |-> IF q = "line" THEN Len(srv.said) + 1 ELSE 0]
           s == [srv EXCEPT !.replies = @ + 1, !.seq = @ + 1,
                            !.at = IF q \in {"close", "fatal"} THEN "closed" ELSE @,
                            !.honest = @ /\ q # "fatal",
                            !.said = IF q = "line" THEN Append(@, <<x.m, x.n>>) ELSE @]
       IN  Onto(s, "appdata",
                CASE q = "ticket" -> "handshake" [] q = "line" -> "appdata" [] OTHER -> "alert",
                <<x>>, q)
  BY DEF ServerReplies
<1> DEFINE place == CASE q = "ticket" -> "body" [] q = "line" -> "data" [] OTHER -> "alert"
           inner == CASE q = "ticket" -> "handshake" [] q = "line" -> "appdata" [] OTHER -> "alert"
           x == [m |-> q, ok |-> "good", at |-> place,
                 n |-> IF q = "line" THEN Len(srv.said) + 1 ELSE 0]
           s == [srv EXCEPT !.replies = @ + 1, !.seq = @ + 1,
                            !.at = IF q \in {"close", "fatal"} THEN "closed" ELSE @,
                            !.honest = @ /\ q # "fatal",
                            !.said = IF q = "line" THEN Append(@, <<x.m, x.n>>) ELSE @]
           items == <<x>>
<1>1. ServerStep /\ srv.at = "up" /\ CInv /\ ServerTypes /\ CInv' /\ ServerTypes'
  BY ReplyStep DEF ServerReplies, RInv, CInv
<1>2. q \in {"line", "ticket", "close", "fatal"}
  BY ConnAssumption DEF ConnAssumption
<1>3. place \in {"body", "data", "alert"} /\ inner \in {"none", "handshake", "appdata", "alert"}
  BY <1>2
<1> HIDE DEF place, inner
<1>4. Len(srv.said) \in Nat
  BY <1>1 DEF ServerTypes
<1>5. x \in Items /\ x.m = q
  BY <1>2, <1>3, <1>4 DEF Items, Oks
<1>6. Onto(s, "appdata", inner, items, q)
  BY DEF inner, place
<1> HIDE DEF x
<1>7. items \in Seq(Items) /\ ~FinIn(items)
  BY <1>2, <1>5 DEF FinIn, FinBody
<1>8. /\ DOMAIN s = SrvFields /\ s.at \in {"up", "closed"} /\ s.key = srv.key
      /\ s.seq = srv.seq + 1 /\ s.todo = srv.todo /\ s.proves = srv.proves
  BY <1>1 DEF ServerTypes, SrvFields
<1> HIDE DEF s, items
<1>9. /\ "appdata" \in {"handshake", "appdata", "alert", "ccs"}
      /\ q \in {"none", "line", "ticket", "close", "fatal"}
  BY <1>2
<1>10. /\ \E r \in Records : /\ wire' = Append(wire, r) /\ r.outer = "appdata" /\ r.items = items
                             /\ r.key = srv.key /\ r.seq = srv.seq
       /\ srv'.at = s.at /\ srv'.key = s.key /\ srv'.seq = s.seq /\ srv'.todo = s.todo
       /\ srv'.proves = s.proves
  <2>1. ServerTypes
    BY <1>1
  <2>2. DOMAIN s = SrvFields
    BY <1>8
  <2>3. inner \in {"none", "handshake", "appdata", "alert"}
    BY <1>3
  <2>4. items \in Seq(Items)
    BY <1>7
  <2>5. Left(s, "appdata", inner, items, q)
    BY <2>1, <2>2, <2>3, <2>4, <1>6, <1>9, OntoLeft
  <2> QED BY <2>5 DEF Left
<1> PICK r \in Records : /\ wire' = Append(wire, r) /\ r.outer = "appdata" /\ r.items = items
                         /\ r.key = srv.key /\ r.seq = srv.seq
  BY <1>10
<1>11. srv.key = "s_ap" /\ Serving
  BY <1>1 DEF RInv, Reads, Serving
<1>12. Serving'
  BY <1>8, <1>10, <1>11 DEF Serving
<1>13. /\ There \in Place /\ There.key = "s_ap" /\ There.seq = srv.seq /\ There.todo = srv.todo
       /\ There' \in Place /\ There'.key = "s_ap" /\ There'.seq = srv.seq + 1 /\ There'.todo = srv.todo
  BY <1>1, <1>8, <1>10, <1>11, TherePlace, ThereLater
<1>14. ReplyRead(There, r, There')
  BY <1>11, <1>13 DEF ReplyRead
<1>15. <<There, r, There'>> \in RecStep(srv'.proves)
  BY <1>13, <1>14, IsStep
<1> QED BY <1>1, <1>7, <1>8, <1>10, <1>12, <1>15, ServerReads

\* A refusal.
LEMMA RefuseReads ==
  ASSUME RInv, ServerRefuses
  PROVE  Reads' /\ (srv.proves => srv'.proves)
<1> DEFINE outer == IF srv.key = "plain" THEN "alert" ELSE "appdata"
           items == <<Part("fatal", "alert", "good")>>
           s == [srv EXCEPT !.at = "closed", !.honest = FALSE]
<1>1. /\ ServerStep /\ Onto(s, outer, "alert", items, "fatal")
      /\ CInv /\ ServerTypes /\ CInv' /\ ServerTypes'
  BY RefuseStep DEF ServerRefuses, RInv, CInv
<1>2. /\ Part("fatal", "alert", "good") \in Items /\ Part("fatal", "alert", "good").m = "fatal"
      /\ Part("fatal", "alert", "good").at = "alert"
  BY PartItem DEF Oks, Part
<1>3. items \in Seq(Items) /\ ~FinIn(items) /\ \A i \in 1..Len(items) : items[i].at = "alert"
  BY <1>2 DEF FinIn, FinBody
<1>4. /\ DOMAIN s = SrvFields /\ s.at = "closed" /\ s.key = srv.key /\ s.seq = srv.seq
      /\ s.todo = srv.todo /\ s.proves = srv.proves
  BY <1>1 DEF ServerTypes, SrvFields
<1>5. /\ outer \in {"handshake", "appdata", "alert", "ccs"}
      /\ srv.key = "plain" => outer = "alert"
      /\ srv.key # "plain" => outer = "appdata"
  OBVIOUS
<1> HIDE DEF s, items, outer
<1>6. /\ \E r \in Records : /\ wire' = Append(wire, r) /\ r.outer = outer /\ r.inner = "alert"
                            /\ r.items = items /\ r.key = srv.key /\ r.seq = srv.seq
      /\ srv'.at = s.at /\ srv'.key = s.key /\ srv'.seq = s.seq /\ srv'.todo = s.todo
      /\ srv'.proves = s.proves
  <2>1. Left(s, outer, "alert", items, "fatal")
    BY <1>1, <1>3, <1>4, <1>5, OntoLeft
  <2> QED BY <2>1 DEF Left
<1> PICK r \in Records : /\ wire' = Append(wire, r) /\ r.outer = outer /\ r.inner = "alert"
                         /\ r.items = items /\ r.key = srv.key /\ r.seq = srv.seq
  BY <1>6
<1>7. Serving'
  BY <1>4, <1>6 DEF RInv, Reads, Serving
<1>8. There \in Place /\ There' = There /\ There.key = srv.key /\ There.seq = srv.seq
  BY <1>1, <1>4, <1>6, TherePlace DEF There
<1>9. ClearRead(There, r, There') \/ RefusalRead(There, r, There')
  BY <1>3, <1>5, <1>8 DEF ClearRead, RefusalRead
<1>10. <<There, r, There'>> \in RecStep(srv'.proves)
  BY <1>8, <1>9, IsStep
<1> QED BY <1>1, <1>3, <1>4, <1>6, <1>7, <1>10, ServerReads

-----------------------------------------------------------------------------
(* The theorem *)

\* Where a program starts.
LEMMA RInvInit == Init => RInv
<1> SUFFICES ASSUME Init PROVE RInv
  OBVIOUS
<1>1. CInv
  BY CInvInit
<1>2. /\ state = "IDLE" /\ rec = NoRec /\ wr = Plain /\ out = <<>> /\ wire = <<>> /\ sent = <<>>
      /\ srv.at = "closed" /\ srv.key = "plain" /\ srv.seq = 0 /\ srv.todo = <<>>
      /\ ~srv.proves
  BY DEF Init, EngineInit
<1>3. Serving /\ Arriving /\ KeysInStep
  BY <1>2 DEF Serving, Arriving, Reading, KeysInStep
<1>4. Finishing
  BY <1>2 DEF Finishing, Plain
<1> QED BY <1>1, <1>3, <1>4 DEF RInv, Reads

\* Every step keeps the invariant.
LEMMA RInvStep ==
  ASSUME \A f \in Flights : Ended(f)
  PROVE  RInv /\ [Next]_vars => RInv'
<1> SUFFICES ASSUME RInv, [Next]_vars PROVE RInv'
  OBVIOUS
<1>1. CInv'
  BY CInvStep DEF RInv
<1>2. ASSUME Client PROVE Reads'
  BY <1>2, ReadStartReads, ReadContentReads, ReadEndReads, OutsideReads, PushReads, VerifyReads DEF Client
<1>3. ASSUME Choice PROVE Reads'
  BY <1>3, OpenReads, OutsideReads, SendReads DEF Choice
<1>4. ASSUME Server PROVE Reads'
  BY <1>4, HelloReads, FlightReads, CCSReads, HearReads, ReplyReads, RefuseReads DEF Server
<1>5. ASSUME Socket PROVE Reads'
  BY <1>5, OutsideReads DEF Socket
<1>6. ASSUME UNCHANGED vars PROVE Reads'
  BY <1>6, OutsideReads
<1>7. Reads'
  BY <1>2, <1>3, <1>4, <1>5, <1>6 DEF Next
<1> QED BY <1>1, <1>7 DEF RInv

\* Each side's keys and numbers are in step where the client reads: through the
\* switch of record_end, however the flight is cut into records, for any number
\* of connections, replies and damaged records; if a flight ends with its
\* Finished and has no other, as a TLS server's does.
THEOREM ServerRecordsOpen ==
  ASSUME \A f \in Flights : Ended(f)
  PROVE  Spec => []KeysInStep
<1>1. RInv /\ [Next]_vars => RInv'
  BY RInvStep
<1>2. RInv => KeysInStep
  BY DEF RInv, Reads
<1> QED BY <1>1, <1>2, RInvInit, PTL DEF Spec

-----------------------------------------------------------------------------
(* Nothing before the proof *)

NoLine(q) == \A i \in 1..Len(q) : q[i].kind # "line"

\* Before the connection is open nothing was handed over and no line was sealed;
\* and it is open only to a server that proved itself, over a chain that will do.
Waiting ==
  conn \in {"pump", "push", "verify"} =>
    delivered = <<>> /\ state # "CONNECTED" /\ NoLine(sent) /\ NoLine(out)
Trusting == conn \in {"open", "send", "close"} => srv.proves /\ conn_chain = "OK"
NInv == RInv /\ Waiting /\ Trusting

\* No line counts as none.
LEMMA NoLines ==
  ASSUME sent \in Seq(OutRecords), NoLine(sent)
  PROVE  Lines = 0
<1>1. DOMAIN sent = 1..Len(sent)
  OBVIOUS
<1>2. {i \in DOMAIN sent : sent[i].kind = "line"} = {}
  BY <1>1 DEF NoLine
<1>3. Cardinality({}) = 0
  BY FS_EmptySet
<1> QED BY <1>2, <1>3 DEF Lines

\* What the engine is fed hands nothing over before it is connected, and does
\* not connect it.
LEMMA FedQuiet ==
  ASSUME RInv, state # "CONNECTED", NoLine(out),
         ReadStart \/ ReadContent \/ ReadEnd
  PROVE  UNCHANGED <<delivered, sent, conn>> /\ state' # "CONNECTED" /\ NoLine(out')
<1>1. EngineTypes /\ Keys /\ out \in Seq(OutRecords)
  BY DEF RInv, CInv, EngineTypes
<1>2. CASE ReadStart
  <2>1. UNCHANGED <<delivered, sent, conn, out>> /\ (state' = "FAILED" \/ state' = state)
    BY <1>2 DEF ReadStart, record_start, data, Fail, Proceed
  <2> QED BY <2>1
<1>3. CASE ReadEnd
  <2>1. record_end /\ UNCHANGED <<sent, conn>>
    BY <1>3 DEF ReadEnd
  <2>2. UNCHANGED <<out, delivered>> /\ (Proceed \/ Failing \/ Closing)
    BY <1>1, <2>1, EndEffect
  <2> QED BY <2>1, <2>2 DEF Proceed, Failing, Closing
<1>4. CASE ReadContent
  <2>1. Content /\ UNCHANGED <<sent, conn>>
    BY <1>4 DEF ReadContent
  <2>2. UNCHANGED delivered
    BY <2>1 DEF Content, hs_feed, data
  <2>3. state = "WAIT_HS" => Room
    BY <1>1, NothingQueued DEF RInv, CInv
  <2>4. Quiet \/ HelloTaken \/ FinishedTaken
    BY <1>1, <2>1, <2>3, ContentEffect
  <2>5. CASE Quiet \/ HelloTaken
    BY <2>1, <2>2, <2>5 DEF Quiet, HelloTaken, Proceed, Failing, Closing, Enter
  <2>6. CASE FinishedTaken
    <3>1. PICK k \in {"finished", "empty+finished"} : out' = Append(out, Record(k))
      BY <2>6 DEF FinishedTaken
    <3>2. Record(k).kind # "line"
      BY DEF Record
    <3> HIDE DEF Record
    <3>3. \A i \in 1..Len(out') : out'[i] = IF i \in 1..Len(out) THEN out[i] ELSE Record(k)
      BY <1>1, <3>1
    <3>4. NoLine(out')
      BY <3>2, <3>3 DEF NoLine
    <3> QED BY <2>1, <2>2, <2>6, <3>4 DEF FinishedTaken, Enter
  <2> QED BY <2>4, <2>5, <2>6
<1> QED BY <1>2, <1>3, <1>4

\* The signature passed is the server's proof.
LEMMA VerifiedProves ==
  ASSUME RInv, Candid, tls_verify, state # "CONNECTED", state' = "CONNECTED"
  PROVE  srv.proves
<1>1. state = "VERIFYING" /\ Signed(cv_seen, msg)
  BY DEF tls_verify, Proceed, Fail, Enter, Signed
<1>2. EngineTypes /\ Keys
  BY DEF RInv, CInv
<1>3. /\ rd.key \in {"s_hs", "s_ap"}
      /\ rd.key = "s_hs" => rd_switch
  BY <1>1, <1>2 DEF Keys, EngineTypes, ReadPlace
<1> PICK t \in Seq(FlightParts), c \in Place :
      /\ Tied(t, rec, rd, rd_switch, msg_type, state)
      /\ Heard(t, rd, msg_type, state, cv_seen, msg, srv.proves)
  BY <1>1 DEF RInv, Reads, Arriving, Arrived, Arrives, Reading
<1>4. t = <<>>
  BY <1>3 DEF Tied
<1>5. Proving(t, msg_type, cv_seen, msg)
  BY <1>1, <1>4 DEF Proving
<1> QED BY <1>3, <1>5 DEF Heard

\* Where a program starts.
LEMMA NInvInit == Init => NInv
<1> SUFFICES ASSUME Init PROVE NInv
  OBVIOUS
<1>1. RInv
  BY RInvInit
<1>2. conn = "shut"
  BY DEF Init
<1> QED BY <1>1, <1>2 DEF NInv, Waiting, Trusting

\* The client's steps.
LEMMA NClient ==
  ASSUME NInv, Candid, Client \/ Choice \/ Socket
  PROVE  Waiting' /\ Trusting'
<1>1. RInv /\ out \in Seq(OutRecords) /\ sent \in Seq(OutRecords)
  BY DEF NInv, RInv, CInv, EngineTypes, ServerTypes
<1>2. CASE ReadStart \/ ReadContent \/ ReadEnd
  <2>1. UNCHANGED <<conn, outcome, sent, srv>>
    BY <1>2 DEF ReadStart, ReadContent, ReadEnd
  <2>2. Trusting'
    BY <2>1 DEF NInv, Trusting, outcome
  <2>3. Waiting'
    <3> SUFFICES ASSUME conn \in {"pump", "push", "verify"}
                 PROVE  delivered' = <<>> /\ state' # "CONNECTED" /\ NoLine(sent') /\ NoLine(out')
      BY <2>1 DEF Waiting, NoLine
    <3>1. delivered = <<>> /\ state # "CONNECTED" /\ NoLine(sent) /\ NoLine(out)
      BY DEF NInv, Waiting
    <3> QED BY <1>1, <1>2, <2>1, <3>1, FedQuiet
  <2> QED BY <2>2, <2>3
<1>3. CASE PumpFed \/ PumpRound \/ PumpGivesUp \/ conn_sent \/ conn_closed \/ conn_abort
             \/ Drop \/ WindowShuts \/ WindowOpens
  <2>1. UNCHANGED <<delivered, state, sent, out, srv>>
    BY <1>3 DEF PumpFed, PumpRound, PumpGivesUp, conn_sent, conn_closed, conn_abort, Drop,
                WindowShuts, WindowOpens, engine, data
  <2>2. /\ conn' \in {"pump", "push", "verify"} => conn \in {"pump", "push", "verify"}
        /\ conn' \in {"open", "send", "close"} =>
             conn \in {"open", "send", "close"} /\ conn_chain' = conn_chain
    BY <1>3 DEF PumpFed, PumpRound, PumpGivesUp, conn_sent, conn_closed, conn_abort, Drop,
                WindowShuts, WindowOpens, Abort, outcome
  <2>3. Trusting'
    BY <2>1, <2>2 DEF NInv, Trusting
  <2>4. Waiting'
    BY <2>1, <2>2 DEF NInv, Waiting, NoLine
  <2> QED BY <2>3, <2>4
<1>4. CASE PushOut
  <2>1. /\ out # <<>> /\ sent' = Append(sent, Head(out)) /\ out' = Tail(out)
        /\ UNCHANGED <<state, delivered, conn, conn_chain, srv>>
    BY <1>4 DEF PushOut, data, outcome
  <2>2. Trusting'
    BY <2>1 DEF NInv, Trusting
  <2>3. Waiting'
    <3> SUFFICES ASSUME conn \in {"pump", "push", "verify"} PROVE NoLine(sent') /\ NoLine(out')
      BY <2>1 DEF NInv, Waiting, NoLine
    <3>1. NoLine(sent) /\ NoLine(out)
      BY DEF NInv, Waiting
    <3>2. /\ Head(out) = out[1] /\ 1 \in 1..Len(out) /\ Head(out) \in OutRecords
          /\ \A i \in 1..Len(out') : i + 1 \in 1..Len(out) /\ out'[i] = out[i + 1]
      BY <1>1, <2>1
    <3>3. \A i \in 1..Len(sent') : sent'[i] = IF i \in 1..Len(sent) THEN sent[i] ELSE out[1]
      BY <1>1, <2>1, <3>2
    <3> QED BY <3>1, <3>2, <3>3 DEF NoLine
  <2> QED BY <2>2, <2>3
<1>5. CASE Verify
  <2>1. tls_verify /\ UNCHANGED <<delivered, sent, out, srv>>
    BY <1>5 DEF Verify, tls_verify, data
  <2>2. conn' \in {"shut", "open"}
    BY <1>5 DEF Verify, Abort
  <2>3. conn' = "open" => state' = "CONNECTED" /\ conn_chain' = "OK"
    BY <1>5 DEF Verify, Abort
  <2>4. state # "CONNECTED"
    BY <1>5 DEF Verify, NInv, Waiting
  <2>5. conn' = "open" => srv.proves
    BY <1>1, <2>1, <2>3, <2>4, VerifiedProves
  <2> QED BY <2>1, <2>2, <2>3, <2>5 DEF Waiting, Trusting
<1>6. CASE conn_open
  <2>1. CASE conn' = "shut"
    BY <2>1 DEF Waiting, Trusting
  <2>2. CASE conn' = "pump" /\ tls_start /\ sent' = <<>>
    <3>1. state' = "WAIT_SH" /\ delivered' = <<>> /\ out' = <<Hello>>
      BY <2>2 DEF tls_start, Hello
    <3>2. NoLine(out')
      BY <3>1 DEF NoLine, Hello
    <3>3. NoLine(sent')
      BY <2>2 DEF NoLine
    <3> QED BY <2>2, <3>1, <3>2, <3>3 DEF Waiting, Trusting, NoLine
  <2> QED BY <1>6, <2>1, <2>2 DEF conn_open
<1>7. CASE conn_send \/ conn_close
  <2>1. /\ conn = "open" /\ conn' \in {"send", "close"} /\ UNCHANGED <<conn_chain, srv>>
    BY <1>7 DEF conn_send, conn_close, outcome
  <2> QED BY <2>1 DEF NInv, Waiting, Trusting
<1> QED BY <1>2, <1>3, <1>4, <1>5, <1>6, <1>7 DEF Client, Choice, Socket

\* Every step keeps it.
LEMMA NInvStep ==
  ASSUME \A f \in Flights : Ended(f), Candid
  PROVE  NInv /\ [Next]_vars => NInv'
<1> SUFFICES ASSUME NInv, [Next]_vars PROVE NInv'
  OBVIOUS
<1>1. RInv /\ RInv'
  BY RInvStep DEF NInv
<1>2. ASSUME Client \/ Choice \/ Socket PROVE Waiting' /\ Trusting'
  BY <1>2, NClient
<1>3. ASSUME Server PROVE Waiting' /\ Trusting'
  <2>1. srv.proves => srv'.proves
    BY <1>1, <1>3, HelloReads, FlightReads, CCSReads, HearReads, ReplyReads, RefuseReads DEF Server
  <2>2. UNCHANGED <<delivered, state, sent, out, conn, conn_chain>>
    BY <1>3 DEF Server, ServerHello, ServerFlight, ServerCCS, ServerHears, ServerReplies,
                ServerRefuses, ServerStep, engine, data, outcome
  <2> QED BY <2>1, <2>2 DEF NInv, Waiting, Trusting, NoLine
<1>4. ASSUME UNCHANGED vars PROVE Waiting' /\ Trusting'
  BY <1>4 DEF vars, engine, data, outcome, NInv, Waiting, Trusting, NoLine
<1>5. Waiting' /\ Trusting'
  BY <1>2, <1>3, <1>4 DEF Next
<1> QED BY <1>1, <1>5 DEF NInv

\* "Nothing else is sent until it and the chain have passed" (conn.c): no line
\* goes out, nothing is handed to the client, and no connection is open, until
\* the server's Finished and signature and its chain have been checked; if a
\* flight ends with its Finished, is of whole messages, and what is wrong with
\* it is a signature, the Finished or a form, and is not signed over.
THEOREM ProofFirst ==
  ASSUME \A f \in Flights : Ended(f), \A f \in Flights : Proper(f, "none")
  PROVE  Spec => []NothingBeforeProof
<1>1. NInv /\ [Next]_vars => NInv'
  BY NInvStep DEF Candid
<1>2. NInv => NothingBeforeProof
  <2> SUFFICES ASSUME NInv PROVE NothingBeforeProof
    OBVIOUS
  <2>1. sent \in Seq(OutRecords)
    BY DEF NInv, RInv, CInv, ServerTypes
  <2>2. conn \in {"pump", "push", "verify"} => delivered = <<>> /\ Lines = 0
    BY <2>1, NoLines DEF NInv, Waiting
  <2> QED BY <2>2 DEF NothingBeforeProof, NInv, Trusting
<1> QED BY <1>1, <1>2, NInvInit, PTL DEF Spec
=============================================================================

---------------------------- MODULE SessionProofs ----------------------------
(***************************************************************************)
(* Theorems about Session, for every list of channels, set of nicks, of     *)
(* characters they may have, number of views, idle times, answers of the   *)
(* server's and bounds.  The last are about what client and server have    *)
(* agreed on once all is said: the registration, the password, the         *)
(* channels and the nick.  Each of those is about two queues, and holds    *)
(* because what is asked for is always either granted, refused or still in *)
(* one of them.                                                            *)
(***************************************************************************)
EXTENDS Session, SequenceTheorems, FiniteSetTheorems, TLAPS

-----------------------------------------------------------------------------
(* What is on the wire *)

\* What either side says.
Kinds ==
  {"PING", "PONG", "CAP LS", "CAP LS sasl", "CAP REQ", "CAP END", "CAP ACK", "CAP NAK",
   "AUTHENTICATE PLAIN", "AUTHENTICATE login", "AUTHENTICATE", "001", "432", "433", "NICK",
   "USER", "JOIN", "KICK", "PRIVMSG", "QUIT", "IDENTIFY"}
  \cup Logins

\* A message: what NICK asks for or tells is a nick, what is joined or left a
\* channel.
Message ==
  {x \in [m : Kinds, a : Seq(Char) \cup Channel \cup Person, b : Seq(Char)] :
     (x.m = "NICK" => x.a \in Seq(Char)) /\ (x.m \in {"JOIN", "KICK"} => x.a \in Channel)}

\* The server's end of a connection.
ServerEnd ==
  [up : BOOLEAN, user : BOOLEAN, holding : BOOLEAN, nick : Seq(Char), named : BOOLEAN,
   long : BOOLEAN, authed : BOOLEAN, identified : Nat, joins : [Channel -> Nat],
   silent : BOOLEAN]

\* What nick[] holds.
Nicks == {n \in Seq(Char) : Len(n) <= NickCap}

\* A message without a nick or a channel.
LEMMA SayIsMessage ==
  ASSUME NEW s \in Kinds, s \notin {"NICK", "JOIN", "KICK"}
  PROVE  Say(s) \in Message
<1>1. <<>> \in Seq(Char)
  OBVIOUS
<1> QED BY <1>1 DEF Say, Msg, Message

\* A message with a nick, or two, or from a person.
LEMMA NickIsMessage ==
  /\ \A n, k \in Seq(Char) : Msg("NICK", n, k) \in Message
  /\ \A n \in Seq(Char) : Msg("NICK", n, <<>>) \in Message
  /\ \A who \in Person : Msg("PRIVMSG", who, <<>>) \in Message
<1>1. <<>> \in Seq(Char)
  OBVIOUS
<1> QED BY <1>1 DEF Msg, Message, Kinds

\* A message about a channel.
LEMMA ChannelIsMessage ==
  ASSUME NEW c \in Channel
  PROVE  Msg("JOIN", c, <<>>) \in Message /\ Msg("KICK", c, <<>>) \in Message
<1>1. <<>> \in Seq(Char)
  OBVIOUS
<1> QED BY <1>1 DEF Msg, Message, Kinds

\* nick[] is never overrun: what is kept of a nick told, or of one tried again,
\* fits; and one that fits is kept whole.
LEMMA NickFits ==
  /\ \A n \in Nicks : Retried(n) \in Nicks /\ Kept(n) = n
  /\ \A n \in Seq(Char) : Kept(n) \in Nicks
<1> USE SessionAssumption DEF SessionAssumption
<1>1. ASSUME NEW n \in Nicks PROVE Retried(n) \in Nicks
  <2>1. n \in Seq(Char) /\ Len(n) \in Nat /\ Len(n) <= NickCap /\ NickCap \in Nat
    BY DEF Nicks
  <2>2. CASE Len(n) < NickCap - 1
    <3>1. 50 \in Char
      BY DEF Char
    <3>2. Append(n, 50) \in Seq(Char) /\ Len(Append(n, 50)) = Len(n) + 1
      BY <2>1, <3>1
    <3>3. Retried(n) = Append(n, 50)
      BY <2>2 DEF Retried
    <3> QED BY <2>1, <2>2, <3>2, <3>3 DEF Nicks
  <2>3. CASE ~(Len(n) < NickCap - 1) /\ n[Len(n)] = 255
    <3>1. SubSeq(n, 1, Len(n) - 1) \in Seq(Char)
      BY <2>1
    <3>2. Len(SubSeq(n, 1, Len(n) - 1)) <= NickCap
      BY <2>1, <2>3
    <3>3. Retried(n) = SubSeq(n, 1, Len(n) - 1)
      BY <2>3 DEF Retried
    <3> QED BY <3>1, <3>2, <3>3 DEF Nicks
  <2>4. CASE ~(Len(n) < NickCap - 1) /\ n[Len(n)] # 255
    <3> DEFINE r == [n EXCEPT ![Len(n)] = @ + 1]
    <3>1. Len(n) >= 1
      BY <2>1, <2>4
    <3>2. Len(n) \in 1..Len(n) /\ n \in [1..Len(n) -> Char]
      BY <2>1, <3>1
    <3>3. n[Len(n)] \in Char
      BY <3>2
    <3>4. n[Len(n)] + 1 \in Char
      <4>1. \A c \in Char : c # 255 => c + 1 \in Char
        BY DEF Char
      <4> QED BY <2>4, <3>3, <4>1
    <3>5. r \in [1..Len(n) -> Char]
      BY <3>2, <3>4
    <3>6. r \in Seq(Char) /\ Len(r) = Len(n)
      BY <2>1, <3>5
    <3>7. Retried(n) = r
      BY <2>4 DEF Retried
    <3> QED BY <2>1, <3>6, <3>7 DEF Nicks
  <2> QED BY <2>2, <2>3, <2>4
<1>2. \A n \in Nicks : Kept(n) = n
  BY DEF Nicks, Kept
<1>3. ASSUME NEW n \in Seq(Char) PROVE Kept(n) \in Nicks
  <2>1. CASE Len(n) <= NickCap
    BY <2>1 DEF Kept, Nicks
  <2>2. CASE ~(Len(n) <= NickCap)
    <3>1. SubSeq(n, 1, NickCap) \in Seq(Char) /\ Len(SubSeq(n, 1, NickCap)) = NickCap
      BY <2>2, SubSeqProperties
    <3> QED BY <2>2, <3>1 DEF Kept, Nicks
  <2> QED BY <2>1, <2>2
<1> QED BY <1>1, <1>2, <1>3

\* What the client answers is on the wire's alphabet, and its nick fits.
LEMMA ReplyType ==
  ASSUME NEW m \in Message, nick \in Nicks
  PROVE  Reply(m) \in Seq(Message) /\ NickAfter(m) \in Nicks
<1>1. NickAfter(m) \in Nicks
  <2>1. m.b \in Seq(Char)
    BY DEF Message
  <2> QED BY <2>1, NickFits DEF NickAfter
<1>2. Msg("NICK", Retried(nick), <<>>) \in Message
  BY NickIsMessage, NickFits DEF Nicks
<1>3. /\ Say("PONG") \in Message /\ Say("CAP REQ") \in Message /\ Say("CAP END") \in Message
      /\ Say("AUTHENTICATE PLAIN") \in Message /\ Say("AUTHENTICATE login") \in Message
      /\ Say("IDENTIFY") \in Message
  BY SayIsMessage DEF Kinds
<1>4. Reply(m) = <<>> \/ \E x \in Message : Reply(m) = <<x>>
  BY <1>2, <1>3 DEF Reply
<1>5. CASE Reply(m) = <<>>
  BY <1>1, <1>5
<1>6. CASE \E x \in Message : Reply(m) = <<x>>
  <2> PICK x \in Message : Reply(m) = <<x>>
    BY <1>6
  <2> QED BY <1>1
<1> QED BY <1>4, <1>5, <1>6

-----------------------------------------------------------------------------
(* The invariant *)

\* TypeOK, one variable at a time, with the bounds on the counts.
Types ==
  /\ at \in Places /\ step \in {"pump", "check", "key"}
  /\ tries \in 0..4
  /\ reconnecting \in BOOLEAN /\ quitting \in BOOLEAN /\ registered \in BOOLEAN
  /\ stopped \in BOOLEAN /\ spinning \in BOOLEAN /\ shut \in BOOLEAN
  /\ pinged_idle \in BOOLEAN /\ nspass \in BOOLEAN
  /\ sasl_ok \in BOOLEAN /\ alive \in BOOLEAN
  /\ joined \in 0..Len(Listed)
  /\ idle \in 0..DeadAfter
  /\ nick \in Nicks
  /\ dials \in 0..MaxDials
  /\ half \in 0..MaxDials
  /\ at \in {"first", "dialling", "pause", "minute"} => ~alive
  /\ at = "pause" => tries < 4

\* What is under way has the alphabet's types.
Wire == toServer \in Seq(Message) /\ toClient \in Seq(Message) /\ srv \in ServerEnd

\* Where half a line may be: nowhere from an attempt's first failure until the
\* connection is open.
Glue ==
  /\ NoGluedLine
  /\ at \in {"pause", "minute"} => half = 0
  /\ at = "dialling" /\ tries > 0 => half = 0

\* RUN/STOP was pressed, or /quit typed, only on the way out.
Stopped == quitting \/ stopped => at \in {"first", "leaving"}

HasPing(q) == \E i \in DOMAIN q : q[i].m = "PING"

\* On a link that answers, a PING sent is on its way, or something has come
\* back and is not yet read; until it is sent the link has not been idle for long.
Answered ==
  /\ at \in {"dialling", "pause"} => idle = 0 /\ ~pinged_idle
  /\ Prompt /\ at = "loop" /\ alive /\ ~srv.silent =>
       /\ idle <= PingAfter
       /\ ~pinged_idle => idle < PingAfter
       /\ pinged_idle => toClient # <<>> \/ HasPing(toServer)

IInv == Types /\ Wire /\ Glue /\ Stopped /\ Answered

-----------------------------------------------------------------------------
(* Queues and ends of a connection *)

\* The server's end before anything is said.
LEMMA NoServerType == NoServer \in ServerEnd /\ ~NoServer.silent
  BY DEF NoServer, ServerEnd

\* conn_send puts messages on the wire or loses them.
LEMMA SentType ==
  ASSUME NEW ms \in Seq(Message), toServer \in Seq(Message), Sent(ms)
  PROVE  toServer' \in Seq(Message) /\ spinning' \in BOOLEAN
  BY DEF Sent

\* A PING under way stays so when more is sent.
LEMMA PingStays ==
  ASSUME NEW q \in Seq(Message), NEW r \in Seq(Message), HasPing(q) \/ HasPing(r)
  PROVE  HasPing(q \o r)
<1>1. CASE HasPing(q)
  <2> PICK i \in DOMAIN q : q[i].m = "PING"
    BY <1>1 DEF HasPing
  <2>1. i \in DOMAIN (q \o r) /\ (q \o r)[i] = q[i]
    OBVIOUS
  <2> QED BY <2>1 DEF HasPing
<1>2. CASE HasPing(r)
  <2> PICK i \in DOMAIN r : r[i].m = "PING"
    BY <1>2 DEF HasPing
  <2>1. Len(q) + i \in DOMAIN (q \o r) /\ (q \o r)[Len(q) + i] = r[i]
    OBVIOUS
  <2> QED BY <2>1 DEF HasPing
<1> QED BY <1>1, <1>2

\* What is not yet read when the head is.
LEMMA PingBehind ==
  ASSUME NEW q \in Seq(Message), HasPing(q), q # <<>>, Head(q).m # "PING"
  PROVE  HasPing(Tail(q))
<1> PICK i \in DOMAIN q : q[i].m = "PING"
  BY DEF HasPing
<1>1. i # 1 /\ i - 1 \in DOMAIN Tail(q) /\ Tail(q)[i - 1] = q[i]
  OBVIOUS
<1> QED BY <1>1 DEF HasPing

\* A queue read is a queue.
LEMMA ReadType ==
  ASSUME NEW q \in Seq(Message), q # <<>>
  PROVE  Head(q) \in Message /\ Tail(q) \in Seq(Message)
  OBVIOUS

\* The client's opening lines.
LEMMA OpeningType ==
  ASSUME nick \in Nicks
  PROVE  Greeting \in Seq(Message)
<1>1. Say("CAP LS") \in Message /\ Say("USER") \in Message
  BY SayIsMessage DEF Kinds
<1>2. Msg("NICK", nick, <<>>) \in Message
  BY NickIsMessage DEF Nicks
<1>3. \A x, y, z \in Message : /\ <<x>> \o <<y, z>> \in Seq(Message)
                              /\ <<>> \o <<y, z>> \in Seq(Message)
  OBVIOUS
<1>4. CASE nspass
  <2>1. Greeting = <<Say("CAP LS")>> \o <<Msg("NICK", nick, <<>>), Say("USER")>>
    BY <1>4, Zenon DEF Greeting
  <2> QED BY <2>1, <1>1, <1>2, <1>3
<1>5. CASE ~nspass
  <2>1. Greeting = <<>> \o <<Msg("NICK", nick, <<>>), Say("USER")>>
    BY <1>5, Zenon DEF Greeting
  <2> QED BY <2>1, <1>1, <1>2, <1>3
<1> QED BY <1>4, <1>5

\* The list of channels.
LEMMA ListType == Len(Listed) \in Nat /\ \A i \in 1..Len(Listed) : Listed[i] \in Channel
  BY SessionAssumption DEF SessionAssumption

-----------------------------------------------------------------------------
(* The steps *)

\* The first screen.
LEMMA FirstStep ==
  ASSUME IInv, session
  PROVE  IInv'
<1> USE SessionAssumption DEF SessionAssumption
<1>1. Types'
  <2>1. at' \in Places /\ step' \in {"pump", "check", "key"}
    BY DEF session, Places
  <2>2. /\ reconnecting' \in BOOLEAN /\ quitting' \in BOOLEAN /\ registered' \in BOOLEAN
        /\ stopped' \in BOOLEAN /\ spinning' \in BOOLEAN /\ shut' \in BOOLEAN
        /\ pinged_idle' \in BOOLEAN /\ nspass' \in BOOLEAN /\ sasl_ok' \in BOOLEAN
    BY DEF session, IInv, Types, link
  <2>3. tries' \in 0..4 /\ idle' \in 0..DeadAfter /\ nick' \in Nicks /\ joined' \in 0..Len(Listed)
    <3>1. \A n \in Wanted : n \in Nicks
      BY DEF Nicks
    <3> QED BY <3>1, ListType DEF session, IInv, Types
  <2>4. dials' \in 0..MaxDials /\ half' \in 0..MaxDials
    BY DEF session, IInv, Types, bounds
  <2>5. alive' \in BOOLEAN /\ ~alive' /\ at' # "pause"
    BY DEF session, IInv, Types, link
  <2> QED BY <2>1, <2>2, <2>3, <2>4, <2>5 DEF Types
<1>2. Wire'
  BY DEF IInv, Wire, session, link
<1>3. Glue'
  BY DEF session, Glue, NoGluedLine
<1>4. Stopped'
  BY DEF session, Stopped
<1>5. Answered'
  BY DEF session, Answered
<1> QED BY <1>1, <1>2, <1>3, <1>4, <1>5 DEF IInv

\* An attempt: opened, failed, or the last.
LEMMA DialStep ==
  ASSUME IInv, Dial
  PROVE  IInv'
<1> USE SessionAssumption DEF SessionAssumption
<1>1. /\ at = "dialling" /\ dials' = dials + 1 /\ dials < MaxDials
      /\ half' = 0 /\ UNCHANGED <<tries, idle, pinged_idle, nick, joined, spinning>>
  BY DEF Dial, Afresh, Opening, GiveUp, IInv, Glue, Types
<1>2. /\ registered' \in BOOLEAN /\ sasl_ok' \in BOOLEAN /\ quitting' \in BOOLEAN
      /\ stopped' \in BOOLEAN
  BY DEF Dial, Afresh, Opening, GiveUp, IInv, Types
<1>3. /\ at' \in Places
      /\ at' \in {"first", "dialling", "pause", "minute"} => ~alive'
      /\ at' = "pause" => tries < 4
  BY <1>1 DEF Dial, Opening, GiveUp, IInv, Types, Places, link
<1>4. alive' \in BOOLEAN /\ shut' \in BOOLEAN
  BY DEF Dial, Opening, GiveUp, IInv, Types, link
<1>5. Types'
  BY <1>1, <1>2, <1>3, <1>4 DEF IInv, Types, Dial
<1>6. Wire'
  <2>1. CASE Opening
    BY <2>1, OpeningType, NoServerType DEF IInv, Types, Wire, Opening
  <2>2. CASE UNCHANGED <<toServer, toClient, srv>>
    BY <2>2 DEF IInv, Wire
  <2> QED BY <2>1, <2>2 DEF Dial, link
<1>7. Glue'
  BY <1>1 DEF Glue, NoGluedLine
<1>8. Stopped'
  BY <1>1 DEF IInv, Stopped, Dial, Opening, GiveUp
<1>9. Answered'
  BY <1>1 DEF IInv, Answered
<1> QED BY <1>5, <1>6, <1>7, <1>8, <1>9 DEF IInv

\* The three seconds and the minute.
LEMMA WaitStep ==
  ASSUME IInv, Pause \/ Minute
  PROVE  IInv'
<1> USE SessionAssumption DEF SessionAssumption
<1>1. CASE Pause
  <2>1. Types'
    <3>1. at' \in Places /\ at' \notin {"pause", "loop"} /\ tries' \in 0..4
      BY <1>1 DEF IInv, Types, Pause, GiveUp, Places
    <3>2. /\ quitting' \in BOOLEAN /\ stopped' \in BOOLEAN /\ ~alive' /\ alive' \in BOOLEAN
          /\ shut' \in BOOLEAN
      BY <1>1 DEF IInv, Types, Pause, GiveUp, link
    <3> QED BY <1>1, <3>1, <3>2 DEF IInv, Types, Pause, loop, bounds
  <2>2. Wire' /\ Glue' /\ Stopped'
    BY <1>1 DEF IInv, Types, Wire, Glue, NoGluedLine, Stopped, Pause, GiveUp, link, bounds
  <2>3. Answered'
    BY <1>1 DEF IInv, Types, Answered, Pause, GiveUp, loop, link
  <2> QED BY <2>1, <2>2, <2>3 DEF IInv
<1>2. CASE Minute
  <2>1. Types'
    BY <1>2 DEF IInv, Types, Minute, Places, link, bounds
  <2>2. Wire' /\ Glue' /\ Stopped' /\ Answered'
    BY <1>2 DEF IInv, Types, Wire, Glue, NoGluedLine, Stopped, Answered, Minute, link, bounds
  <2> QED BY <2>1, <2>2 DEF IInv
<1> QED BY <1>1, <1>2

\* conn_pump: bytes that come rearm the PING, and what is half read is of this
\* connection.
LEMMA PumpStep ==
  ASSUME IInv, Pump
  PROVE  IInv'
<1> USE SessionAssumption DEF SessionAssumption
<1>1. /\ at = "loop" /\ at' = "loop" /\ step' \in {"pump", "check"}
      /\ UNCHANGED <<tries, reconnecting, quitting, stopped, nspass, joined, alive, shut, srv,
                     dials>>
  BY DEF Pump, bounds
<1>2. CASE UNCHANGED <<registered, sasl_ok, nick, half, spinning, idle, pinged_idle, toServer,
                       toClient>>
  <2>1. Types' /\ Wire' /\ Glue' /\ Stopped'
    BY <1>1, <1>2 DEF IInv, Types, Wire, Glue, NoGluedLine, Stopped
  <2>2. Answered'
    <3>1. HasPing(toServer)' <=> HasPing(toServer)
      BY <1>2 DEF HasPing
    <3> QED BY <1>1, <1>2, <3>1 DEF IInv, Answered
  <2> QED BY <2>1, <2>2 DEF IInv
<1>3. CASE /\ toClient # <<>> /\ Heard /\ half' = dials
           /\ UNCHANGED <<registered, sasl_ok, nick, spinning, toServer, toClient>>
  <2>1. Types'
    <3>1. idle' \in 0..DeadAfter /\ half' \in 0..MaxDials /\ pinged_idle' \in BOOLEAN
      <4>1. idle' = 0 /\ pinged_idle' = FALSE /\ half' \in {0, dials}
        BY <1>3 DEF Heard
      <4>2. dials \in 0..MaxDials /\ 0 \in 0..MaxDials /\ 0 \in 0..DeadAfter
        BY DEF IInv, Types
      <4> QED BY <4>1, <4>2
    <3>2. at' \in Places /\ step' \in {"pump", "check", "key"}
      BY <1>1 DEF Places
    <3>3. registered' \in BOOLEAN /\ sasl_ok' \in BOOLEAN /\ nick' \in Nicks /\ spinning' \in BOOLEAN
      BY <1>3 DEF IInv, Types
    <3> QED BY <1>1, <3>1, <3>2, <3>3 DEF IInv, Types
  <2>2. Wire' /\ Glue' /\ Stopped' /\ Answered'
    BY <1>1, <1>3 DEF IInv, Types, Wire, Glue, NoGluedLine, Stopped, Answered, Heard
  <2> QED BY <2>1, <2>2 DEF IInv
<1>4. CASE /\ toClient # <<>> /\ Heard /\ half' = 0
           /\ toClient' = Tail(toClient) /\ handle_line(Head(toClient))
  <2> DEFINE m == Head(toClient)
  <2>1. m \in Message /\ toClient' \in Seq(Message)
    BY <1>4, ReadType DEF IInv, Wire
  <2>2. nick \in Nicks
    BY DEF IInv, Types
  <2>3. Reply(m) \in Seq(Message) /\ NickAfter(m) \in Nicks
    BY <2>1, <2>2, ReplyType
  <2>4. toServer' \in Seq(Message) /\ nick' \in Nicks /\ spinning' \in BOOLEAN
    BY <1>4, <2>3, SentType DEF handle_line, IInv, Wire
  <2>5. registered' \in BOOLEAN /\ sasl_ok' \in BOOLEAN
    BY <1>4 DEF handle_line, IInv, Types
  <2>6. Types'
    <3>1. idle' \in 0..DeadAfter /\ half' \in 0..MaxDials /\ pinged_idle' \in BOOLEAN
      <4>1. idle' = 0 /\ pinged_idle' = FALSE /\ half' \in {0, dials}
        BY <1>4 DEF Heard
      <4>2. dials \in 0..MaxDials /\ 0 \in 0..MaxDials /\ 0 \in 0..DeadAfter
        BY DEF IInv, Types
      <4> QED BY <4>1, <4>2
    <3>2. at' \in Places /\ step' \in {"pump", "check", "key"}
      BY <1>1 DEF Places
    <3> QED BY <1>1, <2>4, <2>5, <3>1, <3>2 DEF IInv, Types
  <2>7. Wire' /\ Glue' /\ Stopped' /\ Answered'
    BY <1>1, <1>4, <2>1, <2>4 DEF IInv, Types, Wire, Glue, NoGluedLine, Stopped, Answered, Heard
  <2> QED BY <2>6, <2>7 DEF IInv
<1> QED BY <1>2, <1>3, <1>4 DEF Pump

\* The clock on a link that answers: never so long idle as to be dead.
LEMMA NeverIdleLong ==
  ASSUME IInv, at = "loop", Prompt, alive, ~srv.silent,
         NEW ticks \in 0..1,
         ticks = 1 /\ Prompt => srv.silent \/ (toServer = <<>> /\ toClient = <<>>)
  PROVE  /\ idle + ticks <= PingAfter
         /\ pinged_idle => ticks = 0
<1> USE SessionAssumption DEF SessionAssumption
<1>1. idle \in Nat /\ idle <= PingAfter /\ (~pinged_idle => idle < PingAfter)
  BY DEF IInv, Types, Answered
<1>2. pinged_idle => toClient # <<>> \/ toServer # <<>>
  BY DEF IInv, Answered, HasPing
<1> QED BY <1>1, <1>2

\* What a step of the loop that says something keeps: a link on which more is
\* said is still answered, and nothing else that matters has changed.
LEMMA SayingStep ==
  ASSUME IInv, at = "loop", at' \in {"loop", "leaving"}, NEW ms \in Seq(Message), Sent(ms),
         UNCHANGED <<idle, pinged_idle, alive, toClient, srv, half, dials>>
  PROVE  Wire' /\ Glue' /\ Answered'
<1>1. Wire'
  BY SentType DEF IInv, Wire
<1>2. Glue'
  BY DEF IInv, Glue, NoGluedLine
<1>3. Answered'
  <2> SUFFICES ASSUME Prompt, alive, ~srv.silent
               PROVE  /\ idle <= PingAfter
                      /\ ~pinged_idle => idle < PingAfter
                      /\ pinged_idle => toClient # <<>> \/ HasPing(toServer)'
    BY DEF Answered
  <2>1. /\ idle <= PingAfter /\ (~pinged_idle => idle < PingAfter)
        /\ pinged_idle => toClient # <<>> \/ HasPing(toServer)
    BY DEF IInv, Answered
  <2>2. ASSUME HasPing(toServer) PROVE HasPing(toServer)'
    <3>1. toServer' = toServer \o ms
      BY DEF Sent
    <3>2. HasPing(toServer')
      BY <2>2, <3>1, PingStays DEF IInv, Wire
    <3> QED BY <3>2 DEF HasPing
  <2> QED BY <2>1, <2>2
<1> QED BY <1>1, <1>2, <1>3

\* A link on which nothing is said is answered as before.
LEMMA QuietStep ==
  ASSUME IInv, at = "loop", at' = "loop",
         UNCHANGED <<idle, pinged_idle, alive, toServer, toClient, srv, half, dials>>
  PROVE  Wire' /\ Glue' /\ Answered'
<1>1. HasPing(toServer)' <=> HasPing(toServer)
  BY DEF HasPing
<1> QED BY <1>1 DEF IInv, Wire, Glue, NoGluedLine, Answered

\* The next channel of the list.
LEMMA JoinStep ==
  ASSUME IInv, Join
  PROVE  IInv'
<1> USE SessionAssumption DEF SessionAssumption
<1>1. /\ at = "loop" /\ joined < Len(Listed) /\ joined' = joined + 1
      /\ UNCHANGED <<at, step, tries, reconnecting, quitting, stopped, registered, pinged_idle,
                     idle, nspass, sasl_ok, nick, half, alive, shut, toClient, srv, dials>>
  BY DEF Join, bounds
<1>2. Listed[joined + 1] \in Channel /\ joined' \in 0..Len(Listed)
  BY <1>1, ListType DEF IInv, Types
<1> DEFINE ms == <<Msg("JOIN", Listed[joined + 1], <<>>)>>
<1>3. ms \in Seq(Message)
  <2>1. Msg("JOIN", Listed[joined + 1], <<>>) \in Message
    BY <1>2, ChannelIsMessage
  <2> QED BY <2>1
<1>4. Sent(ms) \/ UNCHANGED <<toServer, spinning>>
  BY DEF Join
<1>5. CASE Sent(ms)
  <2> HIDE DEF ms
  <2>1. Wire' /\ Glue' /\ Answered'
    BY <1>1, <1>3, <1>5, SayingStep
  <2>2. spinning' \in BOOLEAN
    BY <1>3, <1>5, SentType DEF IInv, Wire
  <2> QED BY <1>1, <1>2, <2>1, <2>2 DEF IInv, Types, Stopped
<1>6. CASE UNCHANGED <<toServer, spinning>>
  <2>1. Wire' /\ Glue' /\ Answered'
    BY <1>1, <1>6, QuietStep
  <2> QED BY <1>1, <1>2, <1>6, <2>1 DEF IInv, Types, Stopped
<1> QED BY <1>4, <1>5, <1>6

\* push_out returns.
LEMMA PushedOutStep ==
  ASSUME IInv, PushedOut
  PROVE  IInv'
<1>1. /\ spinning' = FALSE
      /\ UNCHANGED <<at, step, tries, reconnecting, quitting, stopped, registered, joined,
                     pinged_idle, idle, nspass, sasl_ok, nick, half, alive, shut, toServer,
                     toClient, srv, dials>>
  BY DEF PushedOut, loop, link, bounds
<1>2. HasPing(toServer)' <=> HasPing(toServer)
  BY <1>1 DEF HasPing
<1>3. Types'
  BY <1>1 DEF IInv, Types
<1>4. Wire' /\ Glue' /\ Stopped'
  BY <1>1 DEF IInv, Wire, Glue, NoGluedLine, Stopped
<1>5. Answered'
  BY <1>1, <1>2 DEF IInv, Answered
<1> QED BY <1>3, <1>4, <1>5 DEF IInv

\* The pass's look at the link.
LEMMA CheckStep ==
  ASSUME IInv, Check
  PROVE  IInv'
<1> USE SessionAssumption DEF SessionAssumption
<1> PICK ticks \in 0..1 :
      /\ ticks = 1 => idle < DeadAfter
      /\ ticks = 1 /\ Prompt => srv.silent \/ (toServer = <<>> /\ toClient = <<>>)
      /\ \/ Dead(idle + ticks) /\ Redial /\ UNCHANGED spinning
         \/ /\ ~Dead(idle + ticks)
            /\ step' = "key" /\ idle' = idle + ticks
            /\ pinged_idle' = (pinged_idle \/ PingDue(idle + ticks))
            /\ Sent(IF PingDue(idle + ticks) THEN <<Say("PING")>> ELSE <<>>)
            /\ UNCHANGED <<at, tries, reconnecting, joined, refused, alive, shut, toClient, srv>>
  BY DEF Check
<1> DEFINE now == idle + ticks
<1>1. /\ at = "loop"
      /\ UNCHANGED <<nspass, quitting, stopped, registered, sasl_ok, nick, half, dials>>
  BY DEF Check, bounds
<1>2. CASE Redial /\ UNCHANGED spinning
  <2>1. /\ at' = "dialling" /\ tries' = 0 /\ reconnecting' = TRUE /\ step' = "pump"
        /\ idle' = 0 /\ pinged_idle' = FALSE /\ joined' = 0 /\ alive' = FALSE /\ shut' = FALSE
        /\ toServer' = <<>> /\ toClient' = <<>> /\ srv' = NoServer /\ UNCHANGED spinning
    BY <1>2 DEF Redial, Cut
  <2>2. Types'
    <3>1. at' \in Places /\ step' \in {"pump", "check", "key"} /\ at' # "pause"
      BY <2>1 DEF Places
    <3>2. tries' \in 0..4 /\ idle' \in 0..DeadAfter /\ joined' \in 0..Len(Listed)
      BY <2>1, ListType
    <3>3. /\ reconnecting' \in BOOLEAN /\ pinged_idle' \in BOOLEAN
          /\ alive' \in BOOLEAN /\ ~alive' /\ shut' \in BOOLEAN /\ spinning' = spinning
      BY <2>1
    <3> QED BY <1>1, <3>1, <3>2, <3>3 DEF IInv, Types
  <2>3. Wire'
    BY <2>1, NoServerType DEF Wire
  <2>4. Glue' /\ Stopped' /\ Answered'
    BY <1>1, <2>1 DEF IInv, Types, Glue, NoGluedLine, Stopped, Answered
  <2> QED BY <2>2, <2>3, <2>4 DEF IInv
<1>3. CASE /\ ~Dead(now)
           /\ step' = "key" /\ idle' = now
           /\ pinged_idle' = (pinged_idle \/ PingDue(now))
           /\ Sent(IF PingDue(now) THEN <<Say("PING")>> ELSE <<>>)
           /\ UNCHANGED <<at, tries, reconnecting, joined, refused, alive, shut, toClient, srv>>
  <2> DEFINE ps == IF PingDue(now) THEN <<Say("PING")>> ELSE <<>>
  <2>1. now \in 0..DeadAfter /\ now \in Nat /\ pinged_idle' \in BOOLEAN
    <3>1. now \in 0..DeadAfter
      BY DEF IInv, Types
    <3>2. PingDue(now) \in BOOLEAN
      BY DEF PingDue
    <3>3. pinged_idle' \in BOOLEAN
      BY <1>3, <3>2 DEF IInv, Types
    <3> QED BY <3>1, <3>3
  <2>2. ps \in Seq(Message)
    <3>1. <<>> \in Seq(Message) /\ <<Say("PING")>> \in Seq(Message)
      <4>1. Say("PING") \in Message
        BY SayIsMessage DEF Kinds
      <4> QED BY <4>1
    <3>2. ps \in {<<Say("PING")>>, <<>>}
      BY Zenon
    <3> QED BY <3>1, <3>2
  <2>3. Sent(ps)
    BY <1>3
  <2>4. toServer' \in Seq(Message) /\ spinning' \in BOOLEAN
    <3> HIDE DEF ps
    <3> QED BY <2>2, <2>3, SentType DEF IInv, Wire
  <2>5. Types' /\ Wire'
    BY <1>1, <1>3, <2>1, <2>4 DEF IInv, Types, Wire
  <2>6. Glue' /\ Stopped'
    BY <1>1, <1>3 DEF IInv, Glue, NoGluedLine, Stopped
  <2>7. Answered'
    <3>1. at' = "loop"
      BY <1>1, <1>3
    <3> SUFFICES ASSUME Prompt, alive', ~srv'.silent
                 PROVE  /\ now <= PingAfter
                        /\ ~pinged_idle' => now < PingAfter
                        /\ pinged_idle' => toClient' # <<>> \/ HasPing(toServer)'
      BY <1>3, <3>1 DEF Answered
    <3>2. alive /\ ~srv.silent
      BY <1>3
    <3>3. now <= PingAfter /\ (pinged_idle => ticks = 0)
      BY <1>1, <3>2, NeverIdleLong
    <3>4. CASE PingDue(now)
      <4>1. HasPing(ps)
        <5>1. ps = <<Say("PING")>>
          BY <3>4
        <5>2. 1 \in DOMAIN <<Say("PING")>> /\ <<Say("PING")>>[1].m = "PING"
          BY DEF Say, Msg
        <5> QED BY <5>1, <5>2 DEF HasPing
      <4>2. toServer' = toServer \o ps
        BY <2>3, <3>2 DEF Sent
      <4>3. HasPing(toServer')
        <5> HIDE DEF ps
        <5> QED BY <2>2, <4>1, <4>2, PingStays DEF IInv, Wire
      <4>4. pinged_idle'
        BY <1>3, <3>4
      <4> QED BY <3>3, <4>3, <4>4 DEF HasPing
    <3>5. CASE ~PingDue(now)
      <4>1. pinged_idle' = pinged_idle
        BY <1>3, <3>5 DEF IInv, Types
      <4>2. ~pinged_idle => now < PingAfter
        BY <3>5, <2>1 DEF PingDue
      <4>3. ASSUME pinged_idle PROVE toClient' # <<>> \/ HasPing(toServer)'
        <5>1. CASE toClient # <<>>
          BY <5>1, <1>3
        <5>2. CASE HasPing(toServer)
          <6> HIDE DEF ps
          <6>1. toServer' = toServer \o ps
            BY <2>3, <3>2 DEF Sent
          <6>2. HasPing(toServer')
            BY <2>2, <5>2, <6>1, PingStays DEF IInv, Wire
          <6> QED BY <6>2 DEF HasPing
        <5> QED BY <4>3, <5>1, <5>2, <1>1, <3>2 DEF IInv, Answered
      <4> QED BY <3>3, <4>1, <4>2, <4>3
    <3> QED BY <3>4, <3>5
  <2> QED BY <2>5, <2>6, <2>7 DEF IInv
<1> QED BY <1>2, <1>3

\* A line typed, or RUN/STOP.
LEMMA KeyStep ==
  ASSUME IInv, Key \/ Stop
  PROVE  IInv'
<1> USE SessionAssumption DEF SessionAssumption
<1>1. /\ at = "loop" /\ at' \in {"loop", "leaving"} /\ step' \in {"pump", "key"}
      /\ UNCHANGED <<tries, reconnecting, registered, joined, pinged_idle, idle, nspass,
                     sasl_ok, nick, half, alive, shut, toClient, srv, dials>>
  BY DEF Key, Stop, loop, bounds
<1>2. /\ quitting' = quitting \/ (quitting' = TRUE /\ at' = "leaving")
      /\ stopped' = stopped \/ (stopped' = TRUE /\ at' = "leaving")
  BY DEF Key, Stop
<1>3. /\ <<Say("PRIVMSG")>> \in Seq(Message) /\ <<Say("QUIT")>> \in Seq(Message)
      /\ \A n \in Nick : <<Msg("NICK", n, <<>>)>> \in Seq(Message)
      /\ <<>> \in Seq(Message)
  <2>1. Say("PRIVMSG") \in Message /\ Say("QUIT") \in Message
    BY SayIsMessage DEF Kinds
  <2>2. \A n \in Nick : Msg("NICK", n, <<>>) \in Message
    BY NickIsMessage
  <2> QED BY <2>1, <2>2
<1>4. Types' /\ Stopped'
  <2>1. at' \in Places /\ at' \notin {"first", "dialling", "pause", "minute"}
    BY <1>1 DEF Places
  <2>2. quitting' \in BOOLEAN /\ stopped' \in BOOLEAN
    BY <1>2 DEF IInv, Types
  <2>3. spinning' \in BOOLEAN
    <3>1. ASSUME NEW ms, Sent(ms) PROVE spinning' \in BOOLEAN
      BY <3>1 DEF Sent
    <3> QED BY <3>1 DEF Key, Stop, IInv, Types
  <2> QED BY <1>1, <1>2, <2>1, <2>2, <2>3 DEF IInv, Types, Stopped
<1>5. \/ at' = "loop" /\ UNCHANGED toServer
      \/ \E ms \in Seq(Message) : Sent(ms)
  BY <1>1, <1>3 DEF Key, Stop
<1>6. CASE at' = "loop" /\ UNCHANGED toServer
  BY <1>1, <1>4, <1>6, QuietStep DEF IInv
<1>7. CASE \E ms \in Seq(Message) : Sent(ms)
  <2> PICK ms \in Seq(Message) : Sent(ms)
    BY <1>7
  <2> QED BY <1>1, <1>4, SayingStep DEF IInv
<1> QED BY <1>5, <1>6, <1>7

\* The first screen again.
LEMMA LeaveStep ==
  ASSUME IInv, Leave
  PROVE  IInv'
<1>1. /\ at' = "first" /\ alive' = FALSE /\ shut' = FALSE /\ toServer' = <<>>
      /\ toClient' = <<>> /\ srv' = NoServer
      /\ UNCHANGED <<step, registered, joined, pinged_idle, idle, nspass, tries, reconnecting,
                     quitting, stopped, sasl_ok, nick, half, spinning, dials>>
  BY DEF Leave, Cut, loop, bounds
<1>2. Types'
  BY <1>1 DEF IInv, Types, Places
<1>3. Wire' /\ Glue' /\ Stopped' /\ Answered'
  BY <1>1, NoServerType DEF Wire, Glue, NoGluedLine, Stopped, Answered
<1> QED BY <1>2, <1>3 DEF IInv

\* What the server's end becomes, and what it says.
LEMMA ServerType ==
  ASSUME srv \in ServerEnd, NEW m \in Message, NEW answer \in Answers(m)
  PROVE  /\ answer \in Seq(Message)
         /\ m.m = "PING" => answer # <<>>
         /\ Welcomed(After(m, answer)) \in ServerEnd
         /\ Welcomed(After(m, answer)).silent = srv.silent
<1>1. \A x \in Message : <<x>> \in Seq(Message) /\ <<x>> # <<>>
  OBVIOUS
<1>2. /\ Say("CAP ACK") \in Message /\ Say("CAP NAK") \in Message /\ Say("AUTHENTICATE") \in Message
      /\ Say("432") \in Message /\ Say("433") \in Message /\ Say("PONG") \in Message
  BY SayIsMessage DEF Kinds
<1>3. \A o \in Offers : Say(IF o THEN "CAP LS sasl" ELSE "CAP LS") \in Message
  <2>1. Say("CAP LS sasl") \in Message /\ Say("CAP LS") \in Message
    BY SayIsMessage DEF Kinds
  <2> QED BY <2>1
<1>4. \A l \in Logins : Say(l) \in Message
  <2>1. \A l \in Logins : l \in Kinds /\ l \notin {"NICK", "JOIN", "KICK"}
    BY SessionAssumption DEF SessionAssumption, Kinds
  <2> QED BY <2>1, SayIsMessage
<1>5. m.m = "NICK" => Msg("NICK", srv.nick, m.a) \in Message
  BY NickIsMessage DEF Message, ServerEnd
<1>6. answer = <<>> \/ \E x \in Message : answer = <<x>>
  <2>1. CASE m.m = "CAP LS"
    BY <2>1, <1>3 DEF Answers
  <2>2. CASE m.m = "AUTHENTICATE login"
    BY <2>2, <1>4 DEF Answers
  <2>3. CASE m.m = "NICK"
    BY <2>3, <1>2, <1>5 DEF Answers
  <2>4. CASE m.m \notin {"CAP LS", "AUTHENTICATE login", "NICK"}
    BY <2>4, <1>2 DEF Answers
  <2> QED BY <2>1, <2>2, <2>3, <2>4
<1>7. answer \in Seq(Message)
  <2>1. CASE answer = <<>>
    BY <2>1
  <2>2. CASE \E x \in Message : answer = <<x>>
    BY <2>2, <1>1
  <2> QED BY <2>1, <2>2, <1>6
<1>8. ASSUME m.m = "PING" PROVE answer # <<>>
  <2>1. answer = <<Say("PONG")>>
    BY <1>8 DEF Answers
  <2> QED BY <2>1
<1>9. After(m, answer) \in ServerEnd /\ After(m, answer).silent = srv.silent
  <2>1. m.m = "NICK" => m.a \in Seq(Char)
    BY DEF Message
  <2>2. m.m = "JOIN" => m.a \in Channel
    BY DEF Message
  <2>3. CASE m.m \in {"CAP LS", "CAP END", "USER"}
    BY <2>3 DEF After, ServerEnd
  <2>4. CASE m.m = "IDENTIFY"
    BY <2>4 DEF After, ServerEnd
  <2>5. CASE m.m = "AUTHENTICATE login"
    BY <2>5 DEF After, ServerEnd
  <2>6. CASE m.m = "NICK"
    BY <2>1, <2>6 DEF After, ServerEnd
  <2>7. CASE m.m = "JOIN"
    <3>1. After(m, answer) = IF srv.up THEN [srv EXCEPT !.joins[m.a] = @ + 1] ELSE srv
      BY <2>7 DEF After
    <3>2. m.a \in Channel /\ srv.joins \in [Channel -> Nat]
      BY <2>2, <2>7 DEF ServerEnd
    <3>3. [srv.joins EXCEPT ![m.a] = @ + 1] \in [Channel -> Nat]
      BY <3>2
    <3>4. [srv EXCEPT !.joins[m.a] = @ + 1] = [srv EXCEPT !.joins = [srv.joins EXCEPT ![m.a] = @ + 1]]
      BY <3>2 DEF ServerEnd
    <3>5. \A j \in [Channel -> Nat] : LET s == [srv EXCEPT !.joins = j] IN s \in ServerEnd /\ s.silent = srv.silent
      BY DEF ServerEnd
    <3>6. CASE srv.up
      <4> DEFINE j == [srv.joins EXCEPT ![m.a] = @ + 1]
      <4>1. After(m, answer) = [srv EXCEPT !.joins = j]
        BY <3>1, <3>4, <3>6
      <4>2. j \in [Channel -> Nat]
        BY <3>3
      <4> HIDE DEF j
      <4> QED BY <4>1, <4>2, <3>5
    <3>7. CASE ~srv.up
      BY <3>1, <3>7, Zenon
    <3> QED BY <3>6, <3>7
  <2>8. CASE m.m \notin {"CAP LS", "CAP END", "USER", "IDENTIFY", "AUTHENTICATE login", "NICK", "JOIN"}
    BY <2>8 DEF After
  <2> QED BY <2>3, <2>4, <2>5, <2>6, <2>7, <2>8
<1>10. \A s \in ServerEnd : Welcomed(s) \in ServerEnd /\ Welcomed(s).silent = s.silent
  BY DEF Welcomed, ServerEnd
<1> QED BY <1>7, <1>8, <1>9, <1>10

\* The server reads a line and answers it.
LEMMA ServerReadsStep ==
  ASSUME IInv, ServerReads
  PROVE  IInv'
<1> DEFINE m == Head(toServer)
<1>1. /\ toServer # <<>> /\ toServer' = Tail(toServer)
      /\ UNCHANGED <<client, alive, shut, bounds>>
  BY DEF ServerReads
<1> PICK answer \in Answers(m) :
      /\ srv' = Welcomed(After(m, answer))
      /\ toClient' = toClient \o answer \o
                       (IF srv'.up /\ ~srv.up THEN <<Say("001")>> ELSE <<>>)
  BY DEF ServerReads
<1> DEFINE w == IF srv'.up /\ ~srv.up THEN <<Say("001")>> ELSE <<>>
<1>2. toServer \in Seq(Message) /\ toClient \in Seq(Message) /\ srv \in ServerEnd
  BY DEF IInv, Wire
<1>3. m \in Message /\ Tail(toServer) \in Seq(Message)
  BY <1>1, <1>2, ReadType
<1>4. /\ answer \in Seq(Message) /\ (m.m = "PING" => answer # <<>>)
      /\ srv' \in ServerEnd /\ srv'.silent = srv.silent
  BY <1>2, <1>3, ServerType
<1>5. w \in Seq(Message)
  <2>1. Say("001") \in Message
    BY SayIsMessage DEF Kinds
  <2>2. <<Say("001")>> \in Seq(Message) /\ <<>> \in Seq(Message)
    BY <2>1
  <2>3. w \in {<<Say("001")>>, <<>>}
    BY Zenon
  <2> QED BY <2>2, <2>3
<1>6. /\ toClient' = toClient \o answer \o w /\ toClient' \in Seq(Message)
      /\ toClient # <<>> => toClient' # <<>>
      /\ answer # <<>> => toClient' # <<>>
  <2>1. toClient' = toClient \o answer \o w
    OBVIOUS
  <2> HIDE DEF w
  <2>2. /\ toClient \o answer \in Seq(Message)
        /\ toClient # <<>> => toClient \o answer # <<>>
        /\ answer # <<>> => toClient \o answer # <<>>
    BY <1>2, <1>4
  <2>3. \A q, r \in Seq(Message) : q \o r \in Seq(Message) /\ (q # <<>> => q \o r # <<>>)
    OBVIOUS
  <2> QED BY <1>5, <2>1, <2>2, <2>3
<1>7. UNCHANGED <<at, tries, reconnecting, quitting, stopped, step, registered, joined, pinged_idle,
                  idle, nspass, sasl_ok, nick, half, spinning, alive, shut, dials>>
  BY <1>1 DEF client, loop, bounds
<1>8. Types' /\ Glue' /\ Stopped'
  BY <1>7 DEF IInv, Types, Glue, NoGluedLine, Stopped
<1>9. Wire'
  BY <1>1, <1>3, <1>4, <1>6 DEF Wire
<1>10. Answered'
  <2>1. ASSUME HasPing(toServer) PROVE toClient' # <<>> \/ HasPing(toServer)'
    <3>1. CASE m.m = "PING"
      BY <3>1, <1>4, <1>6
    <3>2. CASE m.m # "PING"
      <4>1. HasPing(Tail(toServer))
        BY <2>1, <3>2, <1>1, <1>2, PingBehind
      <4> QED BY <4>1, <1>1 DEF HasPing
    <3> QED BY <3>1, <3>2
  <2> QED BY <2>1, <1>4, <1>6, <1>7 DEF IInv, Answered
<1> QED BY <1>8, <1>9, <1>10 DEF IInv

\* Lines unasked, the window, and the link lost or silent.
LEMMA OutsideStep ==
  ASSUME IInv, ServerSays \/ Stall \/ Resume \/ Drop \/ GoSilent
  PROVE  IInv'
<1>1. UNCHANGED <<at, tries, reconnecting, quitting, stopped, step, registered, joined, pinged_idle,
                  idle, nspass, sasl_ok, nick, half, spinning, dials>>
  BY DEF ServerSays, Stall, Resume, Drop, GoSilent, client, loop, bounds
<1>2. CASE ServerSays
  <2>1. \E m \in Message : toClient' = Append(toClient, m)
    <3>1. \A n \in InUse : Msg("NICK", n, n) \in Message
      BY NickIsMessage, SessionAssumption DEF SessionAssumption
    <3>2. Say("PING") \in Message /\ Say("PRIVMSG") \in Message
      BY SayIsMessage DEF Kinds
    <3>3. \A c \in Channel : Msg("KICK", c, <<>>) \in Message
      BY ChannelIsMessage
    <3>4. \A who \in Person : Msg("PRIVMSG", who, <<>>) \in Message
      BY NickIsMessage
    <3> QED BY <1>2, <3>1, <3>2, <3>3, <3>4 DEF ServerSays
  <2> PICK m \in Message : toClient' = Append(toClient, m)
    BY <2>1
  <2>3. toClient' \in Seq(Message) /\ toClient' # <<>>
    BY DEF IInv, Wire
  <2>4. UNCHANGED <<alive, shut, toServer, srv>>
    BY <1>2 DEF ServerSays
  <2>5. Types' /\ Wire' /\ Glue' /\ Stopped'
    BY <1>1, <2>3, <2>4 DEF IInv, Types, Wire, Glue, NoGluedLine, Stopped
  <2>6. Answered'
    BY <1>1, <2>3, <2>4 DEF IInv, Answered
  <2> QED BY <2>5, <2>6 DEF IInv
<1>3. CASE Drop
  <2>1. /\ alive' = FALSE /\ shut' = FALSE /\ toServer' = <<>> /\ srv' = NoServer
        /\ toClient' = toClient
    BY <1>3 DEF Drop
  <2>2. Types'
    BY <1>1, <2>1 DEF IInv, Types
  <2>3. Wire' /\ Glue' /\ Stopped' /\ Answered'
    BY <1>1, <2>1, NoServerType DEF IInv, Wire, Glue, NoGluedLine, Stopped, Answered
  <2> QED BY <2>2, <2>3 DEF IInv
<1>4. CASE GoSilent
  <2>1. UNCHANGED <<alive, shut, toServer, toClient>> /\ srv' = [srv EXCEPT !.silent = TRUE]
    BY <1>4 DEF GoSilent, link
  <2>2. srv' \in ServerEnd /\ srv'.silent
    BY <2>1 DEF IInv, Wire, ServerEnd
  <2>3. Types'
    BY <1>1, <2>1 DEF IInv, Types
  <2>4. Wire' /\ Glue' /\ Stopped' /\ Answered'
    BY <1>1, <2>1, <2>2 DEF IInv, Wire, Glue, NoGluedLine, Stopped, Answered
  <2> QED BY <2>3, <2>4 DEF IInv
<1>5. CASE Stall \/ Resume
  <2>1. UNCHANGED <<alive, toServer, toClient, srv>> /\ shut' \in BOOLEAN
    BY <1>5 DEF Stall, Resume
  <2>2. HasPing(toServer)' <=> HasPing(toServer)
    BY <2>1 DEF HasPing
  <2> QED BY <1>1, <2>1, <2>2 DEF IInv, Types, Wire, Glue, NoGluedLine, Stopped, Answered
<1> QED BY <1>2, <1>3, <1>4, <1>5

-----------------------------------------------------------------------------
(* The theorems *)

\* The invariant holds at the start.
LEMMA InitInv == Init => IInv
<1> SUFFICES ASSUME Init PROVE IInv
  OBVIOUS
<1> USE SessionAssumption DEF SessionAssumption
<1>1. Types
  <2>1. tries \in 0..4 /\ idle \in 0..DeadAfter /\ nick \in Nicks /\ joined \in 0..Len(Listed)
    <3>1. \A n \in Wanted : n \in Nicks
      BY DEF Nicks
    <3> QED BY <3>1, ListType DEF Init
  <2>2. dials \in 0..MaxDials /\ half \in 0..MaxDials
    BY DEF Init
  <2>3. /\ reconnecting \in BOOLEAN /\ quitting \in BOOLEAN /\ registered \in BOOLEAN
        /\ stopped \in BOOLEAN /\ spinning \in BOOLEAN /\ shut \in BOOLEAN
        /\ pinged_idle \in BOOLEAN /\ nspass \in BOOLEAN
        /\ sasl_ok \in BOOLEAN /\ alive \in BOOLEAN
    BY DEF Init
  <2>4. at \in Places /\ step \in {"pump", "check", "key"} /\ ~alive /\ at # "pause"
    BY DEF Init, Places
  <2> QED BY <2>1, <2>2, <2>3, <2>4 DEF Types
<1>2. Wire /\ Glue /\ Stopped /\ Answered
  BY NoServerType DEF Init, Wire, Glue, NoGluedLine, Stopped, Answered
<1> QED BY <1>1, <1>2 DEF IInv

\* Every step keeps it.
LEMMA StepInv == IInv /\ [Next]_vars => IInv'
<1> SUFFICES ASSUME IInv, [Next]_vars PROVE IInv'
  OBVIOUS
<1>1. CASE UNCHANGED vars
  <2>1. UNCHANGED <<at, tries, reconnecting, quitting, stopped, step, registered, joined,
                    pinged_idle, idle, nspass, sasl_ok, nick, half, spinning, alive, shut,
                    toServer, toClient, srv, dials>>
    BY <1>1 DEF vars, client, loop, link, bounds
  <2>2. Types' /\ Wire' /\ Glue' /\ Stopped'
    BY <2>1 DEF IInv, Types, Wire, Glue, NoGluedLine, Stopped
  <2>3. Answered'
    BY <2>1 DEF IInv, Answered, HasPing
  <2> QED BY <2>2, <2>3 DEF IInv
<1> QED BY <1>1, FirstStep, DialStep, WaitStep, PumpStep, JoinStep, PushedOutStep, CheckStep, KeyStep,
           LeaveStep, ServerReadsStep, OutsideStep DEF Next, Loop

\* The views there are: of channels and people, and no more than ViewMax.
Windows ==
  /\ views \subseteq Channel \cup Person /\ refused \subseteq Channel
  /\ IsFiniteSet(views) /\ Cardinality(views) <= ViewMax

\* view_for, view_open and view_close keep to the views there are.
LEMMA ViewsFit ==
  ASSUME Windows, NEW name \in Channel \cup Person
  PROVE  /\ WithView(name) \subseteq Channel \cup Person /\ IsFiniteSet(WithView(name))
         /\ Cardinality(WithView(name)) <= ViewMax
         /\ IsFiniteSet(views \ {name}) /\ Cardinality(views \ {name}) <= ViewMax
<1>1. Cardinality(views) \in Nat /\ ViewMax \in Nat
  BY FS_CardinalityType, SessionAssumption DEF Windows, SessionAssumption
<1>2. /\ IsFiniteSet(views \cup {name})
      /\ Cardinality(views \cup {name}) =
           IF name \in views THEN Cardinality(views) ELSE Cardinality(views) + 1
  BY FS_AddElement DEF Windows
<1>3. /\ IsFiniteSet(views \ {name})
      /\ Cardinality(views \ {name}) =
           IF name \in views THEN Cardinality(views) - 1 ELSE Cardinality(views)
  BY FS_RemoveElement DEF Windows
<1> QED BY <1>1, <1>2, <1>3 DEF Windows, WithView

\* Every step keeps to them.
LEMMA WindowsStep == IInv /\ Windows /\ [Next]_vars => Windows'
<1> SUFFICES ASSUME IInv, Windows, [Next]_vars PROVE Windows'
  OBVIOUS
<1>1. CASE UNCHANGED windows
  BY <1>1 DEF windows, Windows
<1>2. CASE session
  BY <1>2, FS_EmptySet, SessionAssumption DEF session, Windows, SessionAssumption
<1>3. CASE Pump
  <2>1. refused' = refused
    BY <1>3 DEF Pump
  <2>2. CASE UNCHANGED views
    BY <2>1, <2>2 DEF Windows
  <2>3. CASE toClient # <<>> /\ views' = ViewsAfter(Head(toClient))
    <3> DEFINE m == Head(toClient)
    <3>1. m \in Message
      BY <2>3, ReadType DEF IInv, Wire
    <3>2. \/ m.a \in Person /\ views' = WithView(m.a)
          \/ m.a \in Channel /\ views' = views \ {m.a}
          \/ views' = views
      BY <2>3, <3>1 DEF ViewsAfter, Message
    <3> HIDE DEF m
    <3> QED BY <2>1, <3>2, ViewsFit DEF Windows
  <2> QED BY <1>3, <2>2, <2>3 DEF Pump, handle_line
<1>4. CASE Join
  <2>1. Listed[joined + 1] \in Channel
    BY <1>4, ListType DEF Join, IInv, Types
  <2>2. views' = WithView(Listed[joined + 1])
    BY <1>4 DEF Join
  <2>3. refused' \subseteq Channel
    BY <1>4, <2>1 DEF Join, Windows
  <2> QED BY <2>1, <2>2, <2>3, ViewsFit DEF Windows
<1>5. CASE Check
  <2>1. views' = views /\ (refused' = refused \/ refused' = {})
    BY <1>5 DEF Check, Redial
  <2> QED BY <2>1 DEF Windows
<1>6. CASE Key
  <2>1. refused' = refused
    BY <1>6 DEF Key
  <2>2. views' = views \/ \E who \in Person : views' \in {WithView(who), views \ {who}}
    BY <1>6 DEF Key
  <2> QED BY <2>1, <2>2, ViewsFit DEF Windows
<1>7. CASE Dial \/ Pause \/ Minute \/ PushedOut \/ Stop \/ Leave
  BY <1>1, <1>7 DEF Dial, Pause, Minute, PushedOut, Stop, Leave
<1>8. CASE ServerReads \/ ServerSays \/ Stall \/ Resume \/ Drop \/ GoSilent
  BY <1>1, <1>8 DEF ServerReads, ServerSays, Stall, Resume, Drop, GoSilent, client
<1>9. CASE UNCHANGED vars
  BY <1>1, <1>9 DEF vars, client
<1> QED BY <1>2, <1>3, <1>4, <1>5, <1>6, <1>7, <1>8, <1>9 DEF Next, Loop

\* TypeOK follows from its parts.
LEMMA InvTypes == IInv /\ Windows => TypeOK
<1> SUFFICES ASSUME IInv, Windows PROVE TypeOK
  OBVIOUS
<1>1. /\ reconnecting \in BOOLEAN /\ quitting \in BOOLEAN /\ stopped \in BOOLEAN
      /\ registered \in BOOLEAN /\ pinged_idle \in BOOLEAN /\ nspass \in BOOLEAN
      /\ sasl_ok \in BOOLEAN /\ spinning \in BOOLEAN /\ alive \in BOOLEAN /\ shut \in BOOLEAN
  BY DEF IInv, Types
<1>2. {reconnecting, quitting, stopped, registered, pinged_idle, nspass, sasl_ok, spinning, alive,
       shut} \subseteq BOOLEAN
  BY <1>1, Zenon
<1>3. /\ at \in Places /\ step \in {"pump", "check", "key"} /\ tries \in 0..4
      /\ joined \in 0..Len(Listed) /\ idle \in 0..DeadAfter /\ half \in 0..MaxDials
      /\ nick \in Seq(Char) /\ Len(nick) <= NickCap
      /\ at \in {"first", "dialling", "pause", "minute"} => ~alive
  BY DEF IInv, Types, Nicks
<1>4. /\ views \subseteq Channel \cup Person /\ Cardinality(views) <= ViewMax
      /\ refused \subseteq Channel
  BY DEF Windows
<1> QED BY <1>2, <1>3, <1>4, Zenon DEF TypeOK

\* The invariant is one of the specification.
LEMMA Invariant == Spec => []IInv
  BY InitInv, StepInv, PTL DEF Spec

\* Every variable of the session keeps its type: the nick fits its array and the
\* views those there are, and the link is up only in the loop and on the way out
\* (ircc.c: session, connect_and_register, handle_line, join).
THEOREM SessionTypes == Spec => []TypeOK
<1>1. Init => Windows
  BY FS_EmptySet, SessionAssumption DEF Init, Windows, SessionAssumption
<1> QED BY <1>1, Invariant, WindowsStep, InvTypes, PTL DEF Spec

\* The line being read never mixes the bytes of two connections (ircc.c:
\* connect_and_register empties the buffer), however connections begin and end.
THEOREM LinesAreNotGlued == Spec => []NoGluedLine
<1>1. IInv => NoGluedLine
  BY DEF IInv, Glue
<1> QED BY <1>1, Invariant, PTL

\* RUN/STOP read in the handshake, the pause, the minute or the loop, or /quit:
\* this session goes out to the first screen and dials no more (ircc.c).
THEOREM StopIsForGood == Spec => StopIsFinal
<1>1. IInv /\ [Next]_vars =>
        [quitting \/ stopped => dials' = dials /\ (at = "first" \/ at' \in {"leaving", "first"})]_vars
  <2> SUFFICES ASSUME IInv, Next, quitting \/ stopped
               PROVE  dials' = dials /\ (at = "first" \/ at' \in {"leaving", "first"})
    OBVIOUS
  <2>1. at \in {"first", "leaving"}
    BY DEF IInv, Stopped
  <2>2. ~Dial /\ ~Pause /\ ~Minute /\ ~Pump /\ ~Join /\ ~Check /\ ~Key /\ ~Stop
    BY <2>1 DEF Dial, Pause, Minute, Pump, Join, Check, Key, Stop
  <2>3. CASE session \/ Leave
    BY <2>1, <2>3 DEF session, Leave, bounds
  <2>4. CASE PushedOut \/ ServerReads \/ ServerSays \/ Stall \/ Resume \/ Drop \/ GoSilent
    BY <2>1, <2>4 DEF PushedOut, ServerReads, ServerSays, Stall, Resume, Drop, GoSilent, bounds, client
  <2> QED BY <2>2, <2>3, <2>4 DEF Next, Loop
<1> QED BY <1>1, Invariant, PTL DEF Spec, StopIsFinal

\* A server that answers within a tick is never redialled for its silence
\* (ircc.c: IDLE_PING_S, DEAD_S), whatever the two times.
THEOREM AnsweringLinkIsKept == Spec => LiveLinkKept
<1>1. IInv /\ [Next]_vars =>
        [Prompt /\ at = "loop" /\ at' = "dialling" => ~alive \/ srv.silent]_vars
  <2> SUFFICES ASSUME IInv, Next, Prompt, at = "loop", at' = "dialling", alive, ~srv.silent
               PROVE  FALSE
    BY DEF IInv, Types, Wire, ServerEnd
  <2>1. Check
    BY DEF Next, Loop, session, Dial, Pause, Minute, Pump, Join, Key, PushedOut, Stop, Leave,
           ServerReads, ServerSays, Stall, Resume, Drop, GoSilent, client
  <2> PICK ticks \in 0..1 :
        /\ ticks = 1 /\ Prompt => srv.silent \/ (toServer = <<>> /\ toClient = <<>>)
        /\ Dead(idle + ticks)
    BY <2>1 DEF Check
  <2>2. idle + ticks <= PingAfter
    BY NeverIdleLong
  <2>3. idle + ticks >= DeadAfter
    BY DEF Dead
  <2> QED BY <2>2, <2>3, SessionAssumption DEF SessionAssumption, IInv, Types
<1> QED BY <1>1, Invariant, PTL DEF Spec, LiveLinkKept

-----------------------------------------------------------------------------
(* Queues *)

\* The messages of some kinds; none of them is in the queue; just one is.
Of(S) == {x \in Message : x.m \in S}
None(q, M) == \A i \in DOMAIN q : q[i] \notin M
One(q, M) == \E i \in DOMAIN q : q[i] \in M /\ \A j \in DOMAIN q : q[j] \in M => j = i

\* What is in two queues is in the one after the other.
LEMMA JoinedQueues ==
  ASSUME NEW q \in Seq(Message), NEW r \in Seq(Message), NEW M
  PROVE  /\ q \o r \in Seq(Message)
         /\ None(q \o r, M) <=> None(q, M) /\ None(r, M)
         /\ One(q, M) /\ None(r, M) => One(q \o r, M)
         /\ None(q, M) /\ One(r, M) => One(q \o r, M)
<1> DEFINE s == q \o r
<1>1. /\ s \in Seq(Message) /\ Len(s) = Len(q) + Len(r) /\ Len(q) \in Nat /\ Len(r) \in Nat
      /\ DOMAIN s = 1..Len(s) /\ DOMAIN q = 1..Len(q) /\ DOMAIN r = 1..Len(r)
      /\ \A i \in 1..Len(q) : s[i] = q[i]
      /\ \A i \in 1..Len(r) : s[Len(q) + i] = r[i]
  OBVIOUS
<1> HIDE DEF s
<1>2. \A i \in DOMAIN s : i \in DOMAIN q \/ (i - Len(q) \in DOMAIN r /\ i = Len(q) + (i - Len(q)))
  BY <1>1
<1>3. None(s, M) <=> None(q, M) /\ None(r, M)
  <2>1. ASSUME None(s, M) PROVE None(q, M) /\ None(r, M)
    <3>1. \A i \in DOMAIN q : i \in DOMAIN s
      BY <1>1
    <3>2. \A i \in DOMAIN r : Len(q) + i \in DOMAIN s
      BY <1>1
    <3> QED BY <1>1, <2>1, <3>1, <3>2 DEF None
  <2>2. ASSUME None(q, M), None(r, M) PROVE None(s, M)
    BY <1>1, <1>2, <2>2 DEF None
  <2> QED BY <2>1, <2>2
<1>4. ASSUME One(q, M), None(r, M) PROVE One(s, M)
  <2> PICK i \in DOMAIN q : q[i] \in M /\ \A j \in DOMAIN q : q[j] \in M => j = i
    BY <1>4 DEF One
  <2>1. i \in DOMAIN s /\ s[i] \in M
    BY <1>1
  <2>2. ASSUME NEW j \in DOMAIN s, s[j] \in M PROVE j = i
    <3>1. CASE j \in DOMAIN q
      BY <1>1, <2>2, <3>1
    <3>2. CASE j - Len(q) \in DOMAIN r /\ j = Len(q) + (j - Len(q))
      BY <1>1, <1>4, <2>2, <3>2 DEF None
    <3> QED BY <1>2, <3>1, <3>2
  <2> QED BY <2>1, <2>2 DEF One
<1>5. ASSUME None(q, M), One(r, M) PROVE One(s, M)
  <2> PICK i \in DOMAIN r : r[i] \in M /\ \A j \in DOMAIN r : r[j] \in M => j = i
    BY <1>5 DEF One
  <2>1. Len(q) + i \in DOMAIN s /\ s[Len(q) + i] \in M
    BY <1>1
  <2>2. ASSUME NEW j \in DOMAIN s, s[j] \in M PROVE j = Len(q) + i
    <3>1. CASE j \in DOMAIN q
      BY <1>1, <1>5, <2>2, <3>1 DEF None
    <3>2. CASE j - Len(q) \in DOMAIN r /\ j = Len(q) + (j - Len(q))
      <4>1. r[j - Len(q)] \in M
        BY <1>1, <2>2, <3>2
      <4> QED BY <1>1, <3>2, <4>1
    <3> QED BY <1>2, <3>1, <3>2
  <2> QED BY <2>1, <2>2 DEF One
<1> QED BY <1>1, <1>3, <1>4, <1>5 DEF s

\* What is in a queue once its head is read.
LEMMA ReadQueue ==
  ASSUME NEW q \in Seq(Message), q # <<>>, NEW M
  PROVE  /\ Head(q) \in Message /\ Tail(q) \in Seq(Message)
         /\ None(q, M) => Head(q) \notin M /\ None(Tail(q), M)
         /\ Head(q) \notin M /\ None(Tail(q), M) => None(q, M)
         /\ One(q, M) /\ Head(q) \in M => None(Tail(q), M)
         /\ One(q, M) /\ Head(q) \notin M => One(Tail(q), M)
<1> DEFINE t == Tail(q)
<1>1. /\ t \in Seq(Message) /\ Len(t) = Len(q) - 1 /\ Len(q) \in Nat /\ Len(q) >= 1
      /\ DOMAIN t = 1..Len(t) /\ DOMAIN q = 1..Len(q)
      /\ \A i \in 1..Len(t) : t[i] = q[i + 1]
      /\ Head(q) = q[1] /\ Head(q) \in Message
  OBVIOUS
<1> HIDE DEF t
<1>2. \A i \in DOMAIN t : i + 1 \in DOMAIN q
  BY <1>1
<1>3. \A i \in DOMAIN q : i = 1 \/ (i - 1 \in DOMAIN t /\ t[i - 1] = q[i])
  BY <1>1
<1>4. None(q, M) => Head(q) \notin M /\ None(t, M)
  BY <1>1, <1>2 DEF None
<1>5. Head(q) \notin M /\ None(t, M) => None(q, M)
  BY <1>1, <1>3 DEF None
<1>6. ASSUME One(q, M), Head(q) \in M PROVE None(t, M)
  <2> SUFFICES ASSUME NEW i \in DOMAIN t, t[i] \in M PROVE FALSE
    BY DEF None
  <2>1. i + 1 \in DOMAIN q /\ q[i + 1] \in M /\ 1 \in DOMAIN q /\ q[1] \in M /\ i + 1 # 1
    BY <1>1, <1>2, <1>6
  <2> QED BY <1>6, <2>1 DEF One
<1>7. ASSUME One(q, M), Head(q) \notin M PROVE One(t, M)
  <2> PICK i \in DOMAIN q : q[i] \in M /\ \A j \in DOMAIN q : q[j] \in M => j = i
    BY <1>7 DEF One
  <2>1. i # 1 /\ i - 1 \in DOMAIN t /\ t[i - 1] \in M
    BY <1>1, <1>3, <1>7
  <2>2. ASSUME NEW j \in DOMAIN t, t[j] \in M PROVE j = i - 1
    <3>1. j + 1 = i
      BY <1>1, <1>2, <2>2
    <3> QED BY <1>1, <3>1
  <2> QED BY <2>1, <2>2 DEF One
<1> QED BY <1>1, <1>4, <1>5, <1>6, <1>7 DEF t

\* A queue of one message, or of none.
LEMMA ShortQueue ==
  ASSUME NEW M
  PROVE  /\ None(<<>>, M)
         /\ \A x \in Message : /\ <<x>> \in Seq(Message)
                               /\ None(<<x>>, M) <=> x \notin M
                               /\ One(<<x>>, M) <=> x \in M
<1>1. None(<<>>, M)
  BY DEF None
<1>2. ASSUME NEW x \in Message
      PROVE  /\ <<x>> \in Seq(Message)
             /\ None(<<x>>, M) <=> x \notin M
             /\ One(<<x>>, M) <=> x \in M
  <2>1. DOMAIN <<x>> = {1} /\ <<x>>[1] = x /\ <<x>> \in Seq(Message)
    OBVIOUS
  <2> QED BY <2>1 DEF None, One
<1> QED BY <1>1, <1>2

\* Where one is there is not none; and none of some are none of fewer.
LEMMA OneIsSome ==
  ASSUME NEW q, NEW M
  PROVE  /\ One(q, M) => ~None(q, M) /\ q # <<>>
         /\ \A N \in SUBSET M : None(q, M) => None(q, N)
<1>1. One(q, M) => ~None(q, M)
  BY DEF One, None
<1>2. None(<<>>, M)
  BY DEF None
<1>3. \A N \in SUBSET M : None(q, M) => None(q, N)
  BY DEF None
<1> QED BY <1>1, <1>2, <1>3

\* Which is a message's kind.
LEMMA KindOf ==
  ASSUME NEW x \in Message, NEW S
  PROVE  x \in Of(S) <=> x.m \in S
  BY DEF Of

\* A queue of two.
LEMMA PairQueue ==
  ASSUME NEW x \in Message, NEW y \in Message, NEW M
  PROVE  /\ <<x, y>> \in Seq(Message)
         /\ None(<<x, y>>, M) <=> x \notin M /\ y \notin M
         /\ x \in M /\ y \notin M => One(<<x, y>>, M)
         /\ x \notin M /\ y \in M => One(<<x, y>>, M)
<1> DEFINE q == <<x, y>>
<1>1. q \in Seq(Message) /\ DOMAIN q = {1, 2} /\ q[1] = x /\ q[2] = y
  OBVIOUS
<1> HIDE DEF q
<1>2. None(q, M) <=> x \notin M /\ y \notin M
  BY <1>1 DEF None
<1>3. x \in M /\ y \notin M => One(q, M)
  BY <1>1 DEF One
<1>4. x \notin M /\ y \in M => One(q, M)
  BY <1>1 DEF One
<1> QED BY <1>1, <1>2, <1>3, <1>4 DEF q

\* What a connection opens with.
LEMMA Greets ==
  ASSUME nick \in Nicks, NEW M
  PROVE  LET c == Say("CAP LS")
             n == Msg("NICK", nick, <<>>)
             u == Say("USER")
         IN  /\ c \in Message /\ n \in Message /\ u \in Message
             /\ c.m = "CAP LS" /\ n.m = "NICK" /\ u.m = "USER"
             /\ (nspass => c \notin M) /\ n \notin M /\ u \notin M => None(Greeting, M)
             /\ (nspass => c \notin M) /\ n \in M /\ u \notin M => One(Greeting, M)
             /\ nspass /\ c \in M /\ n \notin M /\ u \notin M => One(Greeting, M)
             /\ None(Greeting, M) => n \notin M /\ u \notin M
             /\ Greeting \in Seq(Message) /\ (nspass => Head(Greeting) = c)
<1> DEFINE c == Say("CAP LS")
           n == Msg("NICK", nick, <<>>)
           u == Say("USER")
           r == <<n, u>>
<1>1. /\ c \in Message /\ n \in Message /\ u \in Message
      /\ c.m = "CAP LS" /\ n.m = "NICK" /\ u.m = "USER"
  <2>1. c \in Message /\ u \in Message
    BY SayIsMessage DEF Kinds
  <2>2. n \in Message
    BY NickIsMessage DEF Nicks
  <2> QED BY <2>1, <2>2 DEF Say, Msg
<1> SUFFICES /\ (nspass => c \notin M) /\ n \notin M /\ u \notin M => None(Greeting, M)
             /\ (nspass => c \notin M) /\ n \in M /\ u \notin M => One(Greeting, M)
             /\ nspass /\ c \in M /\ n \notin M /\ u \notin M => One(Greeting, M)
             /\ None(Greeting, M) => n \notin M /\ u \notin M
             /\ Greeting \in Seq(Message) /\ (nspass => Head(Greeting) = c)
  BY <1>1
<1> HIDE DEF c, n, u
<1>2. /\ r \in Seq(Message)
      /\ None(r, M) <=> n \notin M /\ u \notin M
      /\ n \in M /\ u \notin M => One(r, M)
  BY <1>1, PairQueue
<1> HIDE DEF r
<1>3. CASE nspass
  <2>1. Greeting = <<c>> \o r
    BY <1>3, Zenon DEF Greeting, c, n, u, r
  <2>2. <<c>> \in Seq(Message) /\ (None(<<c>>, M) <=> c \notin M) /\ (One(<<c>>, M) <=> c \in M)
    BY <1>1, ShortQueue
  <2>3. Head(<<c>> \o r) = c
    <3>1. \A p, q \in Seq(Message) : p # <<>> => Head(p \o q) = Head(p)
      OBVIOUS
    <3>2. <<c>> # <<>> /\ Head(<<c>>) = c
      OBVIOUS
    <3> QED BY <1>2, <2>2, <3>1, <3>2
  <2>4. /\ Greeting \in Seq(Message)
        /\ None(Greeting, M) <=> None(<<c>>, M) /\ None(r, M)
        /\ One(<<c>>, M) /\ None(r, M) => One(Greeting, M)
        /\ None(<<c>>, M) /\ One(r, M) => One(Greeting, M)
    <3> PICK g \in Seq(Message) : g = <<c>>
      BY <2>2
    <3> QED BY <1>2, <2>1, JoinedQueues
  <2> QED BY <1>2, <1>3, <2>1, <2>2, <2>3, <2>4
<1>4. CASE ~nspass
  <2>1. Greeting = <<>> \o r
    BY <1>4, Zenon DEF Greeting, n, u, r
  <2>2. <<>> \o r = r
    BY <1>2
  <2> QED BY <1>2, <1>4, <2>1, <2>2
<1> QED BY <1>3, <1>4

-----------------------------------------------------------------------------
(* The steps, as what they say *)

\* Before the first line of a connection nothing is left of the one before.
Before ==
  /\ at \in {"dialling", "pause", "minute"} => joined = 0 /\ refused = {}
  /\ at = "pause" => ~registered
  /\ at = "dialling" /\ tries > 0 => ~registered

\* A client that was welcomed has been through its channels when it looks for a
\* key.
Through == at = "loop" /\ step = "key" /\ registered => joined = Len(Listed)

\* The welcome, and changes of nick, are told only once it was given.
Heralds ==
  /\ registered => srv.up
  /\ ~srv.up => None(toClient, Of({"001", "NICK"}))

AInv == IInv /\ Before /\ Through /\ (alive => Heralds)

\* A new connection.
Opens ==
  /\ toServer' = Greeting /\ toClient' = <<>> /\ srv' = NoServer
  /\ ~registered' /\ sasl_ok' = FALSE /\ joined' = 0 /\ refused' = {}
  /\ UNCHANGED <<nspass, nick>>

\* The client reads a line and answers it.
ClientReads(m) ==
  /\ toClient # <<>> /\ m = Head(toClient) /\ toClient' = Tail(toClient)
  /\ toServer' = toServer \o Reply(m)
  /\ registered' = (registered \/ m.m = "001")
  /\ sasl_ok' = (sasl_ok \/ m.m = "903")
  /\ nick' = NickAfter(m)
  /\ UNCHANGED <<srv, nspass, joined, refused>>

\* The client says something on its own account: what no answer hangs on, or a
\* nick.
Chat == Of({"PRIVMSG", "QUIT", "PING"})
Renames == {Msg("NICK", n, <<>>) : n \in Nick}
MayRename == registered \/ "early nick" \in Typed
ClientSays(r) ==
  /\ r \in {<<>>} \cup {<<x>> : x \in Chat} \cup (IF MayRename THEN {<<x>> : x \in Renames} ELSE {})
  /\ toServer' = toServer \o r
  /\ UNCHANGED <<toClient, srv, registered, sasl_ok, nick, nspass, joined, refused>>

\* The client comes to the next channel: asked for, or no view is free.
ClientJoins ==
  /\ registered /\ joined < Len(Listed)
  /\ joined' = joined + 1
  /\ \/ /\ toServer' = toServer \o <<Msg("JOIN", Listed[joined + 1], <<>>)>>
        /\ refused' = refused
     \/ /\ toServer' = toServer
        /\ refused' = refused \cup {Listed[joined + 1]}
  /\ UNCHANGED <<toClient, srv, registered, sasl_ok, nick, nspass>>

\* The server reads a line, answers it, and may welcome the client.
ServerHears(m, answer) ==
  /\ toServer # <<>> /\ m = Head(toServer) /\ toServer' = Tail(toServer)
  /\ answer \in Answers(m)
  /\ srv' = Welcomed(After(m, answer))
  /\ toClient' = toClient \o (answer \o (IF srv'.up /\ ~srv.up THEN <<Say("001")>> ELSE <<>>))
  /\ UNCHANGED <<registered, sasl_ok, nick, nspass, joined, refused>>

\* The server says something unasked, or falls silent.
Unasked == Of({"PING", "PRIVMSG", "KICK"}) \cup {Msg("NICK", n, n) : n \in InUse}
ServerTalks(r) ==
  /\ r \in {<<>>} \cup {<<x>> : x \in Unasked}
  /\ r # <<>> => srv.up
  /\ toClient' = toClient \o r
  /\ \/ srv' = srv
     \/ srv' = [srv EXCEPT !.silent = TRUE]
  /\ UNCHANGED <<toServer, registered, sasl_ok, nick, nspass, joined, refused>>

\* The six things that happen to a connection.
Said ==
  \/ Opens
  \/ alive /\ \E m \in Message : ClientReads(m)
  \/ alive /\ \E r \in Seq(Message) : ClientSays(r)
  \/ alive /\ ClientJoins
  \/ alive /\ \E m \in Message, answer \in Seq(Message) : ServerHears(m, answer)
  \/ alive /\ \E r \in Seq(Message) : ServerTalks(r)

\* Nothing said is a queue of nothing.
LEMMA NothingSaid ==
  ASSUME IInv
  PROVE  /\ <<>> \in Seq(Message)
         /\ toServer \o <<>> = toServer /\ toClient \o <<>> = toClient
  BY DEF IInv, Wire

\* What the client says of its own.
LEMMA OwnWords ==
  /\ Say("PRIVMSG") \in Chat /\ Say("QUIT") \in Chat /\ Say("PING") \in Chat
  /\ \A x \in Chat \cup Renames : x \in Message /\ <<x>> \in Seq(Message)
<1>1. Say("PRIVMSG") \in Message /\ Say("QUIT") \in Message /\ Say("PING") \in Message
  BY SayIsMessage DEF Kinds
<1>2. Say("PRIVMSG") \in Chat /\ Say("QUIT") \in Chat /\ Say("PING") \in Chat
  BY <1>1 DEF Chat, Of, Say, Msg
<1>3. \A n \in Nick : Msg("NICK", n, <<>>) \in Message
  BY NickIsMessage, SessionAssumption DEF SessionAssumption
<1>4. \A x \in Chat \cup Renames : x \in Message
  BY <1>3 DEF Chat, Of, Renames
<1> QED BY <1>2, <1>4

\* conn_send on a link that is up.
LEMMA PumpSays ==
  ASSUME AInv, Pump, alive'
  PROVE  Said
<1>1. alive /\ UNCHANGED <<srv, nspass, joined, refused>>
  BY DEF Pump
<1>2. CASE UNCHANGED <<registered, sasl_ok, nick, half, views, spinning, idle, pinged_idle, toServer,
                       toClient>>
  <2>1. ServerTalks(<<>>)
    BY <1>1, <1>2, NothingSaid DEF ServerTalks, AInv
  <2> QED BY <1>1, <2>1, NothingSaid DEF Said, AInv
<1>3. CASE UNCHANGED <<registered, sasl_ok, nick, views, spinning, toServer, toClient>>
  <2>1. ServerTalks(<<>>)
    BY <1>1, <1>3, NothingSaid DEF ServerTalks, AInv
  <2> QED BY <1>1, <2>1, NothingSaid DEF Said, AInv
<1>4. CASE toClient # <<>> /\ toClient' = Tail(toClient) /\ handle_line(Head(toClient))
  <2>1. Head(toClient) \in Message
    BY <1>4, ReadType DEF AInv, IInv, Wire
  <2>2. ClientReads(Head(toClient))
    BY <1>1, <1>4 DEF ClientReads, handle_line, Sent
  <2> QED BY <1>1, <2>1, <2>2 DEF Said
<1> QED BY <1>2, <1>3, <1>4 DEF Pump

\* A channel of the list.
LEMMA JoinSays ==
  ASSUME AInv, Join, alive'
  PROVE  Said
<1>1. /\ alive /\ registered /\ joined < Len(Listed) /\ joined' = joined + 1
      /\ UNCHANGED <<toClient, srv, registered, sasl_ok, nick, nspass>>
  BY DEF Join
<1>2. \/ /\ toServer' = toServer \o <<Msg("JOIN", Listed[joined + 1], <<>>)>>
         /\ refused' = refused
      \/ toServer' = toServer /\ refused' = refused \cup {Listed[joined + 1]}
  BY <1>1 DEF Join, Sent
<1> QED BY <1>1, <1>2 DEF Said, ClientJoins

\* The PING.
LEMMA CheckSays ==
  ASSUME AInv, Check, alive'
  PROVE  Said
<1> PICK ticks \in 0..1 :
      \/ Redial
      \/ /\ Sent(IF PingDue(idle + ticks) THEN <<Say("PING")>> ELSE <<>>)
         /\ UNCHANGED <<at, tries, reconnecting, joined, refused, alive, shut, toClient, srv>>
  BY DEF Check
<1>1. ~Redial
  BY DEF Redial, Cut
<1> DEFINE r == IF PingDue(idle + ticks) THEN <<Say("PING")>> ELSE <<>>
<1>2. /\ alive /\ Sent(r)
      /\ UNCHANGED <<toClient, srv, registered, sasl_ok, nick, nspass, joined, refused>>
  BY <1>1 DEF Check
<1>3. r \in {<<>>} \cup {<<x>> : x \in Chat} /\ r \in Seq(Message)
  <2>1. r \in {<<>>, <<Say("PING")>>}
    BY Zenon
  <2>2. <<Say("PING")>> \in {<<x>> : x \in Chat} /\ <<Say("PING")>> \in Seq(Message)
    BY OwnWords
  <2>3. <<>> \in Seq(Message)
    BY NothingSaid DEF AInv
  <2> QED BY <2>1, <2>2, <2>3
<1> HIDE DEF r
<1>4. ClientSays(r)
  BY <1>2, <1>3 DEF ClientSays, Sent
<1> QED BY <1>2, <1>3, <1>4 DEF Said

\* A line typed.
LEMMA KeySays ==
  ASSUME AInv, Key \/ Stop, alive'
  PROVE  Said
<1>1. alive /\ UNCHANGED <<toClient, srv, registered, sasl_ok, nick, nspass, joined, refused>>
  BY DEF Key, Stop, loop, windows
<1>2. ASSUME NEW r \in {<<>>} \cup {<<x>> : x \in Chat} \cup
                       (IF MayRename THEN {<<x>> : x \in Renames} ELSE {}),
             toServer' = toServer \o r
      PROVE  Said
  <2>1. r \in Seq(Message)
    <3>1. r \in {<<>>} \cup {<<x>> : x \in Chat} \cup {<<x>> : x \in Renames}
      OBVIOUS
    <3> QED BY <3>1, OwnWords, NothingSaid DEF AInv
  <2>2. ClientSays(r)
    BY <1>1, <1>2 DEF ClientSays
  <2> QED BY <1>1, <2>1, <2>2 DEF Said
<1>3. CASE UNCHANGED toServer
  <2>1. toServer' = toServer \o <<>>
    BY <1>3 DEF AInv, IInv, Wire
  <2> QED BY <1>2, <2>1
<1>4. CASE Sent(<<Say("PRIVMSG")>>)
  BY <1>1, <1>2, <1>4, OwnWords DEF Sent
<1>5. CASE Sent(<<Say("QUIT")>>)
  BY <1>1, <1>2, <1>5, OwnWords DEF Sent
<1>6. CASE MayRename /\ \E n \in Nick : Sent(<<Msg("NICK", n, <<>>)>>)
  <2> PICK n \in Nick : Sent(<<Msg("NICK", n, <<>>)>>)
    BY <1>6
  <2>1. <<Msg("NICK", n, <<>>)>> \in {<<x>> : x \in Renames}
    BY DEF Renames
  <2> QED BY <1>1, <1>2, <1>6, <2>1 DEF Sent
<1>7. ASSUME (IF registered THEN "nick" ELSE "early nick") \in Typed PROVE MayRename
  BY <1>7 DEF MayRename
<1> QED BY <1>3, <1>4, <1>5, <1>6, <1>7 DEF Key, Stop

\* What happens to a connection is one of these.
LEMMA StepSays ==
  ASSUME AInv, [Next]_vars, alive'
  PROVE  Said
<1>1. CASE UNCHANGED vars
  <2>1. ServerTalks(<<>>)
    BY <1>1, NothingSaid DEF ServerTalks, AInv, vars, client, loop, windows, link, bounds
  <2>2. alive
    BY <1>1 DEF vars, link
  <2> QED BY <2>1, <2>2, NothingSaid DEF Said, AInv
<1>2. CASE Dial
  <2>1. Opening
    BY <1>2 DEF Dial, link, AInv, IInv, Types
  <2>2. ~registered' /\ joined' = 0 /\ refused' = {} /\ UNCHANGED <<nspass, nick>>
    BY <1>2 DEF Dial, Afresh, windows, AInv, Before, IInv, Types
  <2> QED BY <2>1, <2>2 DEF Said, Opens, Opening
<1>3. CASE session \/ Pause \/ Minute \/ Leave \/ Drop
  BY <1>3 DEF session, Pause, Minute, Leave, Drop, Cut, link, AInv, IInv, Types
<1>4. CASE ServerReads
  <2> PICK answer \in Answers(Head(toServer)) :
        /\ srv' = Welcomed(After(Head(toServer), answer))
        /\ toClient' = toClient \o answer \o
                         (IF srv'.up /\ ~srv.up THEN <<Say("001")>> ELSE <<>>)
    BY <1>4 DEF ServerReads
  <2> DEFINE w == IF srv'.up /\ ~srv.up THEN <<Say("001")>> ELSE <<>>
  <2>1. /\ alive /\ toServer # <<>> /\ toServer' = Tail(toServer)
        /\ UNCHANGED <<registered, sasl_ok, nick, nspass, joined, refused>>
    BY <1>4 DEF ServerReads, client, loop, windows
  <2>2. Head(toServer) \in Message
    BY <2>1, ReadType DEF AInv, IInv, Wire
  <2>3. answer \in Seq(Message) /\ toClient \in Seq(Message)
    BY <2>2, ServerType DEF AInv, IInv, Wire
  <2>4. w \in Seq(Message)
    <3>1. w \in {<<Say("001")>>, <<>>}
      BY Zenon
    <3>2. Say("001") \in Message
      BY SayIsMessage DEF Kinds
    <3> QED BY <3>1, <3>2
  <2>5. toClient' = toClient \o (answer \o w)
    <3> HIDE DEF w
    <3>1. toClient' = toClient \o answer \o w
      BY DEF w
    <3>2. \A p, q, r \in Seq(Message) : p \o q \o r = p \o (q \o r)
      OBVIOUS
    <3> QED BY <2>3, <2>4, <3>1, <3>2
  <2>6. ServerHears(Head(toServer), answer)
    BY <2>1, <2>5 DEF ServerHears
  <2> QED BY <2>1, <2>2, <2>3, <2>6 DEF Said
<1>5. CASE ServerSays
  <2> PICK m \in {Say("PING"), Say("PRIVMSG")} \cup {Msg("PRIVMSG", p, <<>>) : p \in Person}
                \cup {Msg("NICK", n, n) : n \in InUse} \cup {Msg("KICK", c, <<>>) : c \in Channel} :
        toClient' = Append(toClient, m)
    BY <1>5 DEF ServerSays
  <2>1. m \in Unasked /\ m \in Message
    <3>1. Say("PING") \in Message /\ Say("PRIVMSG") \in Message
      BY SayIsMessage DEF Kinds
    <3>2. \A n \in InUse : Msg("NICK", n, n) \in Message
      BY NickIsMessage, SessionAssumption DEF SessionAssumption
    <3>3. \A x \in Message : x.m \in {"PING", "PRIVMSG", "KICK"} => x \in Unasked
      BY DEF Unasked, Of
    <3>4. Say("PING") \in Unasked /\ Say("PRIVMSG") \in Unasked
      BY <3>1, <3>3 DEF Say, Msg
    <3>5. \A p \in Person : Msg("PRIVMSG", p, <<>>) \in Message /\ Msg("PRIVMSG", p, <<>>) \in Unasked
      BY <3>3, NickIsMessage DEF Msg
    <3>6. \A c \in Channel : Msg("KICK", c, <<>>) \in Message /\ Msg("KICK", c, <<>>) \in Unasked
      BY <3>3, ChannelIsMessage DEF Msg
    <3> QED BY <3>1, <3>2, <3>4, <3>5, <3>6 DEF Unasked
  <2>2. <<m>> \in Seq(Message) /\ toClient' = toClient \o <<m>>
    BY <2>1 DEF AInv, IInv, Wire
  <2>3. /\ alive /\ srv.up
        /\ UNCHANGED <<toServer, srv, registered, sasl_ok, nick, nspass, joined, refused>>
    BY <1>5 DEF ServerSays, client, loop, windows
  <2>4. ServerTalks(<<m>>)
    BY <2>1, <2>2, <2>3 DEF ServerTalks
  <2> QED BY <2>2, <2>3, <2>4 DEF Said
<1>6. CASE GoSilent
  <2>1. ServerTalks(<<>>)
    BY <1>6, NothingSaid DEF ServerTalks, GoSilent, AInv, client, loop, windows, link, bounds
  <2>2. alive
    BY <1>6 DEF GoSilent
  <2> QED BY <2>1, <2>2, NothingSaid DEF Said, AInv
<1>7. CASE PushedOut \/ Stall \/ Resume
  <2>1. /\ alive' = alive
        /\ UNCHANGED <<toClient, toServer, srv, registered, sasl_ok, nick, nspass, joined, refused>>
    BY <1>7 DEF PushedOut, Stall, Resume, client, loop, windows, link
  <2>2. ServerTalks(<<>>)
    BY <2>1, NothingSaid DEF ServerTalks, AInv
  <2> QED BY <2>1, <2>2, NothingSaid DEF Said, AInv
<1> QED BY <1>1, <1>2, <1>3, <1>4, <1>5, <1>6, <1>7, PumpSays, JoinSays, CheckSays, KeySays
        DEF Next, Loop

-----------------------------------------------------------------------------
(* What is answered *)

\* What the server is after it reads a line.
LEMMA ServerAfter ==
  ASSUME srv \in ServerEnd, NEW m \in Message, NEW answer, srv' = Welcomed(After(m, answer))
  PROVE  /\ srv'.user = (srv.user \/ m.m = "USER")
         /\ srv'.named = (srv.named \/ (m.m = "NICK" /\ Free(m.a)))
         /\ srv'.nick = (IF m.m = "NICK" /\ Free(m.a) THEN m.a ELSE srv.nick)
         /\ srv'.long = (srv.long \/ (m.m = "NICK" /\ Free(m.a) /\ Len(m.a) > NickCap))
         /\ srv'.holding = (m.m = "CAP LS" \/ (srv.holding /\ m.m # "CAP END"))
         /\ srv'.authed = (IF m.m = "AUTHENTICATE login" THEN answer = <<Say("903")>> ELSE srv.authed)
         /\ srv'.identified = (IF m.m = "IDENTIFY" THEN srv.identified + 1 ELSE srv.identified)
         /\ srv'.joins = (IF m.m = "JOIN" /\ srv.up THEN [srv.joins EXCEPT ![m.a] = @ + 1] ELSE srv.joins)
         /\ srv'.up = (srv.up \/ (srv'.named /\ srv'.user /\ ~srv'.holding))
<1> DEFINE s == After(m, answer)
<1>1. /\ s.user = (srv.user \/ m.m = "USER")
      /\ s.named = (srv.named \/ (m.m = "NICK" /\ Free(m.a)))
      /\ s.nick = (IF m.m = "NICK" /\ Free(m.a) THEN m.a ELSE srv.nick)
      /\ s.long = (srv.long \/ (m.m = "NICK" /\ Free(m.a) /\ Len(m.a) > NickCap))
      /\ s.holding = (m.m = "CAP LS" \/ (srv.holding /\ m.m # "CAP END"))
      /\ s.authed = (IF m.m = "AUTHENTICATE login" THEN answer = <<Say("903")>> ELSE srv.authed)
      /\ s.identified = (IF m.m = "IDENTIFY" THEN srv.identified + 1 ELSE srv.identified)
      /\ s.joins = (IF m.m = "JOIN" /\ srv.up THEN [srv.joins EXCEPT ![m.a] = @ + 1] ELSE srv.joins)
      /\ s.up = srv.up
      /\ DOMAIN s = DOMAIN srv
  <2>1. CASE m.m \in {"CAP LS", "CAP END", "USER"}
    BY <2>1 DEF After, ServerEnd
  <2>2. CASE m.m \in {"IDENTIFY", "AUTHENTICATE login"}
    BY <2>2 DEF After, ServerEnd
  <2>3. CASE m.m = "NICK"
    BY <2>3 DEF After, ServerEnd
  <2>4. CASE m.m = "JOIN"
    BY <2>4 DEF After, ServerEnd
  <2>5. CASE m.m \notin {"CAP LS", "CAP END", "USER", "IDENTIFY", "AUTHENTICATE login", "NICK", "JOIN"}
    BY <2>5 DEF After, ServerEnd
  <2> QED BY <2>1, <2>2, <2>3, <2>4, <2>5
<1> HIDE DEF s
<1>2. srv' = [s EXCEPT !.up = s.up \/ (s.named /\ s.user /\ ~s.holding)]
  BY DEF Welcomed, s
<1>3. /\ srv'.user = s.user /\ srv'.named = s.named /\ srv'.nick = s.nick
      /\ srv'.long = s.long /\ srv'.holding = s.holding
      /\ srv'.authed = s.authed /\ srv'.identified = s.identified /\ srv'.joins = s.joins
      /\ srv'.up = (s.up \/ (s.named /\ s.user /\ ~s.holding))
  BY <1>1, <1>2 DEF ServerEnd
<1> QED BY <1>1, <1>3

\* What the server answers to what.
Asks == {"CAP LS", "CAP REQ", "AUTHENTICATE PLAIN", "AUTHENTICATE login"}
AnswerTo(m, x) ==
  \/ m.m = "CAP LS" /\ x.m \in {"CAP LS", "CAP LS sasl"}
  \/ m.m = "CAP REQ" /\ x.m \in {"CAP ACK", "CAP NAK"}
  \/ m.m = "AUTHENTICATE PLAIN" /\ x.m = "AUTHENTICATE"
  \/ m.m = "AUTHENTICATE login" /\ x.m \in Logins /\ x = Say(x.m)
  \/ m.m = "NICK" /\ ~Valid(m.a) /\ x.m = "432"
  \/ m.m = "NICK" /\ Valid(m.a) /\ m.a \in InUse /\ x.m = "433"
  \/ m.m = "NICK" /\ Free(m.a) /\ srv.up /\ m.a # srv.nick
       /\ x = Msg("NICK", srv.nick, m.a) /\ x.m = "NICK"
  \/ m.m = "PING" /\ x.m = "PONG"
LEMMA AnswerIs ==
  ASSUME srv \in ServerEnd, NEW m \in Message, NEW answer \in Answers(m)
  PROVE  \/ answer = <<>> /\ m.m \notin Asks /\ ~(m.m = "NICK" /\ ~Free(m.a))
                /\ ~(m.m = "NICK" /\ srv.up /\ m.a # srv.nick)
         \/ \E x \in Message : answer = <<x>> /\ AnswerTo(m, x)
<1>1. /\ Say("CAP ACK") \in Message /\ Say("CAP NAK") \in Message /\ Say("AUTHENTICATE") \in Message
      /\ Say("432") \in Message /\ Say("433") \in Message /\ Say("PONG") \in Message
      /\ Say("CAP LS") \in Message /\ Say("CAP LS sasl") \in Message
  BY SayIsMessage DEF Kinds
<1>2. (\A s : Say(s).m = s) /\ (\A n, k : Msg("NICK", n, k).m = "NICK")
  BY DEF Say, Msg
<1>3. CASE m.m = "CAP LS"
  <2>1. answer = <<Say("CAP LS")>> \/ answer = <<Say("CAP LS sasl")>>
    <3> PICK o \in Offers : answer = <<Say(IF o THEN "CAP LS sasl" ELSE "CAP LS")>>
      BY <1>3 DEF Answers
    <3>1. CASE o
      BY <3>1, Zenon
    <3>2. CASE ~o
      BY <3>2, Zenon
    <3> QED BY <3>1, <3>2
  <2> QED BY <1>1, <1>2, <1>3, <2>1 DEF AnswerTo
<1>4. CASE m.m = "AUTHENTICATE login"
  <2> PICK l \in Logins : answer = <<Say(l)>>
    BY <1>4 DEF Answers
  <2>1. Say(l) \in Message
    BY SayIsMessage, SessionAssumption DEF SessionAssumption, Kinds
  <2> QED BY <1>2, <1>4, <2>1 DEF AnswerTo
<1>5. CASE m.m = "NICK"
  <2>1. m.a \in Seq(Char) /\ Msg("NICK", srv.nick, m.a) \in Message
    BY <1>5, NickIsMessage DEF Message, ServerEnd
  <2>2. CASE ~Valid(m.a)
    <3>1. answer = <<Say("432")>>
      BY <1>5, <2>2 DEF Answers, Free
    <3> QED BY <1>1, <1>2, <1>5, <2>2, <3>1 DEF AnswerTo
  <2>3. CASE Valid(m.a) /\ m.a \in InUse
    <3>1. answer = <<Say("433")>>
      BY <1>5, <2>3 DEF Answers, Free
    <3> QED BY <1>1, <1>2, <1>5, <2>3, <3>1 DEF AnswerTo
  <2>4. CASE Free(m.a) /\ srv.up /\ m.a # srv.nick
    <3>1. answer = <<Msg("NICK", srv.nick, m.a)>>
      BY <1>5, <2>4 DEF Answers, Free
    <3> QED BY <1>2, <1>5, <2>1, <2>4, <3>1 DEF AnswerTo
  <2>5. CASE Free(m.a) /\ ~(srv.up /\ m.a # srv.nick)
    <3>1. answer = <<>>
      BY <1>5, <2>5 DEF Answers, Free
    <3> QED BY <1>5, <2>5, <3>1 DEF Asks
  <2> QED BY <2>2, <2>3, <2>4, <2>5 DEF Free
<1>6. CASE m.m = "CAP REQ"
  <2>1. answer \in {<<Say("CAP ACK")>>, <<Say("CAP NAK")>>}
    BY <1>6 DEF Answers
  <2> QED BY <1>1, <1>2, <1>6, <2>1 DEF AnswerTo
<1>7. CASE m.m = "AUTHENTICATE PLAIN"
  <2>1. answer = <<Say("AUTHENTICATE")>>
    BY <1>7 DEF Answers
  <2> QED BY <1>1, <1>2, <1>7, <2>1 DEF AnswerTo
<1>8. CASE m.m = "PING"
  <2>1. answer = <<Say("PONG")>>
    BY <1>8 DEF Answers
  <2> QED BY <1>1, <1>2, <1>8, <2>1 DEF AnswerTo
<1>9. CASE m.m \notin {"CAP LS", "CAP REQ", "AUTHENTICATE PLAIN", "AUTHENTICATE login", "NICK", "PING"}
  <2>1. answer = <<>>
    BY <1>9 DEF Answers
  <2> QED BY <1>9, <2>1 DEF Asks
<1> QED BY <1>3, <1>4, <1>5, <1>6, <1>7, <1>8, <1>9

\* What the client answers to what.
ReplyTo(m, x) ==
  \/ m.m = "PING" /\ x.m = "PONG"
  \/ m.m = "CAP LS sasl" /\ x.m = "CAP REQ"
  \/ m.m = "CAP LS" /\ x.m = "CAP END"
  \/ m.m = "CAP ACK" /\ x.m = "AUTHENTICATE PLAIN"
  \/ m.m = "AUTHENTICATE" /\ x.m = "AUTHENTICATE login"
  \/ m.m \in {"CAP NAK", "903", "904", "905", "906", "907"} /\ x.m = "CAP END"
  \/ m.m = "001" /\ nspass /\ ~sasl_ok /\ x.m = "IDENTIFY"
  \/ m.m = "433" /\ x = Msg("NICK", Retried(nick), <<>>) /\ x.m = "NICK"
LEMMA ReplyIs ==
  ASSUME NEW m \in Message, nick \in Nicks
  PROVE  \/ /\ Reply(m) = <<>>
            /\ m.m \notin {"CAP LS", "CAP LS sasl", "CAP ACK", "CAP NAK", "AUTHENTICATE", "903", "904",
                           "905", "906", "907", "433"}
            /\ ~(m.m = "001" /\ nspass /\ ~sasl_ok)
         \/ \E x \in Message : Reply(m) = <<x>> /\ ReplyTo(m, x)
<1>1. /\ Say("PONG") \in Message /\ Say("CAP REQ") \in Message /\ Say("CAP END") \in Message
      /\ Say("AUTHENTICATE PLAIN") \in Message /\ Say("AUTHENTICATE login") \in Message
      /\ Say("IDENTIFY") \in Message
  BY SayIsMessage DEF Kinds
<1>2. (\A s : Say(s).m = s) /\ (\A n, k : Msg("NICK", n, k).m = "NICK")
  BY DEF Say, Msg
<1>3. Msg("NICK", Retried(nick), <<>>) \in Message
  BY NickIsMessage, NickFits DEF Nicks
<1>4. CASE m.m \in {"PING", "CAP LS", "CAP LS sasl", "CAP ACK", "AUTHENTICATE"}
  BY <1>1, <1>2, <1>4 DEF Reply, ReplyTo
<1>5. CASE m.m \in {"CAP NAK", "903", "904", "905", "906", "907"}
  BY <1>1, <1>2, <1>5 DEF Reply, ReplyTo
<1>6. CASE m.m = "001"
  BY <1>1, <1>2, <1>6 DEF Reply, ReplyTo
<1>7. CASE m.m = "433"
  BY <1>2, <1>3, <1>7 DEF Reply, ReplyTo
<1>8. CASE m.m \notin {"PING", "CAP LS", "CAP LS sasl", "CAP ACK", "AUTHENTICATE", "CAP NAK", "903",
                       "904", "905", "906", "907", "001", "433"}
  BY <1>8 DEF Reply, ReplyTo
<1> QED BY <1>4, <1>5, <1>6, <1>7, <1>8

\* Of what is answered, what of some kind there is.
LEMMA NoneAnswered ==
  ASSUME NEW x \in Message, NEW S
  PROVE  /\ x.m \notin S => None(<<x>>, Of(S))
         /\ x.m \in S => One(<<x>>, Of(S))
         /\ None(<<>>, Of(S))
  BY ShortQueue, KindOf

\* The welcome, or not.
LEMMA WelcomeIs ==
  /\ Say("001") \in Message /\ Say("001").m = "001"
  /\ (IF srv'.up /\ ~srv.up THEN <<Say("001")>> ELSE <<>>) \in Seq(Message)
  /\ srv'.up /\ ~srv.up => (IF srv'.up /\ ~srv.up THEN <<Say("001")>> ELSE <<>>) = <<Say("001")>>
  /\ ~(srv'.up /\ ~srv.up) => (IF srv'.up /\ ~srv.up THEN <<Say("001")>> ELSE <<>>) = <<>>
<1>1. Say("001") \in Message /\ Say("001").m = "001"
  BY SayIsMessage DEF Kinds, Say, Msg
<1> QED BY <1>1

-----------------------------------------------------------------------------
(* The welcome *)

\* Types of the queues and of the server's end.
LEMMA Queued ==
  ASSUME IInv
  PROVE  /\ toServer \in Seq(Message) /\ toClient \in Seq(Message) /\ srv \in ServerEnd
         /\ nick \in Nicks /\ registered \in BOOLEAN /\ joined \in 0..Len(Listed)
         /\ sasl_ok \in BOOLEAN /\ nspass \in BOOLEAN
  BY DEF IInv, Types, Wire

\* What the server tells is told when it has welcomed the client.
LEMMA HeraldsStep ==
  ASSUME AInv, Said
  PROVE  Heralds'
<1> DEFINE M == Of({"001", "NICK"})
<1>0. /\ toServer \in Seq(Message) /\ toClient \in Seq(Message) /\ srv \in ServerEnd /\ nick \in Nicks
      /\ registered \in BOOLEAN
  BY Queued DEF AInv
<1>1. CASE Opens
  BY <1>1, NoneAnswered, ShortQueue DEF Opens, Heralds, NoServer
<1>2. ASSUME alive, NEW m \in Message, ClientReads(m) PROVE Heralds'
  <2>1. None(toClient, M) => m \notin M /\ None(toClient', M)
    BY <1>0, <1>2, ReadQueue DEF ClientReads
  <2>2. m.m = "001" => m \in M
    BY KindOf
  <2> QED BY <1>2, <2>1, <2>2 DEF AInv, Heralds, ClientReads
<1>3. ASSUME alive, NEW r \in Seq(Message), ClientSays(r) PROVE Heralds'
  BY <1>3 DEF AInv, Heralds, ClientSays
<1>6. ASSUME alive, ClientJoins PROVE Heralds'
  BY <1>6 DEF AInv, Heralds, ClientJoins
<1>4. ASSUME alive, NEW m \in Message, NEW answer \in Seq(Message), ServerHears(m, answer) PROVE Heralds'
  <2>1. srv'.up = (srv.up \/ (srv'.named /\ srv'.user /\ ~srv'.holding))
    BY <1>0, <1>4, ServerAfter DEF ServerHears
  <2>2. ASSUME ~srv.up PROVE None(answer, M)
    <3>1. CASE answer = <<>>
      BY <3>1, ShortQueue
    <3>2. ASSUME NEW x \in Message, answer = <<x>>, AnswerTo(m, x) PROVE None(answer, M)
      <4>1. x.m \notin {"001", "NICK"}
        BY <2>2, <3>2, SessionAssumption DEF AnswerTo, SessionAssumption
      <4> QED BY <3>2, <4>1, NoneAnswered
    <3> QED BY <1>0, <1>4, <3>1, <3>2, AnswerIs DEF ServerHears
  <2>3. ASSUME ~srv'.up PROVE None(toClient', M)
    <3>1. ~srv.up /\ None(toClient, M)
      BY <1>4, <2>1, <2>3 DEF AInv, Heralds
    <3>2. toClient' = toClient \o (answer \o <<>>) /\ answer \o <<>> = answer
      BY <1>4, <2>3, WelcomeIs DEF ServerHears
    <3> QED BY <1>0, <2>2, <3>1, <3>2, JoinedQueues
  <2>4. registered' => srv'.up
    BY <1>4, <2>1 DEF AInv, Heralds, ServerHears
  <2> QED BY <2>3, <2>4 DEF Heralds
<1>5. ASSUME alive, NEW r \in Seq(Message), ServerTalks(r) PROVE Heralds'
  <2>1. srv'.up = srv.up
    BY <1>0, <1>5 DEF ServerTalks, ServerEnd
  <2>2. ASSUME ~srv.up PROVE toClient' = toClient
    <3>1. r = <<>>
      BY <1>5, <2>2 DEF ServerTalks
    <3> QED BY <1>0, <1>5, <3>1 DEF ServerTalks
  <2> QED BY <1>5, <2>1, <2>2 DEF AInv, Heralds, ServerTalks
<1> QED BY <1>1, <1>2, <1>3, <1>4, <1>5, <1>6 DEF Said

\* Nothing is left of the connection before when the next is dialled.
LEMMA BeforeStep ==
  ASSUME AInv, [Next]_vars
  PROVE  Before'
<1>1. CASE UNCHANGED vars
  BY <1>1 DEF AInv, Before, vars, client, loop, windows
<1>2. CASE session
  BY <1>2 DEF session, Before
<1>3. CASE Dial
  <2>1. ~registered' /\ joined' = joined /\ refused' = refused /\ at = "dialling"
    BY <1>3 DEF Dial, Afresh, windows, AInv, Before, IInv, Types
  <2> QED BY <2>1 DEF AInv, Before
<1>4. CASE Pause \/ Minute
  BY <1>4 DEF Pause, Minute, GiveUp, loop, windows, AInv, Before
<1>5. CASE Pump \/ Join \/ Key \/ Stop \/ Leave
  BY <1>5 DEF Pump, Join, Key, Stop, Leave, loop, Before
<1>6. CASE Check
  BY <1>6 DEF Check, Redial, Before
<1>7. CASE PushedOut \/ ServerReads \/ ServerSays \/ Stall \/ Resume \/ Drop \/ GoSilent
  BY <1>7 DEF PushedOut, ServerReads, ServerSays, Stall, Resume, Drop, GoSilent, client, loop,
              windows, AInv, Before
<1> QED BY <1>1, <1>2, <1>3, <1>4, <1>5, <1>6, <1>7 DEF Next, Loop

\* No key is looked for before the channels have been gone through.
LEMMA ThroughStep ==
  ASSUME AInv, [Next]_vars
  PROVE  Through'
<1>1. CASE UNCHANGED vars
  BY <1>1 DEF AInv, Through, vars, client, loop
<1>2. CASE session \/ Pause \/ Minute
  BY <1>2 DEF session, Pause, Minute, GiveUp, loop, Through
<1>3. CASE Dial
  <2>1. ~registered'
    BY <1>3 DEF Dial, Afresh, AInv, Before, IInv, Types
  <2> QED BY <2>1 DEF Through
<1>4. CASE Pump \/ Key \/ Stop \/ Leave
  BY <1>4 DEF Pump, Key, Stop, Leave, Through
<1>5. CASE Join
  BY <1>5 DEF Join, Through
<1>6. CASE Check
  BY <1>6 DEF Check, Redial, Through
<1>7. CASE PushedOut \/ ServerReads \/ ServerSays \/ Stall \/ Resume \/ Drop \/ GoSilent
  BY <1>7 DEF PushedOut, ServerReads, ServerSays, Stall, Resume, Drop, GoSilent, client, loop,
              AInv, Through
<1> QED BY <1>1, <1>2, <1>3, <1>4, <1>5, <1>6, <1>7 DEF Next, Loop

\* The invariant all four theorems stand on.
LEMMA AInvStep == AInv /\ [Next]_vars => AInv'
<1> SUFFICES ASSUME AInv, [Next]_vars PROVE AInv'
  OBVIOUS
<1>1. IInv'
  BY StepInv DEF AInv
<1>2. Before'
  BY BeforeStep
<1>3. ASSUME alive' PROVE Heralds'
  BY <1>3, StepSays, HeraldsStep
<1>4. Through'
  BY ThroughStep
<1> QED BY <1>1, <1>2, <1>3, <1>4 DEF AInv

\* It holds at the start.
LEMMA AInvInit == Init => AInv
  BY InitInv DEF Init, AInv, Before, Through

-----------------------------------------------------------------------------
(* The channels *)

\* What has become of a channel of the first screen: not come to yet; asked for,
\* which is on its way or granted; or no view was free for it.
JoinOf(i) == {x \in Message : x.m = "JOIN" /\ x.a = Listed[i]}
ToCome(i) ==
  i > joined /\ Listed[i] \notin refused /\ srv.joins[Listed[i]] = 0 /\ None(toServer, JoinOf(i))
OnItsWay(i) ==
  i <= joined /\ Listed[i] \notin refused /\ srv.joins[Listed[i]] = 0 /\ One(toServer, JoinOf(i))
Granted(i) ==
  i <= joined /\ Listed[i] \notin refused /\ srv.joins[Listed[i]] = 1 /\ None(toServer, JoinOf(i))
NoView(i) ==
  i <= joined /\ Listed[i] \in refused /\ srv.joins[Listed[i]] = 0 /\ None(toServer, JoinOf(i))
Joining ==
  /\ joined > 0 => registered
  /\ \A i \in DOMAIN Listed : ToCome(i) \/ OnItsWay(i) \/ Granted(i) \/ NoView(i)

\* What is said otherwise joins nothing.
LEMMA NoJoin ==
  ASSUME NEW x \in Message, x.m # "JOIN", NEW i
  PROVE  None(<<x>>, JoinOf(i))
<1>1. x \notin JoinOf(i)
  BY DEF JoinOf
<1> QED BY <1>1, ShortQueue

\* A message more that joins nothing leaves every channel as it is.
LEMMA JoiningSays ==
  ASSUME Joining, toServer \in Seq(Message), NEW r \in Seq(Message), \A i : None(r, JoinOf(i)),
         toServer' = toServer \o r, UNCHANGED <<srv, joined, refused>>, registered => registered'
  PROVE  Joining'
<1>1. \A i \in DOMAIN Listed :
        /\ None(toServer, JoinOf(i)) => None(toServer', JoinOf(i))
        /\ One(toServer, JoinOf(i)) => One(toServer', JoinOf(i))
  BY JoinedQueues
<1>2. \A i \in DOMAIN Listed : /\ ToCome(i) => ToCome(i)'
                               /\ OnItsWay(i) => OnItsWay(i)'
                               /\ Granted(i) => Granted(i)'
                               /\ NoView(i) => NoView(i)'
  BY <1>1 DEF ToCome, OnItsWay, Granted, NoView
<1> QED BY <1>2 DEF Joining

\* The next channel is asked for, or has no view; the others stay.
LEMMA JoiningJoins ==
  ASSUME \A i, j \in DOMAIN Listed : Listed[i] = Listed[j] => i = j,
         AInv, Joining, ClientJoins
  PROVE  Joining'
<1>a. /\ DOMAIN Listed = 1..Len(Listed) /\ Len(Listed) \in Nat
      /\ toServer \in Seq(Message) /\ joined \in Nat
  BY Queued, ListType, SessionAssumption DEF AInv, SessionAssumption
<1> PICK n \in DOMAIN Listed : n = joined + 1
  BY <1>a DEF ClientJoins
<1>0. /\ toServer \in Seq(Message) /\ joined \in Nat /\ n \in DOMAIN Listed
      /\ DOMAIN Listed \subseteq Nat
  BY <1>a
<1> DEFINE x == Msg("JOIN", Listed[n], <<>>)
<1>1. joined' = n /\ registered' = registered /\ registered /\ srv' = srv
  BY DEF ClientJoins
<1>2. x \in Message /\ x \in JoinOf(n) /\ \A i \in DOMAIN Listed : i # n => x \notin JoinOf(i)
  <2>1. Listed[n] \in Channel
    BY <1>0, SessionAssumption DEF SessionAssumption
  <2>2. x \in Message
    BY <2>1, ChannelIsMessage
  <2>3. x.m = "JOIN" /\ x.a = Listed[n]
    BY DEF Msg
  <2> HIDE DEF x
  <2> QED BY <1>0, <2>2, <2>3 DEF JoinOf
<1>3. ToCome(n)
  BY <1>0 DEF Joining, OnItsWay, Granted, NoView
<1> HIDE DEF x
<1>4. CASE toServer' = toServer \o <<x>> /\ refused' = refused
  <2>1. <<x>> \in Seq(Message) /\ One(<<x>>, JoinOf(n))
    BY <1>2, ShortQueue
  <2>2. OnItsWay(n)'
    <3>1. One(toServer', JoinOf(n))
      BY <1>0, <1>3, <1>4, <2>1, JoinedQueues DEF ToCome
    <3> QED BY <1>0, <1>1, <1>3, <1>4, <3>1 DEF ToCome, OnItsWay
  <2>3. ASSUME NEW i \in DOMAIN Listed, i # n
        PROVE  (ToCome(i) \/ OnItsWay(i) \/ Granted(i) \/ NoView(i))'
    <3>1. None(<<x>>, JoinOf(i))
      BY <1>2, <2>3, ShortQueue
    <3>2. /\ None(toServer, JoinOf(i)) => None(toServer', JoinOf(i))
          /\ One(toServer, JoinOf(i)) => One(toServer', JoinOf(i))
      BY <1>0, <1>4, <2>1, <3>1, JoinedQueues
    <3>3. (i > joined => i > joined') /\ (i <= joined => i <= joined')
      BY <1>0, <1>1, <2>3
    <3>4. ToCome(i) \/ OnItsWay(i) \/ Granted(i) \/ NoView(i)
      BY DEF Joining
    <3> QED BY <1>1, <1>4, <3>2, <3>3, <3>4 DEF ToCome, OnItsWay, Granted, NoView
  <2> QED BY <1>1, <2>2, <2>3 DEF Joining
<1>5. CASE toServer' = toServer /\ refused' = refused \cup {Listed[n]}
  <2>1. NoView(n)'
    BY <1>0, <1>1, <1>3, <1>5 DEF ToCome, NoView
  <2>2. ASSUME NEW i \in DOMAIN Listed, i # n
        PROVE  (ToCome(i) \/ OnItsWay(i) \/ Granted(i) \/ NoView(i))'
    <3>1. Listed[i] \in refused' <=> Listed[i] \in refused
      BY <1>0, <1>5, <2>2
    <3>2. (i > joined => i > joined') /\ (i <= joined => i <= joined')
      BY <1>0, <1>1, <2>2
    <3>3. ToCome(i) \/ OnItsWay(i) \/ Granted(i) \/ NoView(i)
      BY DEF Joining
    <3> QED BY <1>1, <1>5, <3>1, <3>2, <3>3 DEF ToCome, OnItsWay, Granted, NoView
  <2> QED BY <1>1, <2>1, <2>2 DEF Joining
<1> QED BY <1>4, <1>5 DEF ClientJoins, x

\* What is said keeps it.
LEMMA JoiningStep ==
  ASSUME \A i, j \in DOMAIN Listed : Listed[i] = Listed[j] => i = j,
         AInv, alive => Joining, Said
  PROVE  Joining'
<1>0. /\ toServer \in Seq(Message) /\ toClient \in Seq(Message) /\ srv \in ServerEnd
      /\ nick \in Nicks /\ registered \in BOOLEAN /\ joined \in Nat
  BY Queued, ListType DEF AInv
<1>a. \A i \in DOMAIN Listed : Listed[i] \in Channel /\ i \in Nat /\ i > 0
  BY SessionAssumption DEF SessionAssumption
<1>1. CASE Opens
  <2>1. \A i : None(Greeting, JoinOf(i))
    BY <1>0, Greets DEF JoinOf
  <2>2. \A i \in DOMAIN Listed : srv'.joins[Listed[i]] = 0
    BY <1>1, <1>a DEF Opens, NoServer
  <2>3. joined' = 0 /\ refused' = {} /\ toServer' = Greeting
    BY <1>1 DEF Opens
  <2>4. \A i \in DOMAIN Listed : ToCome(i)'
    BY <1>a, <2>1, <2>2, <2>3 DEF ToCome
  <2> QED BY <2>3, <2>4 DEF Joining
<1>2. ASSUME alive, NEW m \in Message, ClientReads(m) PROVE Joining'
  <2>1. \A i : None(Reply(m), JoinOf(i)) /\ Reply(m) \in Seq(Message)
    <3>1. CASE Reply(m) = <<>>
      BY <3>1, ShortQueue
    <3>2. CASE \E x \in Message : Reply(m) = <<x>> /\ x.m # "JOIN"
      BY <3>2, NoJoin, ShortQueue
    <3>3. \A x : ReplyTo(m, x) => x.m # "JOIN"
      BY DEF ReplyTo
    <3> QED BY <1>0, <3>1, <3>2, <3>3, ReplyIs
  <2> QED BY <1>0, <1>2, <2>1, JoiningSays DEF ClientReads
<1>3. ASSUME alive, NEW r \in Seq(Message), ClientSays(r) PROVE Joining'
  <2>1. \A i : None(r, JoinOf(i))
    <3>1. r \in {<<>>} \cup {<<x>> : x \in Chat} \cup {<<x>> : x \in Renames}
      BY <1>3 DEF ClientSays
    <3>2. \A x \in Chat \cup Renames : x \in Message /\ x.m # "JOIN"
      BY OwnWords DEF Chat, Of, Renames, Msg
    <3> QED BY <3>1, <3>2, NoJoin, ShortQueue
  <2> QED BY <1>0, <1>3, <2>1, JoiningSays DEF ClientSays
<1>4. ASSUME alive, NEW m \in Message, NEW answer \in Seq(Message), ServerHears(m, answer)
      PROVE  Joining'
  <2>1. srv'.joins = (IF m.m = "JOIN" /\ srv.up THEN [srv.joins EXCEPT ![m.a] = @ + 1] ELSE srv.joins)
    BY <1>0, <1>4, ServerAfter DEF ServerHears
  <2>2. /\ joined' = joined /\ registered' = registered /\ refused' = refused
        /\ joined > 0 => srv.up
    BY <1>4 DEF ServerHears, AInv, Heralds, Joining
  <2>3. \A M : /\ None(toServer, M) => m \notin M /\ None(toServer', M)
               /\ One(toServer, M) /\ m \in M => None(toServer', M)
               /\ One(toServer, M) /\ m \notin M => One(toServer', M)
    BY <1>0, <1>4, ReadQueue DEF ServerHears
  <2>4. srv.joins \in [Channel -> Nat]
    BY <1>0 DEF ServerEnd
  <2> SUFFICES ASSUME NEW i \in DOMAIN Listed
               PROVE  (ToCome(i) \/ OnItsWay(i) \/ Granted(i) \/ NoView(i))'
    BY <1>4, <2>2 DEF Joining
  <2>5. ToCome(i) \/ OnItsWay(i) \/ Granted(i) \/ NoView(i)
    BY <1>4 DEF Joining
  <2>6. CASE m \in JoinOf(i)
    <3>1. m.m = "JOIN" /\ m.a = Listed[i]
      BY <2>6 DEF JoinOf
    <3>2. OnItsWay(i)
      BY <2>3, <2>5, <2>6 DEF ToCome, Granted, NoView
    <3>3. srv.up
      BY <1>0, <1>a, <2>2, <3>2 DEF OnItsWay
    <3>4. srv'.joins[Listed[i]] = 1
      BY <1>a, <2>1, <2>4, <3>1, <3>2, <3>3 DEF OnItsWay
    <3>5. Granted(i)'
      BY <2>2, <2>3, <2>6, <3>2, <3>4 DEF OnItsWay, Granted
    <3> QED BY <3>5
  <2>7. CASE m \notin JoinOf(i)
    <3>1. srv'.joins[Listed[i]] = srv.joins[Listed[i]] \/ (m.m = "JOIN" /\ m.a = Listed[i])
      BY <1>a, <2>1, <2>4
    <3>2. srv'.joins[Listed[i]] = srv.joins[Listed[i]]
      BY <2>7, <3>1 DEF JoinOf
    <3> QED BY <2>2, <2>3, <2>5, <2>7, <3>2 DEF ToCome, OnItsWay, Granted, NoView
  <2> QED BY <2>6, <2>7
<1>5. ASSUME alive, NEW r \in Seq(Message), ServerTalks(r) PROVE Joining'
  <2>1. srv'.joins = srv.joins
    BY <1>0, <1>5 DEF ServerTalks, ServerEnd
  <2>2. \A i \in DOMAIN Listed : /\ ToCome(i) => ToCome(i)'
                                 /\ OnItsWay(i) => OnItsWay(i)'
                                 /\ Granted(i) => Granted(i)'
                                 /\ NoView(i) => NoView(i)'
    BY <1>5, <2>1 DEF ServerTalks, ToCome, OnItsWay, Granted, NoView
  <2> QED BY <1>5, <2>2 DEF Joining, ServerTalks
<1>6. ASSUME alive, ClientJoins PROVE Joining'
  BY <1>6, JoiningJoins
<1> QED BY <1>1, <1>2, <1>3, <1>4, <1>5, <1>6 DEF Said

-----------------------------------------------------------------------------
(* The nick *)

NickOf(n) == {x \in Message : x.m = "NICK" /\ x.a = n}
Renaming(x) == x.m = "NICK" /\ x.a # x.b

\* What the server called the client as it wrote each message of q, and calls
\* it since: its changes follow from one another, to nicks there is room for.
Told(h, q, n) ==
  /\ h \in [1..Len(q) + 1 -> Nicks]
  /\ h[Len(q) + 1] = n
  /\ \A i \in 1..Len(q) : /\ Renaming(q[i]) => h[i] = q[i].a /\ h[i + 1] = q[i].b
                          /\ ~Renaming(q[i]) => h[i + 1] = h[i]

\* Until the welcome there is one nick being asked for, the client's, which is
\* on its way, refused, granted, or none the server takes.  From then on either
\* a nick is refused, or the client's is on its way to the server, or is none it
\* takes, or the server went by it at some time of which the client is still to
\* hear what followed.
Asked ==
  \/ srv.named /\ srv.nick = nick /\ None(toServer, Of({"NICK"})) /\ None(toClient, Of({"433"}))
  \/ /\ ~srv.named /\ One(toServer, Of({"NICK"})) /\ ~None(toServer, NickOf(nick))
     /\ None(toClient, Of({"433"}))
  \/ ~srv.named /\ None(toServer, Of({"NICK"})) /\ One(toClient, Of({"433"}))
  \/ /\ ~srv.named /\ ~Valid(nick) /\ None(toServer, Of({"NICK"}))
     /\ None(toClient, Of({"433"}))
Known(h) ==
  \/ ~Valid(nick)
  \/ ~None(toClient, Of({"433"}))
  \/ ~None(toServer, NickOf(nick))
  \/ \E i \in 1..Len(toClient) + 1 : h[i] = nick
Naming ==
  ~srv.long =>
    /\ srv.nick \in Nicks
    /\ ~srv.up => Asked
    /\ srv.up => \E h : Told(h, toClient, srv.nick) /\ Known(h)

\* One message more.
LEMMA ToldAdds ==
  ASSUME NEW q \in Seq(Message), NEW x \in Message, NEW n \in Nicks, NEW k \in Nicks, NEW h,
         Told(h, q, n),
         Renaming(x) => x.a = n /\ x.b = k,
         ~Renaming(x) => k = n
  PROVE  \E g : /\ Told(g, q \o <<x>>, k)
                /\ Len(q \o <<x>>) = Len(q) + 1
                /\ \A i \in 1..Len(q) + 1 : g[i] = h[i]
                /\ g[Len(q) + 2] = k
<1> DEFINE s == q \o <<x>>
           g == [i \in 1..Len(q) + 2 |-> IF i = Len(q) + 2 THEN k ELSE h[i]]
<1>1. /\ Len(q) \in Nat /\ Len(s) = Len(q) + 1 /\ s[Len(q) + 1] = x
      /\ \A i \in 1..Len(q) : s[i] = q[i]
  OBVIOUS
<1> HIDE DEF s
<1>2. /\ h \in [1..Len(q) + 1 -> Nicks] /\ h[Len(q) + 1] = n
  BY DEF Told
<1>3. /\ g \in [1..Len(s) + 1 -> Nicks] /\ g[Len(s) + 1] = k
      /\ \A i \in 1..Len(q) + 1 : g[i] = h[i]
  BY <1>1, <1>2
<1> HIDE DEF g
<1>4. ASSUME NEW i \in 1..Len(s)
      PROVE  /\ Renaming(s[i]) => g[i] = s[i].a /\ g[i + 1] = s[i].b
             /\ ~Renaming(s[i]) => g[i + 1] = g[i]
  <2>1. CASE i \in 1..Len(q)
    <3>1. g[i] = h[i] /\ g[i + 1] = h[i + 1] /\ s[i] = q[i]
      BY <1>1, <1>3, <2>1
    <3> QED BY <2>1, <3>1 DEF Told
  <2>2. CASE i = Len(q) + 1
    <3>1. g[i] = n /\ g[i + 1] = k /\ s[i] = x
      BY <1>1, <1>2, <1>3, <2>2
    <3> QED BY <3>1
  <2> QED BY <1>1, <2>1, <2>2
<1>5. g[Len(q) + 2] = k
  BY <1>1, <1>3
<1> QED BY <1>1, <1>3, <1>4, <1>5 DEF Told, s

\* One read.
LEMMA ToldReads ==
  ASSUME NEW q \in Seq(Message), q # <<>>, NEW n \in Nicks, NEW h, Told(h, q, n)
  PROVE  /\ \E g : /\ Told(g, Tail(q), n)
                   /\ \A i \in 1..Len(Tail(q)) + 1 : g[i] = h[i + 1]
         /\ Renaming(Head(q)) => h[1] = Head(q).a /\ h[2] = Head(q).b
         /\ ~Renaming(Head(q)) => h[2] = h[1]
         /\ h[2] \in Nicks
         /\ Len(q) = Len(Tail(q)) + 1
<1> DEFINE t == Tail(q)
           g == [i \in 1..Len(t) + 1 |-> h[i + 1]]
<1>1. /\ Len(q) \in Nat /\ Len(q) = Len(t) + 1 /\ Len(t) \in Nat /\ Head(q) = q[1]
      /\ \A i \in 1..Len(t) : t[i] = q[i + 1]
  OBVIOUS
<1> HIDE DEF t
<1>2. h \in [1..Len(q) + 1 -> Nicks] /\ h[Len(q) + 1] = n
  BY DEF Told
<1>3. /\ g \in [1..Len(t) + 1 -> Nicks] /\ g[Len(t) + 1] = n
      /\ \A i \in 1..Len(t) + 1 : g[i] = h[i + 1]
  BY <1>1, <1>2
<1> HIDE DEF g
<1>4. ASSUME NEW i \in 1..Len(t)
      PROVE  /\ Renaming(t[i]) => g[i] = t[i].a /\ g[i + 1] = t[i].b
             /\ ~Renaming(t[i]) => g[i + 1] = g[i]
  <2>1. i + 1 \in 1..Len(q) /\ t[i] = q[i + 1] /\ g[i] = h[i + 1] /\ g[i + 1] = h[i + 1 + 1]
    BY <1>1, <1>3
  <2> QED BY <2>1 DEF Told
<1>5. 1 \in 1..Len(q) /\ 1 + 1 = 2
  BY <1>1
<1>6. /\ Renaming(q[1]) => h[1] = q[1].a /\ h[2] = q[1].b
      /\ ~Renaming(q[1]) => h[2] = h[1]
  BY <1>5 DEF Told
<1>7. h[2] \in Nicks
  BY <1>1, <1>2
<1> QED BY <1>1, <1>3, <1>4, <1>6, <1>7 DEF Told, t

\* Before it ever changed it.
LEMMA ToldNone ==
  ASSUME NEW q \in Seq(Message), NEW n \in Nicks, None(q, Of({"NICK"}))
  PROVE  \E h : Told(h, q, n) /\ h[1] = n /\ 1 \in 1..Len(q) + 1
<1> DEFINE h == [i \in 1..Len(q) + 1 |-> n]
<1>1. Len(q) \in Nat /\ DOMAIN q = 1..Len(q) /\ \A i \in 1..Len(q) : q[i] \in Message
  OBVIOUS
<1>2. \A i \in 1..Len(q) : ~Renaming(q[i])
  BY <1>1 DEF None, Of, Renaming
<1>3. h \in [1..Len(q) + 1 -> Nicks] /\ \A i \in 1..Len(q) + 1 : h[i] = n
  BY <1>1
<1> HIDE DEF h
<1>4. /\ h[Len(q) + 1] = n /\ h[1] = n /\ 1 \in 1..Len(q) + 1
      /\ \A i \in 1..Len(q) : h[i + 1] = h[i]
  BY <1>1, <1>3
<1> QED BY <1>2, <1>3, <1>4 DEF Told

\* Where a nick is, of those on their way.
LEMMA OneNick ==
  ASSUME NEW q \in Seq(Message), q # <<>>, NEW n,
         One(q, Of({"NICK"})), ~None(q, NickOf(n)), Head(q).m = "NICK"
  PROVE  Head(q).a = n
<1>1. Head(q) \in Of({"NICK"}) /\ Head(q) \in Message
  BY ReadQueue, KindOf
<1>2. None(Tail(q), Of({"NICK"}))
  BY <1>1, ReadQueue
<1>3. None(Tail(q), NickOf(n))
  <2>1. NickOf(n) \subseteq Of({"NICK"})
    BY DEF NickOf, Of
  <2> QED BY <1>2, <2>1, OneIsSome
<1>4. Head(q) \in NickOf(n)
  BY <1>3, ReadQueue
<1> QED BY <1>4 DEF NickOf

\* A connection opens: one nick is asked for.
LEMMA NamingOpens ==
  ASSUME AInv, Opens
  PROVE  Naming'
<1>1. nick \in Nicks /\ nick' = nick /\ toServer' = Greeting /\ toClient' = <<>> /\ srv' = NoServer
  BY Queued DEF AInv, Opens
<1>2. One(Greeting, Of({"NICK"})) /\ ~None(Greeting, NickOf(nick))
  <2>1. /\ Say("CAP LS") \notin Of({"NICK"}) /\ Say("USER") \notin Of({"NICK"})
        /\ Msg("NICK", nick, <<>>) \in Of({"NICK"}) /\ Msg("NICK", nick, <<>>) \in NickOf(nick)
    <3>1. /\ Say("CAP LS").m = "CAP LS" /\ Say("USER").m = "USER"
          /\ Msg("NICK", nick, <<>>).m = "NICK" /\ Msg("NICK", nick, <<>>).a = nick
      BY DEF Say, Msg
    <3>2. Msg("NICK", nick, <<>>) \in Message
      BY <1>1, NickIsMessage DEF Nicks
    <3> QED BY <3>1, <3>2 DEF Of, NickOf
  <2> QED BY <1>1, <2>1, Greets
<1>3. ~NoServer.up /\ ~NoServer.named /\ NoServer.nick \in Nicks
  <2>1. <<>> \in Seq(Char) /\ Len(<<>>) <= NickCap
    BY SessionAssumption DEF SessionAssumption
  <2> QED BY <2>1 DEF NoServer, Nicks
<1>4. \A M : None(<<>>, M)
  BY ShortQueue
<1> QED BY <1>1, <1>2, <1>3, <1>4 DEF Naming, Asked

\* The client reads a line: a refusal, after which it asks for the next nick; a
\* change of its nick; or something else.
LEMMA NamingReads ==
  ASSUME AInv, alive, Naming, NEW m \in Message, ClientReads(m)
  PROVE  Naming'
<1> SUFFICES ASSUME ~srv.long PROVE Naming'
  BY DEF Naming, ClientReads
<1>0. /\ toServer \in Seq(Message) /\ toClient \in Seq(Message) /\ srv \in ServerEnd
      /\ nick \in Nicks /\ srv.nick \in Nicks
  BY Queued DEF AInv, Naming
<1>1. /\ toClient # <<>> /\ m = Head(toClient) /\ toClient' = Tail(toClient) /\ srv' = srv
      /\ toServer' = toServer \o Reply(m) /\ nick' = NickAfter(m) /\ toClient' \in Seq(Message)
  BY <1>0, ReadQueue DEF ClientReads
<1>2. \A M : /\ None(toClient, M) => m \notin M /\ None(toClient', M)
             /\ One(toClient, M) /\ m \in M => None(toClient', M)
             /\ One(toClient, M) /\ m \notin M => One(toClient', M)
             /\ m \notin M /\ None(toClient', M) => None(toClient, M)
  BY <1>0, <1>1, ReadQueue
<1>3. Reply(m) \in Seq(Message)
  BY <1>0, ReplyType
<1>4. \A M : /\ None(toServer', M) <=> None(toServer, M) /\ None(Reply(m), M)
             /\ One(toServer, M) /\ None(Reply(m), M) => One(toServer', M)
             /\ None(toServer, M) /\ One(Reply(m), M) => One(toServer', M)
  BY <1>0, <1>1, <1>3, JoinedQueues
<1>5. CASE m.m = "433"
  <2> DEFINE x == Msg("NICK", Retried(nick), <<>>)
  <2>1. nick' = Retried(nick) /\ Reply(m) = <<x>>
    BY <1>1, <1>5 DEF NickAfter, Reply
  <2>2. x \in Message /\ x \in Of({"NICK"}) /\ x \in NickOf(Retried(nick))
    <3>1. x \in Message /\ x.m = "NICK" /\ x.a = Retried(nick)
      BY <1>0, NickIsMessage, NickFits DEF Msg, Nicks
    <3> QED BY <3>1 DEF Of, NickOf
  <2> HIDE DEF x
  <2>3. One(Reply(m), Of({"NICK"})) /\ ~None(Reply(m), NickOf(nick'))
    <3>1. One(<<x>>, Of({"NICK"}))
      BY <2>2, ShortQueue
    <3>2. ~None(<<x>>, NickOf(Retried(nick)))
      BY <2>2, ShortQueue
    <3> QED BY <2>1, <3>1, <3>2
  <2>4. m \in Of({"433"})
    BY <1>5, KindOf
  <2>5. ASSUME ~srv.up PROVE Asked'
    <3>1. ~srv.named /\ None(toServer, Of({"NICK"})) /\ One(toClient, Of({"433"}))
      BY <1>2, <2>4, <2>5 DEF Naming, Asked
    <3> QED BY <1>1, <1>2, <1>4, <2>3, <2>4, <2>5, <3>1 DEF Naming, Asked
  <2>6. ASSUME srv.up PROVE \E h : Told(h, toClient', srv.nick) /\ Known(h)'
    <3> PICK h : Told(h, toClient, srv.nick)
      BY <2>6 DEF Naming
    <3> PICK g : Told(g, toClient', srv.nick)
      BY <1>0, <1>1, ToldReads
    <3>1. ~None(toServer', NickOf(nick'))
      BY <1>4, <2>3
    <3> QED BY <3>1 DEF Known
  <2> QED BY <1>0, <1>1, <2>5, <2>6 DEF Naming
<1>6. CASE m.m # "433"
  <2>1. None(Reply(m), Of({"NICK"}))
    <3>1. CASE Reply(m) = <<>>
      BY <3>1, ShortQueue
    <3>2. CASE \E x \in Message : Reply(m) = <<x>> /\ ReplyTo(m, x)
      <4>1. \A x : ReplyTo(m, x) => x.m # "NICK"
        BY <1>6 DEF ReplyTo
      <4> QED BY <3>2, <4>1, NoneAnswered
    <3> QED BY <1>0, <3>1, <3>2, ReplyIs
  <2>2. m \notin Of({"433"})
    BY <1>6, KindOf
  <2>3. m.m = "NICK" => m \in Of({"001", "NICK"})
    BY KindOf
  <2>4. ASSUME ~srv.up PROVE Asked'
    <3>1. None(toClient, Of({"001", "NICK"})) /\ Asked
      BY <2>4 DEF Naming, AInv, Heralds
    <3>2. nick' = nick
      BY <1>1, <1>2, <1>6, <2>3, <3>1 DEF NickAfter
    <3> QED BY <1>1, <1>2, <1>4, <2>1, <2>2, <3>1, <3>2 DEF Asked
  <2>5. ASSUME srv.up PROVE \E h : Told(h, toClient', srv.nick) /\ Known(h)'
    <3> PICK h : Told(h, toClient, srv.nick) /\ Known(h)
      BY <2>5 DEF Naming
    <3> PICK g : /\ Told(g, toClient', srv.nick)
                 /\ \A i \in 1..Len(toClient') + 1 : g[i] = h[i + 1]
      BY <1>0, <1>1, ToldReads
    <3>1. /\ Renaming(m) => h[1] = m.a /\ h[2] = m.b
          /\ ~Renaming(m) => h[2] = h[1]
          /\ h[2] \in Nicks
          /\ Len(toClient) = Len(toClient') + 1 /\ Len(toClient') \in Nat
      BY <1>0, <1>1, ToldReads
    <3>2. g[1] = h[2] /\ 1 \in 1..Len(toClient') + 1
      <4>1. 1 \in 1..Len(toClient') + 1 /\ 1 + 1 = 2
        BY <3>1
      <4> QED BY <4>1
    <3>3. CASE Renaming(m) /\ m.a = nick
      <4>1. nick' = m.b
        BY <1>1, <3>1, <3>3, NickFits DEF NickAfter, Renaming
      <4> QED BY <3>1, <3>2, <3>3, <4>1 DEF Known
    <3>4. CASE ~(Renaming(m) /\ m.a = nick)
      <4>1. nick' = nick
        BY <1>0, <1>1, <1>6, <3>4, NickFits DEF NickAfter, Renaming
      <4>5. CASE ~Valid(nick)
        BY <4>1, <4>5 DEF Known
      <4>2. CASE ~None(toClient, Of({"433"}))
        BY <1>2, <2>2, <4>2 DEF Known
      <4>3. CASE ~None(toServer, NickOf(nick))
        BY <1>4, <4>1, <4>3 DEF Known
      <4>4. CASE \E i \in 1..Len(toClient) + 1 : h[i] = nick
        <5> PICK i \in 1..Len(toClient) + 1 : h[i] = nick
          BY <4>4
        <5>1. CASE i = 1
          <6>1. g[1] = nick
            BY <3>1, <3>2, <3>4, <5>1
          <6> QED BY <3>2, <4>1, <6>1 DEF Known
        <5>2. CASE i # 1
          <6>1. i - 1 \in 1..Len(toClient') + 1 /\ g[i - 1] = nick
            BY <3>1, <5>2
          <6> QED BY <4>1, <6>1 DEF Known
        <5> QED BY <5>1, <5>2
      <4> QED BY <4>2, <4>3, <4>4, <4>5 DEF Known
    <3> QED BY <3>3, <3>4
  <2> QED BY <1>0, <1>1, <2>4, <2>5 DEF Naming
<1> QED BY <1>5, <1>6

\* What the client says more, no nick before the welcome.
LEMMA NamingAdds ==
  ASSUME Naming, toServer \in Seq(Message), NEW s \in Seq(Message), toServer' = toServer \o s,
         UNCHANGED <<toClient, srv, nick>>,
         ~srv.up => None(s, Of({"NICK"}))
  PROVE  Naming'
<1>1. \A M : /\ None(toServer', M) => None(toServer, M)
             /\ None(toServer, M) /\ None(s, M) => None(toServer', M)
             /\ One(toServer, M) /\ None(s, M) => One(toServer', M)
  BY JoinedQueues
<1>2. ASSUME ~srv.up, Asked PROVE Asked'
  BY <1>1, <1>2 DEF Asked
<1>3. ASSUME NEW h, Known(h) PROVE Known(h)'
  BY <1>1, <1>3 DEF Known
<1> QED BY <1>2, <1>3 DEF Naming

\* The next channel's message.
LEMMA NextIsMessage ==
  ASSUME AInv, ClientJoins
  PROVE  LET x == Msg("JOIN", Listed[joined + 1], <<>>)
         IN  x \in Message /\ x.m = "JOIN"
<1>1. joined + 1 \in 1..Len(Listed)
  BY Queued, ListType DEF AInv, ClientJoins
<1>2. Listed[joined + 1] \in Channel
  BY <1>1, ListType
<1>3. Msg("JOIN", Listed[joined + 1], <<>>).m = "JOIN"
  BY DEF Msg
<1> QED BY <1>2, <1>3, ChannelIsMessage

\* The client says something: no nick before the welcome.
LEMMA NamingSays ==
  ASSUME "early nick" \notin Typed,
         AInv, alive, Naming, NEW r \in Seq(Message), ClientSays(r)
  PROVE  Naming'
<1>0. toServer \in Seq(Message)
  BY Queued DEF AInv
<1>2. toServer' = toServer \o r /\ UNCHANGED <<toClient, srv, nick>>
  BY DEF ClientSays
<1>3. ASSUME ~srv.up PROVE None(r, Of({"NICK"}))
  <2>1. ~registered
    BY <1>3 DEF AInv, Heralds
  <2>2. r \in {<<>>} \cup {<<x>> : x \in Chat}
    BY <2>1 DEF ClientSays, MayRename
  <2>3. \A x \in Chat : x \in Message /\ x.m # "NICK"
    BY DEF Chat, Of
  <2>4. None(r, Of({"NICK"}))
    <3>1. CASE r = <<>>
      BY <3>1, ShortQueue
    <3>2. ASSUME NEW x \in Chat, r = <<x>> PROVE None(r, Of({"NICK"}))
      <4>1. x \in Message /\ x.m \notin {"NICK"}
        BY <2>3
      <4> QED BY <3>2, <4>1, NoneAnswered
    <3> QED BY <2>2, <3>1, <3>2
  <2> QED BY <2>4
<1> QED BY <1>0, <1>2, <1>3, NamingAdds

\* The client comes to a channel: no nick.
LEMMA NamingJoins ==
  ASSUME AInv, alive, Naming, ClientJoins
  PROVE  Naming'
<1>0. toServer \in Seq(Message)
  BY Queued DEF AInv
<1>1. UNCHANGED <<toClient, srv, nick>>
  BY DEF ClientJoins
<1>2. CASE toServer' = toServer
  BY <1>1, <1>2 DEF Naming, Asked, Known
<1>3. CASE toServer' = toServer \o <<Msg("JOIN", Listed[joined + 1], <<>>)>>
  <2> DEFINE x == Msg("JOIN", Listed[joined + 1], <<>>)
  <2>1. x \in Message /\ x.m \notin {"NICK"}
    BY NextIsMessage
  <2> HIDE DEF x
  <2>2. <<x>> \in Seq(Message) /\ None(<<x>>, Of({"NICK"}))
    BY <2>1, NoneAnswered
  <2>3. toServer' = toServer \o <<x>>
    BY <1>3 DEF x
  <2> QED BY <1>0, <1>1, <2>2, <2>3, NamingAdds
<1> QED BY <1>2, <1>3 DEF ClientJoins

\* The server says something unasked, another's change of nick perhaps.
LEMMA NamingTalks ==
  ASSUME AInv, Naming, NEW r \in Seq(Message), ServerTalks(r)
  PROVE  Naming'
<1>0. /\ toClient \in Seq(Message) /\ srv \in ServerEnd
  BY Queued DEF AInv
<1>1. /\ toClient' = toClient \o r /\ UNCHANGED <<toServer, nick>>
      /\ srv'.up = srv.up /\ srv'.named = srv.named /\ srv'.nick = srv.nick
      /\ srv'.long = srv.long
  BY <1>0 DEF ServerTalks, ServerEnd
<1> SUFFICES ASSUME ~srv.long PROVE Naming'
  BY <1>1 DEF Naming
<1>4. srv.nick \in Nicks
  BY DEF Naming
<1>2. CASE r = <<>>
  <2>1. toClient' = toClient
    BY <1>0, <1>1, <1>2
  <2> QED BY <1>1, <2>1 DEF Naming, Asked, Known
<1>3. CASE r # <<>>
  <2>1. srv.up /\ r \in {<<x>> : x \in Unasked}
    BY <1>3 DEF ServerTalks
  <2> PICK x \in Unasked : r = <<x>>
    BY <2>1
  <2>2. x \in Message /\ ~Renaming(x)
    <3>1. \A n \in InUse : Msg("NICK", n, n) \in Message /\ ~Renaming(Msg("NICK", n, n))
      BY NickIsMessage, SessionAssumption DEF SessionAssumption, Renaming, Msg
    <3>2. \A y \in Of({"PING", "PRIVMSG", "KICK"}) : y \in Message /\ ~Renaming(y)
      BY DEF Of, Renaming
    <3> QED BY <3>1, <3>2 DEF Unasked
  <2> PICK h : Told(h, toClient, srv.nick) /\ Known(h)
    BY <2>1 DEF Naming
  <2> PICK g : /\ Told(g, toClient', srv.nick)
               /\ Len(toClient') = Len(toClient) + 1
               /\ \A i \in 1..Len(toClient) + 1 : g[i] = h[i]
    BY <1>0, <1>1, <1>4, <2>2, ToldAdds
  <2>3. \A M : None(toClient', M) => None(toClient, M)
    BY <1>0, <1>1, <2>2, JoinedQueues
  <2>4. Known(g)'
    <3>1. \A i \in 1..Len(toClient) + 1 : i \in 1..Len(toClient') + 1
      BY <1>0
    <3> QED BY <1>1, <2>3, <3>1 DEF Known
  <2> QED BY <1>1, <1>4, <2>1, <2>4 DEF Naming
<1> QED BY <1>2, <1>3

\* The server reads a line: a nick, which it refuses or goes by, or another.
LEMMA NamingHears ==
  ASSUME AInv, alive, Naming, NEW m \in Message, NEW answer \in Seq(Message), ServerHears(m, answer)
  PROVE  Naming'
<1> DEFINE w == IF srv'.up /\ ~srv.up THEN <<Say("001")>> ELSE <<>>
           nicks == Of({"NICK"})
           refusals == Of({"433"})
<1>a. srv \in ServerEnd
  BY Queued DEF AInv
<1>b. srv'.long = (srv.long \/ (m.m = "NICK" /\ Free(m.a) /\ Len(m.a) > NickCap))
  BY <1>a, ServerAfter DEF ServerHears
<1> SUFFICES ASSUME ~srv'.long PROVE Naming'
  BY DEF Naming
<1>c. ~srv.long /\ srv.nick \in Nicks
  BY <1>a, <1>b DEF Naming, ServerEnd
<1>d. m.m = "NICK" /\ Free(m.a) => m.a \in Nicks
  <2> SUFFICES ASSUME m.m = "NICK", Free(m.a) PROVE m.a \in Nicks
    OBVIOUS
  <2>1. m.a \in Seq(Char) /\ Len(m.a) \in Nat
    BY DEF Message
  <2>2. ~(Len(m.a) > NickCap)
    BY <1>b
  <2>3. NickCap \in Nat
    BY SessionAssumption DEF SessionAssumption
  <2> QED BY <2>1, <2>2, <2>3 DEF Nicks
<1>0. /\ toServer \in Seq(Message) /\ toClient \in Seq(Message) /\ srv \in ServerEnd
      /\ nick \in Nicks /\ srv.nick \in Nicks
  BY <1>c, Queued DEF AInv
<1>1. /\ toServer # <<>> /\ m = Head(toServer) /\ toServer' = Tail(toServer) /\ answer \in Answers(m)
      /\ toClient' = toClient \o (answer \o w) /\ nick' = nick
  BY DEF ServerHears
<1>2. /\ srv'.named = (srv.named \/ (m.m = "NICK" /\ Free(m.a)))
      /\ srv'.nick = (IF m.m = "NICK" /\ Free(m.a) THEN m.a ELSE srv.nick)
      /\ srv'.nick \in Nicks
      /\ srv'.up = (srv.up \/ (srv'.named /\ srv'.user /\ ~srv'.holding))
  BY <1>0, <1>d, ServerAfter DEF ServerHears
<1>3. \A M : /\ None(toServer, M) => m \notin M /\ None(toServer', M)
             /\ One(toServer, M) /\ m \in M => None(toServer', M)
             /\ One(toServer, M) /\ m \notin M => One(toServer', M)
             /\ m \notin M /\ None(toServer', M) => None(toServer, M)
  BY <1>0, <1>1, ReadQueue
<1>4. \/ answer = <<>> /\ m.m \notin Asks /\ ~(m.m = "NICK" /\ ~Free(m.a))
            /\ ~(m.m = "NICK" /\ srv.up /\ m.a # srv.nick)
      \/ \E x \in Message : answer = <<x>> /\ AnswerTo(m, x)
  BY <1>0, <1>1, AnswerIs
<1>5. w \in Seq(Message) /\ None(w, nicks) /\ None(w, refusals) /\ (~(srv'.up /\ ~srv.up) => w = <<>>)
  <2>1. \A S : "001" \notin S => None(<<Say("001")>>, Of(S))
    BY WelcomeIs, NoneAnswered
  <2>2. None(<<>>, nicks) /\ None(<<>>, refusals)
    BY ShortQueue
  <2> QED BY <2>1, <2>2, WelcomeIs
<1> HIDE DEF w
<1>6. answer \o w \in Seq(Message) /\ toClient' \in Seq(Message)
  BY <1>0, <1>1, <1>5, JoinedQueues
<1>7. \A M : None(toClient', M) <=> None(toClient, M) /\ None(answer, M) /\ None(w, M)
  BY <1>0, <1>1, <1>5, <1>6, JoinedQueues
<1>8. m.m = "NICK" <=> m \in nicks
  BY KindOf
<1>9. CASE ~srv.up
  <2>1. None(toClient, nicks) /\ Asked
    <3>1. None(toClient, Of({"001", "NICK"}))
      BY <1>9 DEF AInv, Heralds
    <3>2. nicks \subseteq Of({"001", "NICK"})
      BY DEF Of
    <3>3. None(toClient, nicks)
      BY <3>1, <3>2, OneIsSome
    <3> QED BY <1>9, <1>c, <3>3 DEF Naming
  <2>2. None(answer, nicks)
    <3>1. CASE answer = <<>>
      BY <3>1, ShortQueue
    <3>2. ASSUME NEW x \in Message, answer = <<x>>, AnswerTo(m, x) PROVE None(answer, nicks)
      <4>1. x.m \notin {"NICK"}
        BY <1>9, <3>2, SessionAssumption DEF AnswerTo, SessionAssumption
      <4> QED BY <3>2, <4>1, NoneAnswered
    <3> QED BY <1>4, <3>1, <3>2
  <2>3. Asked'
    <3>1. CASE m.m = "NICK"
      <4>1. ~srv.named /\ One(toServer, nicks) /\ ~None(toServer, NickOf(nick)) /\ None(toClient, refusals)
        BY <1>3, <1>8, <2>1, <3>1 DEF Asked
      <4>2. m.a = nick /\ None(toServer', nicks)
        BY <1>0, <1>1, <1>3, <1>8, <3>1, <4>1, OneNick
      <4>3. CASE Valid(m.a) /\ m.a \in InUse
        <5>1. ~srv'.named /\ w = <<>>
          BY <1>2, <1>5, <1>9, <4>1, <4>3 DEF Free
        <5>2. One(answer, refusals)
          <6> PICK x \in Message : answer = <<x>> /\ AnswerTo(m, x)
            BY <1>4, <3>1, <4>3 DEF Free
          <6>1. x.m \in {"433"}
            BY <1>9, <3>1, <4>3 DEF AnswerTo, Free
          <6> QED BY <6>1, NoneAnswered
        <5>3. One(answer \o w, refusals)
          BY <1>5, <5>2, JoinedQueues
        <5>4. One(toClient', refusals)
          BY <1>0, <1>1, <1>6, <4>1, <5>3, JoinedQueues
        <5> QED BY <4>2, <5>1, <5>4 DEF Asked
      <4>5. CASE ~Valid(m.a)
        <5>1. ~srv'.named /\ w = <<>>
          BY <1>2, <1>5, <1>9, <4>1, <4>5 DEF Free
        <5>2. None(answer, refusals)
          <6> PICK x \in Message : answer = <<x>> /\ AnswerTo(m, x)
            BY <1>4, <3>1, <4>5 DEF Free
          <6>1. x.m \notin {"433"}
            BY <3>1, <4>5 DEF AnswerTo, Free
          <6> QED BY <6>1, NoneAnswered
        <5>3. None(toClient', refusals)
          BY <1>5, <1>7, <4>1, <5>2
        <5>4. ~Valid(nick')
          BY <1>1, <4>2, <4>5
        <5> QED BY <4>2, <5>1, <5>3, <5>4 DEF Asked
      <4>4. CASE Free(m.a)
        <5>1. srv'.named /\ srv'.nick = nick'
          BY <1>1, <1>2, <3>1, <4>2, <4>4
        <5>2. answer = <<>>
          <6>1. \A x : ~AnswerTo(m, x)
            BY <1>9, <3>1, <4>4 DEF AnswerTo, Free
          <6> QED BY <1>4, <6>1
        <5>3. None(toClient', refusals)
          BY <1>5, <1>7, <4>1, <5>2, ShortQueue
        <5> QED BY <4>2, <5>1, <5>3 DEF Asked
      <4> QED BY <4>3, <4>4, <4>5 DEF Free
    <3>2. CASE m.m # "NICK"
      <4>1. srv'.named = srv.named /\ srv'.nick = srv.nick
        BY <1>0, <1>2, <3>2 DEF ServerEnd
      <4>2. None(answer, refusals)
        <5>1. CASE answer = <<>>
          BY <5>1, ShortQueue
        <5>2. ASSUME NEW x \in Message, answer = <<x>>, AnswerTo(m, x) PROVE None(answer, refusals)
          <6>1. x.m \notin {"433"}
            BY <3>2, <5>2, SessionAssumption DEF AnswerTo, SessionAssumption
          <6> QED BY <5>2, <6>1, NoneAnswered
        <5> QED BY <1>4, <5>1, <5>2
      <4>3. m \notin nicks /\ m \notin NickOf(nick)
        BY <1>8, <3>2 DEF NickOf
      <4>4. /\ None(toServer, nicks) => None(toServer', nicks)
            /\ One(toServer, nicks) => One(toServer', nicks)
            /\ None(toServer', NickOf(nick)) => None(toServer, NickOf(nick))
        BY <1>3, <4>3
      <4>8. CASE /\ ~srv.named /\ ~Valid(nick) /\ None(toServer, nicks)
                 /\ None(toClient, refusals)
        BY <1>1, <1>5, <1>7, <4>1, <4>2, <4>4, <4>8 DEF Asked
      <4>5. CASE srv.named /\ srv.nick = nick /\ None(toServer, nicks) /\ None(toClient, refusals)
        BY <1>1, <1>5, <1>7, <4>1, <4>2, <4>4, <4>5 DEF Asked
      <4>6. CASE ~srv.named /\ One(toServer, nicks) /\ ~None(toServer, NickOf(nick)) /\ None(toClient, refusals)
        BY <1>1, <1>5, <1>7, <4>1, <4>2, <4>4, <4>6 DEF Asked
      <4>7. CASE ~srv.named /\ None(toServer, nicks) /\ One(toClient, refusals)
        <5>1. None(answer \o w, refusals)
          BY <1>5, <4>2, JoinedQueues
        <5>2. One(toClient', refusals)
          BY <1>0, <1>1, <1>6, <4>7, <5>1, JoinedQueues
        <5> QED BY <4>1, <4>4, <4>7, <5>2 DEF Asked
      <4> QED BY <2>1, <4>5, <4>6, <4>7, <4>8 DEF Asked
    <3> QED BY <3>1, <3>2
  <2>4. None(toClient', nicks)
    BY <1>5, <1>7, <2>1, <2>2
  <2>5. ASSUME srv'.up PROVE \E h : Told(h, toClient', srv'.nick) /\ Known(h)'
    <3>1. srv'.nick = nick'
      BY <1>2, <1>9, <2>3, <2>5 DEF Asked
    <3>2. \E h : Told(h, toClient', nick') /\ h[1] = nick' /\ 1 \in 1..Len(toClient') + 1
      <4>1. nick' \in Nicks
        BY <1>0, <1>1
      <4> HIDE DEF nicks
      <4>2. \A q \in Seq(Message), n \in Nicks :
              None(q, nicks) => \E h : Told(h, q, n) /\ h[1] = n /\ 1 \in 1..Len(q) + 1
        BY ToldNone DEF nicks
      <4> QED BY <1>6, <2>4, <4>1, <4>2
    <3> PICK h : Told(h, toClient', srv'.nick) /\ h[1] = nick' /\ 1 \in 1..Len(toClient') + 1
      BY <3>1, <3>2
    <3> QED BY DEF Known
  <2> QED BY <1>2, <2>3, <2>5 DEF Naming
<1>10. CASE srv.up
  <2>1. srv'.up /\ w = <<>>
    BY <1>2, <1>5, <1>10
  <2>2. toClient' = toClient \o answer
    <3>1. \A q \in Seq(Message) : q \o <<>> = q
      OBVIOUS
    <3> QED BY <1>1, <2>1, <3>1
  <2> PICK h : Told(h, toClient, srv.nick) /\ Known(h)
    BY <1>10, <1>c DEF Naming
  <2>3. m \in NickOf(nick) \/ (~None(toServer, NickOf(nick)) => ~None(toServer', NickOf(nick)))
    BY <1>3
  <2>4. m \in NickOf(nick) => m.m = "NICK" /\ m.a = nick
    BY DEF NickOf
  <2>5. Len(toClient) \in Nat /\ h[Len(toClient) + 1] = srv.nick
    BY <1>0 DEF Told
  <2>6. CASE answer = <<>> /\ ~(m.m = "NICK" /\ ~Free(m.a)) /\ ~(m.m = "NICK" /\ m.a # srv.nick)
    <3>1. srv'.nick = srv.nick
      BY <1>2, <2>6
    <3>2. toClient' = toClient
      BY <1>0, <2>2, <2>6
    <3>3. CASE m \in NickOf(nick)
      <4>1. h[Len(toClient) + 1] = nick /\ Len(toClient) + 1 \in 1..Len(toClient) + 1
        BY <2>4, <2>5, <2>6, <3>3
      <4> QED BY <1>1, <1>2, <2>1, <3>1, <3>2, <4>1 DEF Naming, Known
    <3>4. CASE m \notin NickOf(nick)
      <4>1. Known(h)'
        BY <1>1, <2>3, <3>2, <3>4 DEF Known
      <4> QED BY <1>2, <2>1, <3>1, <3>2, <4>1 DEF Naming
    <3> QED BY <3>3, <3>4
  <2>7. ASSUME NEW x \in Message, answer = <<x>>, AnswerTo(m, x) PROVE Naming'
    <3>1. srv'.nick \in Nicks
      BY <1>2
    <3>2. x.m = "NICK" => x = Msg("NICK", srv.nick, m.a) /\ m.m = "NICK" /\ Free(m.a) /\ m.a # srv.nick
      BY <2>7, SessionAssumption DEF AnswerTo, SessionAssumption
    <3>3. m.m = "NICK" /\ Free(m.a) => x = Msg("NICK", srv.nick, m.a) /\ x.m = "NICK"
      BY <2>7 DEF AnswerTo, Free
    <3>4. Renaming(x) => x.a = srv.nick /\ x.b = srv'.nick
      BY <1>2, <3>2 DEF Renaming, Msg
    <3>5. ~Renaming(x) => srv'.nick = srv.nick
      <4>1. ASSUME srv'.nick # srv.nick PROVE Renaming(x)
        <5>1. m.m = "NICK" /\ Free(m.a)
          BY <1>2, <4>1
        <5>2. x = Msg("NICK", srv.nick, m.a) /\ x.m = "NICK" /\ m.a # srv.nick
          BY <3>2, <3>3, <5>1
        <5> QED BY <5>2 DEF Renaming, Msg
      <4> QED BY <4>1
    <3> PICK g : /\ Told(g, toClient', srv'.nick)
                 /\ Len(toClient') = Len(toClient) + 1
                 /\ \A i \in 1..Len(toClient) + 1 : g[i] = h[i]
                 /\ g[Len(toClient) + 2] = srv'.nick
      <4>1. toClient' = toClient \o <<x>>
        BY <2>2, <2>7
      <4>2. \E g : /\ Told(g, toClient \o <<x>>, srv'.nick)
                   /\ Len(toClient \o <<x>>) = Len(toClient) + 1
                   /\ \A i \in 1..Len(toClient) + 1 : g[i] = h[i]
                   /\ g[Len(toClient) + 2] = srv'.nick
        <5> DEFINE n == srv.nick
                   k == srv'.nick
        <5>1. /\ n \in Nicks /\ k \in Nicks /\ Told(h, toClient, n)
              /\ (Renaming(x) => x.a = n /\ x.b = k) /\ (~Renaming(x) => k = n)
          BY <1>0, <3>1, <3>4, <3>5
        <5> HIDE DEF n, k
        <5>2. \E g : /\ Told(g, toClient \o <<x>>, k)
                     /\ Len(toClient \o <<x>>) = Len(toClient) + 1
                     /\ \A i \in 1..Len(toClient) + 1 : g[i] = h[i]
                     /\ g[Len(toClient) + 2] = k
          BY <1>0, <5>1, ToldAdds, SMTT(20)
        <5> QED BY <5>2 DEF k
      <4> QED BY <4>1, <4>2
    <3>6. /\ \A i \in 1..Len(toClient) + 1 : i \in 1..Len(toClient') + 1
          /\ Len(toClient) + 2 \in 1..Len(toClient') + 1
      BY <2>5
    <3>7. CASE m \in NickOf(nick)
      <4>1. CASE Valid(m.a) /\ m.a \in InUse
        <5>1. x.m \in {"433"}
          BY <2>4, <2>7, <3>7, <4>1 DEF AnswerTo, Free
        <5>2. ~None(answer, refusals)
          BY <2>7, <5>1, NoneAnswered, OneIsSome
        <5>3. Known(g)'
          BY <1>7, <5>2 DEF Known
        <5> QED BY <2>1, <3>1, <5>3 DEF Naming
      <4>2. CASE Free(m.a)
        <5>1. g[Len(toClient) + 2] = nick'
          BY <1>1, <1>2, <2>4, <3>7, <4>2
        <5>2. Known(g)'
          BY <3>6, <5>1 DEF Known
        <5> QED BY <2>1, <3>1, <5>2 DEF Naming
      <4>3. CASE ~Valid(m.a)
        <5>1. ~Valid(nick')
          BY <1>1, <2>4, <3>7, <4>3
        <5>2. Known(g)'
          BY <5>1 DEF Known
        <5> QED BY <2>1, <3>1, <5>2 DEF Naming
      <4> QED BY <4>1, <4>2, <4>3 DEF Free
    <3>8. CASE m \notin NickOf(nick)
      <4>1. Known(g)'
        BY <1>1, <1>7, <2>3, <3>6, <3>8 DEF Known
      <4> QED BY <2>1, <3>1, <4>1 DEF Naming
    <3> QED BY <3>7, <3>8
  <2> QED BY <1>4, <1>10, <2>6, <2>7
<1> QED BY <1>9, <1>10

\* The client's nick is asked for, or gone by, whatever is said.
LEMMA NamingStep ==
  ASSUME "early nick" \notin Typed, AInv, alive => Naming, Said
  PROVE  Naming'
BY NamingOpens, NamingReads, NamingSays, NamingJoins, NamingHears, NamingTalks DEF Said

\* When all is said nothing is asked for, and the server goes by it.
LEMMA NamingAgrees ==
  ASSUME AInv, alive => Naming
  PROVE  NickAgrees
<1> SUFFICES ASSUME alive, toServer = <<>>, toClient = <<>>, ~srv.long, Valid(nick)
             PROVE  nick = srv.nick
  BY DEF NickAgrees, Settled
<1>1. \A M : None(toServer, M) /\ None(toClient, M) /\ ~One(toServer, M) /\ ~One(toClient, M)
  BY ShortQueue, OneIsSome
<1>2. CASE ~srv.up
  BY <1>1, <1>2 DEF Naming, Asked
<1>3. CASE srv.up
  <2> PICK h : Told(h, toClient, srv.nick) /\ Known(h)
    BY <1>3 DEF Naming
  <2>1. Len(toClient) = 0
    OBVIOUS
  <2>2. h[1] = srv.nick
    <3>1. Len(toClient) + 1 = 1
      BY <2>1
    <3> QED BY <3>1 DEF Told
  <2>3. \E i \in 1..Len(toClient) + 1 : h[i] = nick
    BY <1>1 DEF Known
  <2>4. \A i \in 1..Len(toClient) + 1 : i = 1
    BY <2>1
  <2> QED BY <2>2, <2>3, <2>4
<1> QED BY <1>2, <1>3

\* Once all is said, the client goes by the nick the server knows it by
\* (NickAgrees), unless the server took one nick[] has no room for, or trying
\* again has led to one it does not take.  The user is taken not to change nick
\* before the welcome, without which it is not so.
THEOREM NicksAgree ==
  ASSUME "early nick" \notin Typed
  PROVE  Spec => []NickAgrees
<1> DEFINE NInv == AInv /\ (alive => Naming)
<1>1. Init => NInv
  BY AInvInit DEF Init
<1>2. NInv /\ [Next]_vars => NInv'
  <2> SUFFICES ASSUME NInv, [Next]_vars PROVE NInv'
    OBVIOUS
  <2>1. AInv'
    BY AInvStep
  <2>2. ASSUME alive' PROVE Naming'
    BY <2>2, StepSays, NamingStep
  <2> QED BY <2>1, <2>2
<1>3. NInv => NickAgrees
  BY NamingAgrees
<1> QED BY <1>1, <1>2, <1>3, PTL DEF Spec

-----------------------------------------------------------------------------
(* The login *)

\* What the client and the server say to each other over the login.
NegS == {"CAP LS", "CAP REQ", "AUTHENTICATE PLAIN", "AUTHENTICATE login", "CAP END"}
NegC == {"CAP LS", "CAP LS sasl", "CAP ACK", "CAP NAK", "AUTHENTICATE", "903", "904", "905", "906",
         "907"}

\* No login, or it is over.
NoLogin ==
  /\ None(toServer, Of(NegS)) /\ None(toClient, Of(NegC)) /\ ~srv.holding
  /\ sasl_ok = srv.authed /\ (~nspass => ~sasl_ok)
\* It has been asked for, and nothing else was read before.
Begun ==
  /\ nspass /\ ~srv.authed /\ ~sasl_ok /\ ~srv.holding /\ ~srv.named /\ ~srv.user
  /\ One(toServer, Of(NegS)) /\ None(toClient, Of(NegC))
  /\ toServer # <<>> /\ Head(toServer).m = "CAP LS"
\* It is the server's turn to go on with it ...
Theirs ==
  /\ nspass /\ ~srv.authed /\ ~sasl_ok /\ srv.holding
  /\ One(toServer, Of(NegS)) /\ None(toServer, Of({"CAP LS", "CAP END"})) /\ None(toClient, Of(NegC))
\* ... or to end it ...
Ending ==
  /\ nspass /\ sasl_ok = srv.authed /\ srv.holding
  /\ One(toServer, Of(NegS)) /\ None(toServer, Of(NegS \ {"CAP END"})) /\ None(toClient, Of(NegC))
\* ... or the client's ...
Ours ==
  /\ nspass /\ ~srv.authed /\ ~sasl_ok /\ srv.holding
  /\ None(toServer, Of(NegS)) /\ One(toClient, Of(NegC)) /\ None(toClient, Of({"903"}))
\* ... which has yet to hear that it is identified.
Accepted ==
  /\ nspass /\ srv.authed /\ ~sasl_ok /\ srv.holding
  /\ None(toServer, Of(NegS)) /\ One(toClient, Of(NegC)) /\ None(toClient, Of(NegC \ {"903"}))
Login == NoLogin \/ Begun \/ Theirs \/ Ending \/ Ours \/ Accepted

\* What the welcome waits for is granted or under way, or the client has come to
\* a nick the server does not take; and the welcome is told once.
Welcome ==
  /\ srv.up <=> srv.named /\ srv.user /\ ~srv.holding
  /\ srv.user \/ ~None(toServer, Of({"USER"}))
  /\ \/ srv.named
     \/ ~Valid(nick)
     \/ ~None(toServer, NickOf(nick)) \/ ~None(toClient, Of({"433"}))
  /\ srv.up /\ ~registered => One(toClient, Of({"001"}))
  /\ registered => None(toClient, Of({"001"}))

\* The NickServ fallback is said once, after the welcome, and only if SASL did
\* not go through.
Ident ==
  \/ /\ registered /\ nspass /\ ~sasl_ok
     /\ \/ srv.identified = 1 /\ None(toServer, Of({"IDENTIFY"}))
        \/ srv.identified = 0 /\ One(toServer, Of({"IDENTIFY"}))
  \/ /\ ~(registered /\ nspass /\ ~sasl_ok)
     /\ srv.identified = 0 /\ None(toServer, Of({"IDENTIFY"}))

Registering == Login /\ Welcome /\ Ident

\* What no message is answered with is not among the answers, nor the replies.
LEMMA Unanswered ==
  ASSUME srv \in ServerEnd, NEW m \in Message, NEW answer \in Answers(m), NEW S,
         \A x : AnswerTo(m, x) => x.m \notin S
  PROVE  None(answer, Of(S))
<1>1. CASE answer = <<>>
  BY <1>1, ShortQueue
<1>2. ASSUME NEW x \in Message, answer = <<x>>, AnswerTo(m, x) PROVE None(answer, Of(S))
  BY <1>2, NoneAnswered
<1> QED BY <1>1, <1>2, AnswerIs
LEMMA Unreplied ==
  ASSUME NEW m \in Message, nick \in Nicks, NEW S, \A x : ReplyTo(m, x) => x.m \notin S
  PROVE  None(Reply(m), Of(S))
<1>1. CASE Reply(m) = <<>>
  BY <1>1, ShortQueue
<1>2. ASSUME NEW x \in Message, Reply(m) = <<x>>, ReplyTo(m, x) PROVE None(Reply(m), Of(S))
  BY <1>2, NoneAnswered
<1> QED BY <1>1, <1>2, ReplyIs

\* The head of a queue stays when more is said.
LEMMA HeadStays ==
  ASSUME NEW q \in Seq(Message), NEW r \in Seq(Message), q # <<>>
  PROVE  q \o r # <<>> /\ Head(q \o r) = Head(q)
OBVIOUS

\* A connection opens: the login is asked for if there is a password, a nick
\* is, and the welcome is to come.
LEMMA RegisteringOpens ==
  ASSUME AInv, Opens
  PROVE  Registering'
<1>1. /\ nick \in Nicks /\ nick' = nick
      /\ toServer' = Greeting /\ toClient' = <<>> /\ srv' = NoServer
      /\ nspass' = nspass /\ ~registered' /\ sasl_ok' = FALSE /\ nspass \in BOOLEAN
  BY Queued DEF AInv, Opens
<1>2. /\ ~NoServer.holding /\ ~NoServer.authed /\ ~NoServer.named /\ ~NoServer.user /\ ~NoServer.up
      /\ NoServer.identified = 0 /\ NoServer.authed = FALSE
  BY DEF NoServer
<1>3. \A S : /\ Say("CAP LS") \in Of(S) <=> "CAP LS" \in S
             /\ Say("USER") \in Of(S) <=> "USER" \in S
             /\ Msg("NICK", nick, <<>>) \in Of(S) <=> "NICK" \in S
             /\ Say("CAP LS") \notin NickOf(nick) /\ Say("USER") \notin NickOf(nick)
             /\ Msg("NICK", nick, <<>>) \in NickOf(nick)
  <2>1. Say("CAP LS") \in Message /\ Say("USER") \in Message
    BY SayIsMessage DEF Kinds
  <2>3. Msg("NICK", nick, <<>>) \in Message
    BY <1>1, NickIsMessage DEF Nicks
  <2>2. /\ Say("CAP LS").m = "CAP LS" /\ Say("USER").m = "USER"
        /\ Msg("NICK", nick, <<>>).m = "NICK" /\ Msg("NICK", nick, <<>>).a = nick
    BY DEF Say, Msg
  <2> QED BY <2>1, <2>2, <2>3, KindOf DEF NickOf
<1>4. Login'
  <2>1. CASE nspass
    <3>1. One(Greeting, Of(NegS)) /\ Head(Greeting) = Say("CAP LS")
      <4>1. "CAP LS" \in NegS /\ "USER" \notin NegS /\ "NICK" \notin NegS
        BY DEF NegS
      <4>2. /\ Say("CAP LS") \in Of(NegS) /\ Say("USER") \notin Of(NegS)
            /\ Msg("NICK", nick, <<>>) \notin Of(NegS)
        BY <1>3, <4>1
      <4> QED BY <1>1, <2>1, <4>2, Greets
    <3>2. Greeting # <<>> /\ Head(Greeting).m = "CAP LS"
      <4>1. Greeting # <<>>
        BY <3>1, OneIsSome
      <4>2. Say("CAP LS").m = "CAP LS"
        BY DEF Say, Msg
      <4> QED BY <3>1, <4>1, <4>2
    <3> QED BY <1>1, <1>2, <2>1, <3>1, <3>2, ShortQueue DEF Login, Begun
  <2>2. CASE ~nspass
    <3>1. None(Greeting, Of(NegS))
      <4>1. "USER" \notin NegS /\ "NICK" \notin NegS
        BY DEF NegS
      <4>2. Say("USER") \notin Of(NegS) /\ Msg("NICK", nick, <<>>) \notin Of(NegS)
        BY <1>3, <4>1
      <4> QED BY <1>1, <2>2, <4>2, Greets
    <3> QED BY <1>1, <1>2, <2>2, <3>1, ShortQueue DEF Login, NoLogin
  <2> QED BY <2>1, <2>2
<1>5. Welcome'
  <2>1. ~None(Greeting, Of({"USER"})) /\ ~None(Greeting, NickOf(nick))
    BY <1>1, <1>3, Greets
  <2> QED BY <1>1, <1>2, <2>1 DEF Welcome
<1>6. Ident'
  <2>1. None(Greeting, Of({"IDENTIFY"}))
    <3>1. /\ Say("CAP LS") \notin Of({"IDENTIFY"}) /\ Say("USER") \notin Of({"IDENTIFY"})
          /\ Msg("NICK", nick, <<>>) \notin Of({"IDENTIFY"})
      <4>1. "CAP LS" \notin {"IDENTIFY"} /\ "USER" \notin {"IDENTIFY"} /\ "NICK" \notin {"IDENTIFY"}
        OBVIOUS
      <4> QED BY <1>3, <4>1
    <3> QED BY <1>1, <3>1, Greets
  <2> QED BY <1>1, <1>2, <2>1 DEF Ident
<1> QED BY <1>4, <1>5, <1>6 DEF Registering

\* The client reads a line: the welcome, or what moves the login on, or another.
LEMMA RegisteringReads ==
  ASSUME AInv, alive, Registering, NEW m \in Message, ClientReads(m)
  PROVE  Registering'
<1>0. /\ toServer \in Seq(Message) /\ toClient \in Seq(Message) /\ srv \in ServerEnd /\ nick \in Nicks
      /\ registered \in BOOLEAN /\ sasl_ok \in BOOLEAN /\ nspass \in BOOLEAN /\ srv.authed \in BOOLEAN
  BY Queued DEF AInv, ServerEnd
<1>1. /\ toClient # <<>> /\ m = Head(toClient) /\ toClient' = Tail(toClient) /\ srv' = srv
      /\ toServer' = toServer \o Reply(m) /\ nspass' = nspass
      /\ registered' = (registered \/ m.m = "001") /\ sasl_ok' = (sasl_ok \/ m.m = "903")
  BY DEF ClientReads
<1>2. \A S : /\ None(toClient, Of(S)) => m.m \notin S /\ None(toClient', Of(S))
             /\ One(toClient, Of(S)) /\ m.m \in S => None(toClient', Of(S))
             /\ One(toClient, Of(S)) /\ m.m \notin S => One(toClient', Of(S))
             /\ m.m \notin S /\ None(toClient', Of(S)) => None(toClient, Of(S))
  BY <1>0, <1>1, ReadQueue, KindOf
<1>3. Reply(m) \in Seq(Message)
  BY <1>0, ReplyType
<1>4. \A S : /\ None(toServer', Of(S)) <=> None(toServer, Of(S)) /\ None(Reply(m), Of(S))
             /\ One(toServer, Of(S)) /\ None(Reply(m), Of(S)) => One(toServer', Of(S))
             /\ None(toServer, Of(S)) /\ One(Reply(m), Of(S)) => One(toServer', Of(S))
  BY <1>0, <1>1, <1>3, JoinedQueues
<1>5. Login'
  <2>1. CASE m.m \notin NegC
    <3>1. /\ None(Reply(m), Of(NegS)) /\ None(Reply(m), Of({"CAP LS", "CAP END"}))
          /\ None(Reply(m), Of(NegS \ {"CAP END"}))
      <4>1. \A x : ReplyTo(m, x) => x.m \notin NegS
        BY <2>1 DEF ReplyTo, NegC, NegS
      <4>2. \A S \in SUBSET NegS : None(Reply(m), Of(S))
        BY <1>0, <4>1, Unreplied
      <4> QED BY <4>2 DEF NegS
    <3>2. /\ One(toServer, Of(NegS)) => One(toServer', Of(NegS))
          /\ None(toServer, Of(NegS)) => None(toServer', Of(NegS))
          /\ None(toServer, Of({"CAP LS", "CAP END"})) => None(toServer', Of({"CAP LS", "CAP END"}))
          /\ None(toServer, Of(NegS \ {"CAP END"})) => None(toServer', Of(NegS \ {"CAP END"}))
          /\ One(toClient, Of(NegC)) => One(toClient', Of(NegC))
          /\ None(toClient, Of(NegC)) => None(toClient', Of(NegC))
          /\ None(toClient, Of({"903"})) => None(toClient', Of({"903"}))
          /\ None(toClient, Of(NegC \ {"903"})) => None(toClient', Of(NegC \ {"903"}))
      BY <1>2, <1>4, <2>1, <3>1
    <3>3. sasl_ok' = sasl_ok /\ (~sasl_ok => ~sasl_ok')
      BY <1>0, <1>1, <2>1 DEF NegC
    <3>4. CASE NoLogin
      BY <1>1, <3>2, <3>3, <3>4 DEF Login, NoLogin
    <3>5. CASE Begun
      <4>1. toServer' # <<>> /\ Head(toServer') = Head(toServer)
        BY <1>0, <1>1, <1>3, <3>5, HeadStays DEF Begun
      <4>2. Begun'
        BY <1>1, <3>2, <3>3, <3>5, <4>1 DEF Begun
      <4> QED BY <4>2 DEF Login
    <3>6. CASE Theirs
      BY <1>1, <3>2, <3>3, <3>6 DEF Login, Theirs
    <3>7. CASE Ending
      BY <1>1, <3>2, <3>3, <3>7 DEF Login, Ending
    <3>8. CASE Ours
      BY <1>1, <3>2, <3>3, <3>8 DEF Login, Ours
    <3>9. CASE Accepted
      BY <1>1, <3>2, <3>3, <3>9 DEF Login, Accepted
    <3> QED BY <3>4, <3>5, <3>6, <3>7, <3>8, <3>9 DEF Registering, Login
  <2>2. CASE m.m \in NegC
    <3>1. /\ nspass /\ ~sasl_ok /\ srv.holding /\ None(toServer, Of(NegS)) /\ One(toClient, Of(NegC))
          /\ \/ ~srv.authed /\ m.m # "903"
             \/ srv.authed /\ m.m = "903"
      <4>1. Ours \/ Accepted
        BY <1>2, <2>2 DEF Registering, Login, NoLogin, Begun, Theirs, Ending
      <4> QED BY <1>2, <2>2, <4>1 DEF Ours, Accepted
    <3>2. None(toClient', Of(NegC))
      BY <1>2, <2>2, <3>1
    <3> PICK x \in Message : Reply(m) = <<x>> /\ ReplyTo(m, x)
      BY <1>0, <2>2, ReplyIs DEF NegC
    <3>3. x.m \in NegS \ {"CAP LS"} /\ (m.m = "903" => x.m = "CAP END")
      BY <2>2 DEF ReplyTo, NegC, NegS
    <3>4. One(toServer', Of(NegS))
      BY <1>4, <3>1, <3>3, NoneAnswered
    <3>5. \A S \in SUBSET NegS : None(toServer, Of(S))
      BY <3>1, OneIsSome DEF Of
    <3>6. CASE x.m = "CAP END"
      <4>1. None(toServer', Of(NegS \ {"CAP END"}))
        BY <1>4, <3>5, <3>6, NoneAnswered
      <4>2. sasl_ok' = srv'.authed
        BY <1>0, <1>1, <3>1
      <4> QED BY <1>1, <3>1, <3>2, <3>4, <4>1, <4>2 DEF Login, Ending
    <3>7. CASE x.m # "CAP END"
      <4>1. None(toServer', Of({"CAP LS", "CAP END"}))
        BY <1>4, <3>3, <3>5, <3>7, NoneAnswered DEF NegS
      <4>2. ~sasl_ok' /\ ~srv'.authed
        BY <1>0, <1>1, <3>1, <3>3, <3>7
      <4> QED BY <1>1, <3>1, <3>2, <3>4, <4>1, <4>2 DEF Login, Theirs
    <3> QED BY <3>6, <3>7
  <2> QED BY <2>1, <2>2
<1>6. Welcome'
  <2>1. ~None(toServer, Of({"USER"})) => ~None(toServer', Of({"USER"}))
    BY <1>4
  <2>2. ASSUME m.m = "433" PROVE ~None(toServer', NickOf(nick'))
    <3> PICK x \in Message : Reply(m) = <<x>> /\ ReplyTo(m, x)
      BY <1>0, <2>2, ReplyIs
    <3>1. x = Msg("NICK", Retried(nick), <<>>)
      BY <2>2 DEF ReplyTo
    <3>2. x.m = "NICK" /\ x.a = Retried(nick)
      BY <3>1 DEF Msg
    <3>3. nick' = Retried(nick)
      BY <2>2 DEF ClientReads, NickAfter
    <3>4. x \in NickOf(nick')
      BY <3>2, <3>3 DEF NickOf
    <3>5. ~None(<<x>>, NickOf(nick'))
      BY <3>4, ShortQueue
    <3>6. ~None(Reply(m), NickOf(nick'))
      BY <3>5
    <3> QED BY <1>0, <1>1, <1>3, <3>6, JoinedQueues
  <2>3. \/ srv.named
        \/ ~Valid(nick')
        \/ ~None(toServer', NickOf(nick')) \/ ~None(toClient', Of({"433"}))
    <3>1. CASE m.m = "433"
      BY <2>2, <3>1
    <3>2. CASE srv.named
      BY <3>2
    <3>3. CASE m.m # "433" /\ ~srv.named
      <4>1. None(toClient, Of({"001", "NICK"}))
        BY <3>3 DEF Registering, Welcome, AInv, Heralds
      <4>2. nick' = nick
        BY <1>2, <3>3, <4>1 DEF ClientReads, NickAfter
      <4>3. ~None(toServer, NickOf(nick)) => ~None(toServer', NickOf(nick))
        BY <1>0, <1>1, <1>3, JoinedQueues
      <4> QED BY <1>2, <3>3, <4>2, <4>3 DEF Registering, Welcome
    <3> QED BY <3>1, <3>2, <3>3
  <2>4. CASE m.m = "001"
    <3>1. srv.up /\ ~registered /\ One(toClient, Of({"001"}))
      BY <1>2, <2>4 DEF Registering, Welcome, AInv, Heralds
    <3>2. registered' /\ None(toClient', Of({"001"}))
      BY <1>1, <1>2, <2>4, <3>1
    <3> QED BY <1>1, <2>1, <2>3, <3>1, <3>2 DEF Registering, Welcome
  <2>5. CASE m.m # "001"
    BY <1>0, <1>1, <1>2, <2>1, <2>3, <2>5 DEF Registering, Welcome
  <2> QED BY <2>4, <2>5
<1>7. Ident'
  <2>1. CASE m.m = "001"
    <3>1. ~registered /\ registered' /\ sasl_ok' = sasl_ok
      BY <1>0, <1>1, <1>2, <2>1 DEF Registering, Welcome
    <3>2. srv.identified = 0 /\ None(toServer, Of({"IDENTIFY"}))
      BY <3>1 DEF Registering, Ident
    <3>3. CASE nspass /\ ~sasl_ok
      <4> PICK x \in Message : Reply(m) = <<x>> /\ ReplyTo(m, x)
        BY <1>0, <2>1, <3>3, ReplyIs
      <4>1. x.m \in {"IDENTIFY"}
        BY <2>1 DEF ReplyTo
      <4>2. One(toServer', Of({"IDENTIFY"}))
        BY <1>4, <3>2, <4>1, NoneAnswered
      <4> QED BY <1>1, <3>1, <3>2, <3>3, <4>2 DEF Ident
    <3>4. CASE ~(nspass /\ ~sasl_ok)
      <4>1. \A x : ReplyTo(m, x) => x.m \notin {"IDENTIFY"}
        BY <2>1, <3>4 DEF ReplyTo
      <4>2. None(toServer', Of({"IDENTIFY"}))
        BY <1>0, <1>4, <3>2, <4>1, Unreplied
      <4> QED BY <1>1, <3>1, <3>2, <3>4, <4>2 DEF Ident
    <3> QED BY <3>3, <3>4
  <2>2. CASE m.m # "001"
    <3>1. registered' = registered
      BY <1>0, <1>1, <2>2
    <3>2. None(Reply(m), Of({"IDENTIFY"}))
      <4>1. \A x : ReplyTo(m, x) => x.m \notin {"IDENTIFY"}
        BY <2>2 DEF ReplyTo
      <4> QED BY <1>0, <4>1, Unreplied
    <3>3. ASSUME registered PROVE sasl_ok' = sasl_ok
      <4>1. ~srv.holding
        BY <3>3 DEF AInv, Heralds, Registering, Welcome
      <4>2. None(toClient, Of(NegC))
        BY <4>1 DEF Registering, Login, NoLogin, Begun, Theirs, Ending, Ours, Accepted
      <4>3. m.m # "903"
        BY <1>2, <4>2 DEF NegC
      <4> QED BY <1>0, <1>1, <4>3
    <3> QED BY <1>1, <1>4, <3>1, <3>2, <3>3 DEF Registering, Ident
  <2> QED BY <2>1, <2>2
<1> QED BY <1>5, <1>6, <1>7 DEF Registering

\* The client says s more, and nothing else of the registration changes.
Adds(s) ==
  /\ toServer' = toServer \o s
  /\ UNCHANGED <<toClient, srv, registered, sasl_ok, nspass, nick>>

\* What the client says more has nothing of the login.
LEMMA RegisteringAdds ==
  ASSUME Registering, toServer \in Seq(Message), sasl_ok \in BOOLEAN,
         NEW s \in Seq(Message), Adds(s), None(s, Of(NegS \cup {"IDENTIFY", "USER"}))
  PROVE  Registering'
<1> DEFINE T == NegS \cup {"IDENTIFY", "USER"}
<1>0. toServer \in Seq(Message) /\ sasl_ok \in BOOLEAN
  OBVIOUS
<1>1. /\ s \in Seq(Message) /\ toServer' = toServer \o s
      /\ UNCHANGED <<toClient, srv, registered, sasl_ok, nspass, nick>>
  BY DEF Adds
<1>2. None(s, Of(T))
  OBVIOUS
<1>3. /\ None(s, Of(NegS)) /\ None(s, Of({"CAP LS", "CAP END"})) /\ None(s, Of(NegS \ {"CAP END"}))
      /\ None(s, Of({"IDENTIFY"}))
  <2>1. \A S \in SUBSET T : Of(S) \subseteq Of(T)
    BY DEF Of
  <2>2. \A S \in SUBSET T : None(s, Of(S))
    BY <1>2, <2>1, OneIsSome
  <2>3. {"CAP LS", "CAP END"} \subseteq T
    BY DEF NegS
  <2> QED BY <2>2, <2>3
<1>4. \A M : /\ None(toServer', M) => None(toServer, M)
             /\ None(toServer, M) /\ None(s, M) => None(toServer', M)
             /\ One(toServer, M) /\ None(s, M) => One(toServer', M)
  BY <1>0, <1>1, JoinedQueues
<1>5. /\ One(toServer, Of(NegS)) => One(toServer', Of(NegS))
      /\ None(toServer, Of(NegS)) => None(toServer', Of(NegS))
      /\ None(toServer, Of({"CAP LS", "CAP END"})) => None(toServer', Of({"CAP LS", "CAP END"}))
      /\ None(toServer, Of(NegS \ {"CAP END"})) => None(toServer', Of(NegS \ {"CAP END"}))
      /\ None(toServer, Of({"IDENTIFY"})) => None(toServer', Of({"IDENTIFY"}))
      /\ One(toServer, Of({"IDENTIFY"})) => One(toServer', Of({"IDENTIFY"}))
      /\ ~None(toServer, Of({"USER"})) => ~None(toServer', Of({"USER"}))
      /\ ~None(toServer, NickOf(nick)) => ~None(toServer', NickOf(nick))
  BY <1>3, <1>4
<1>6. /\ toServer # <<>> => toServer' # <<>> /\ Head(toServer') = Head(toServer)
  BY <1>0, <1>1, HeadStays
<1> HIDE DEF T
<1>7. Login'
  <2>1. CASE NoLogin
    BY <1>1, <1>5, <2>1 DEF Login, NoLogin
  <2>2. CASE Begun
    <3>1. Begun'
      BY <1>1, <1>5, <1>6, <2>2 DEF Begun
    <3> QED BY <3>1 DEF Login
  <2>3. CASE Theirs
    BY <1>1, <1>5, <2>3 DEF Login, Theirs
  <2>4. CASE Ending
    BY <1>1, <1>5, <2>4 DEF Login, Ending
  <2>5. CASE Ours
    BY <1>1, <1>5, <2>5 DEF Login, Ours
  <2>6. CASE Accepted
    BY <1>1, <1>5, <2>6 DEF Login, Accepted
  <2> QED BY <2>1, <2>2, <2>3, <2>4, <2>5, <2>6 DEF Registering, Login
<1>8. Welcome'
  BY <1>1, <1>5 DEF Registering, Welcome
<1>9. Ident'
  BY <1>1, <1>5 DEF Registering, Ident
<1> QED BY <1>7, <1>8, <1>9 DEF Registering

\* The client says something: nothing of the login.
LEMMA RegisteringSays ==
  ASSUME AInv, alive, Registering, NEW r \in Seq(Message), ClientSays(r)
  PROVE  Registering'
<1> DEFINE T == NegS \cup {"IDENTIFY", "USER"}
<1>1. None(r, Of(T))
  <2>1. r \in {<<>>} \cup {<<x>> : x \in Chat} \cup {<<x>> : x \in Renames}
    BY DEF ClientSays
  <2>2. \A x \in Chat \cup Renames : x \in Message /\ x.m \notin T
    <3>1. \A x \in Chat \cup Renames : x.m \in {"PRIVMSG", "QUIT", "PING", "NICK"}
      BY DEF Chat, Of, Renames, Msg
    <3>2. {"PRIVMSG", "QUIT", "PING", "NICK"} \cap T = {}
      BY DEF NegS
    <3> QED BY <3>1, <3>2, OwnWords
  <2>3. CASE r = <<>>
    BY <2>3, ShortQueue
  <2>4. ASSUME NEW x \in Chat \cup Renames, r = <<x>> PROVE None(r, Of(T))
    BY <2>2, <2>4, NoneAnswered
  <2> QED BY <2>1, <2>3, <2>4
<1> QED BY <1>1, Queued, RegisteringAdds DEF AInv, ClientSays, Adds

\* The client comes to a channel: nothing of the login.
LEMMA RegisteringJoins ==
  ASSUME AInv, alive, Registering, ClientJoins
  PROVE  Registering'
<1> DEFINE T == NegS \cup {"IDENTIFY", "USER"}
           x == Msg("JOIN", Listed[joined + 1], <<>>)
<1>1. x \in Message /\ x.m = "JOIN"
  BY NextIsMessage
<1> HIDE DEF x
<1>2. x.m \notin T
  BY <1>1 DEF NegS
<1>3. /\ <<x>> \in Seq(Message) /\ None(<<x>>, Of(T))
      /\ <<>> \in Seq(Message) /\ None(<<>>, Of(T))
  BY <1>1, <1>2, NoneAnswered
<1>4. \E s \in {<<x>>, <<>>} : toServer' = toServer \o s
  <2>1. toServer \o <<>> = toServer
    BY Queued DEF AInv
  <2> QED BY <2>1 DEF ClientJoins, x
<1>5. UNCHANGED <<toClient, srv, registered, sasl_ok, nspass, nick>>
  BY DEF ClientJoins
<1> QED BY <1>3, <1>4, <1>5, Queued, RegisteringAdds DEF AInv, Adds

\* The server says something unasked: nothing of the login.
LEMMA RegisteringTalks ==
  ASSUME AInv, Registering, NEW r \in Seq(Message), ServerTalks(r)
  PROVE  Registering'
<1> DEFINE T == NegC \cup {"001", "433"}
<1>0. /\ toClient \in Seq(Message) /\ srv \in ServerEnd
  BY Queued DEF AInv
<1>1. /\ toClient' = toClient \o r /\ UNCHANGED <<toServer, registered, sasl_ok, nspass, nick>>
  BY DEF ServerTalks
<1>a. /\ srv'.up = srv.up /\ srv'.named = srv.named /\ srv'.user = srv.user
      /\ srv'.holding = srv.holding /\ srv'.authed = srv.authed /\ srv'.identified = srv.identified
  BY <1>0 DEF ServerTalks, ServerEnd
<1>2. None(r, Of(T))
  <2>1. CASE r = <<>>
    BY <2>1, ShortQueue
  <2>2. ASSUME NEW x \in Unasked, r = <<x>> PROVE None(r, Of(T))
    <3>1. \A n \in InUse : Msg("NICK", n, n) \in Message /\ Msg("NICK", n, n).m = "NICK"
      BY NickIsMessage, SessionAssumption DEF SessionAssumption, Msg
    <3>2. x \in Message /\ x.m \in {"PING", "PRIVMSG", "KICK", "NICK"}
      BY <3>1 DEF Unasked, Of
    <3>3. x.m \notin T
      BY <3>2 DEF NegC
    <3> QED BY <2>2, <3>2, <3>3, NoneAnswered
  <2> QED BY <2>1, <2>2 DEF ServerTalks
<1>3. \A S \in SUBSET T : None(r, Of(S))
  <2>1. \A S \in SUBSET T : Of(S) \subseteq Of(T)
    BY DEF Of
  <2> QED BY <1>2, <2>1, OneIsSome
<1>4. \A S \in SUBSET T : /\ None(toClient', Of(S)) <=> None(toClient, Of(S))
                          /\ One(toClient, Of(S)) => One(toClient', Of(S))
  BY <1>0, <1>1, <1>3, JoinedQueues
<1>5. /\ None(toClient, Of(NegC)) => None(toClient', Of(NegC))
      /\ One(toClient, Of(NegC)) => One(toClient', Of(NegC))
      /\ None(toClient, Of({"903"})) => None(toClient', Of({"903"}))
      /\ None(toClient, Of(NegC \ {"903"})) => None(toClient', Of(NegC \ {"903"}))
      /\ One(toClient, Of({"001"})) => One(toClient', Of({"001"}))
      /\ None(toClient, Of({"001"})) => None(toClient', Of({"001"}))
      /\ ~None(toClient, Of({"433"})) => ~None(toClient', Of({"433"}))
  <2>1. {"903"} \subseteq T
    BY DEF NegC
  <2> QED BY <1>4, <2>1
<1>7. Login'
  <2>1. CASE NoLogin
    BY <1>1, <1>a, <1>5, <2>1 DEF Login, NoLogin
  <2>2. CASE Begun
    <3>1. Begun'
      BY <1>1, <1>a, <1>5, <2>2 DEF Begun
    <3> QED BY <3>1 DEF Login
  <2>3. CASE Theirs
    BY <1>1, <1>a, <1>5, <2>3 DEF Login, Theirs
  <2>4. CASE Ending
    BY <1>1, <1>a, <1>5, <2>4 DEF Login, Ending
  <2>5. CASE Ours
    BY <1>1, <1>a, <1>5, <2>5 DEF Login, Ours
  <2>6. CASE Accepted
    BY <1>1, <1>a, <1>5, <2>6 DEF Login, Accepted
  <2> QED BY <2>1, <2>2, <2>3, <2>4, <2>5, <2>6 DEF Registering, Login
<1>8. Welcome'
  BY <1>1, <1>a, <1>5 DEF Registering, Welcome
<1>9. Ident'
  BY <1>1, <1>a DEF Registering, Ident
<1> QED BY <1>7, <1>8, <1>9 DEF Registering

\* The server reads a line of the login, which it answers, unless its answer
\* to the password is the one the client does not know.
LEMMA LoginHears ==
  ASSUME "902" \notin Logins,
         AInv, alive, Login, NEW m \in Message, NEW answer \in Seq(Message), ServerHears(m, answer)
  PROVE  Login'
<1> DEFINE w == IF srv'.up /\ ~srv.up THEN <<Say("001")>> ELSE <<>>
<1>0. /\ toServer \in Seq(Message) /\ toClient \in Seq(Message) /\ srv \in ServerEnd
      /\ srv.authed \in BOOLEAN /\ sasl_ok \in BOOLEAN /\ nspass \in BOOLEAN
      /\ srv.named \in BOOLEAN /\ srv.user \in BOOLEAN /\ srv.holding \in BOOLEAN
  BY Queued DEF AInv, ServerEnd
<1>1. /\ toServer # <<>> /\ m = Head(toServer) /\ toServer' = Tail(toServer) /\ answer \in Answers(m)
      /\ toClient' = toClient \o (answer \o w) /\ UNCHANGED <<sasl_ok, nspass>>
  BY DEF ServerHears
<1>2. /\ srv'.holding = (m.m = "CAP LS" \/ (srv.holding /\ m.m # "CAP END"))
      /\ srv'.authed = (IF m.m = "AUTHENTICATE login" THEN answer = <<Say("903")>> ELSE srv.authed)
  BY <1>0, ServerAfter DEF ServerHears
<1>3. \A S : /\ None(toServer, Of(S)) => m.m \notin S /\ None(toServer', Of(S))
             /\ One(toServer, Of(S)) /\ m.m \in S => None(toServer', Of(S))
             /\ One(toServer, Of(S)) /\ m.m \notin S => One(toServer', Of(S))
  BY <1>0, <1>1, ReadQueue, KindOf
<1>4. w \in Seq(Message) /\ \A S : "001" \notin S => None(w, Of(S))
  <2>1. \A S : "001" \notin S => None(<<Say("001")>>, Of(S))
    BY WelcomeIs, NoneAnswered
  <2>2. \A S : None(<<>>, Of(S))
    BY ShortQueue
  <2> QED BY <2>1, <2>2, WelcomeIs
<1>5. None(w, Of(NegC)) /\ None(w, Of({"903"})) /\ None(w, Of(NegC \ {"903"}))
  BY <1>4 DEF NegC
<1> HIDE DEF w
<1>6. \A S : /\ None(answer \o w, Of(S)) <=> None(answer, Of(S)) /\ None(w, Of(S))
             /\ One(answer, Of(S)) /\ None(w, Of(S)) => One(answer \o w, Of(S))
  BY <1>4, JoinedQueues
<1>7. \A S : /\ None(toClient', Of(S)) <=> None(toClient, Of(S)) /\ None(answer \o w, Of(S))
             /\ One(toClient, Of(S)) /\ None(answer \o w, Of(S)) => One(toClient', Of(S))
             /\ None(toClient, Of(S)) /\ One(answer \o w, Of(S)) => One(toClient', Of(S))
  <2>1. answer \o w \in Seq(Message)
    BY <1>4, JoinedQueues
  <2> QED BY <1>0, <1>1, <2>1, JoinedQueues
<1>8. CASE m.m \notin NegS
  <2>1. /\ (srv.holding => srv'.holding) /\ (~srv.holding => ~srv'.holding)
        /\ srv'.authed = srv.authed /\ (srv.authed => srv'.authed) /\ (~srv.authed => ~srv'.authed)
    BY <1>2, <1>8 DEF NegS
  <2>2. None(answer, Of(NegC)) /\ None(answer, Of({"903"})) /\ None(answer, Of(NegC \ {"903"}))
    <3>1. \A x : AnswerTo(m, x) => x.m \notin NegC
      BY <1>8 DEF AnswerTo, NegS, NegC
    <3>2. \A S \in SUBSET NegC : None(answer, Of(S))
      BY <1>0, <1>1, <3>1, Unanswered
    <3>3. {"903"} \subseteq NegC
      BY DEF NegC
    <3> QED BY <3>2, <3>3
  <2>3. /\ One(toServer, Of(NegS)) => One(toServer', Of(NegS))
        /\ None(toServer, Of(NegS)) => None(toServer', Of(NegS))
        /\ None(toServer, Of({"CAP LS", "CAP END"})) => None(toServer', Of({"CAP LS", "CAP END"}))
        /\ None(toServer, Of(NegS \ {"CAP END"})) => None(toServer', Of(NegS \ {"CAP END"}))
        /\ One(toClient, Of(NegC)) => One(toClient', Of(NegC))
        /\ None(toClient, Of(NegC)) => None(toClient', Of(NegC))
        /\ None(toClient, Of({"903"})) => None(toClient', Of({"903"}))
        /\ None(toClient, Of(NegC \ {"903"})) => None(toClient', Of(NegC \ {"903"}))
    BY <1>3, <1>5, <1>6, <1>7, <1>8, <2>2
  <2>4. CASE NoLogin
    BY <1>1, <2>1, <2>3, <2>4 DEF Login, NoLogin
  <2>5. ~Begun
    BY <1>1, <1>8 DEF Begun, NegS
  <2>6. CASE Theirs
    BY <1>1, <2>1, <2>3, <2>6 DEF Login, Theirs
  <2>7. CASE Ending
    BY <1>1, <2>1, <2>3, <2>7 DEF Login, Ending
  <2>8. CASE Ours
    BY <1>1, <2>1, <2>3, <2>8 DEF Login, Ours
  <2>9. CASE Accepted
    BY <1>1, <2>1, <2>3, <2>9 DEF Login, Accepted
  <2> QED BY <2>4, <2>5, <2>6, <2>7, <2>8, <2>9 DEF Login
<1>9. CASE m.m \in NegS
  <2>1. /\ nspass /\ One(toServer, Of(NegS)) /\ None(toClient, Of(NegC)) /\ None(toServer', Of(NegS))
        /\ (~sasl_ok => ~sasl_ok')
    <3>1. Begun \/ Theirs \/ Ending
      BY <1>3, <1>9 DEF Login, NoLogin, Ours, Accepted
    <3> QED BY <1>1, <1>3, <1>9, <3>1 DEF Begun, Theirs, Ending
  <2>2. None(toClient, Of({"903"})) /\ None(toClient, Of(NegC \ {"903"}))
    <3>1. \A S \in SUBSET NegC : Of(S) \subseteq Of(NegC)
      BY DEF Of
    <3>2. {"903"} \subseteq NegC
      BY DEF NegC
    <3> QED BY <2>1, <3>1, <3>2, OneIsSome
  <2>3. ASSUME m.m = "CAP END" PROVE Login'
    <3>1. Ending
      <4>1. ~Begun /\ ~Theirs
        BY <1>1, <1>3, <2>3 DEF Begun, Theirs
      <4> QED BY <1>3, <1>9, <4>1 DEF Login, NoLogin, Ours, Accepted
    <3>2. answer = <<>>
      <4>1. \A x : ~AnswerTo(m, x)
        BY <2>3 DEF AnswerTo
      <4> QED BY <1>0, <1>1, <4>1, AnswerIs
    <3>3. None(toClient', Of(NegC))
      BY <1>5, <1>6, <1>7, <2>1, <3>2, ShortQueue
    <3>4. ~srv'.holding /\ srv'.authed = srv.authed
      BY <1>2, <2>3
    <3> QED BY <1>1, <2>1, <3>1, <3>3, <3>4 DEF Login, NoLogin, Ending
  <2>4. ASSUME m.m # "CAP END" PROVE Login'
    <3>1. ~srv.authed /\ ~sasl_ok /\ (srv.holding \/ m.m = "CAP LS")
      <4>1. Begun \/ Theirs
        BY <1>3, <1>9, <2>4 DEF Login, NoLogin, Ours, Accepted, Ending
      <4> QED BY <1>1, <4>1 DEF Begun, Theirs
    <3>2. srv'.holding
      BY <1>2, <2>4, <3>1
    <3> PICK x \in Message : answer = <<x>> /\ AnswerTo(m, x)
      BY <1>0, <1>1, <1>9, <2>4, AnswerIs DEF NegS, Asks
    <3>3. x.m \in NegC
      BY <1>9, <2>4, SessionAssumption DEF AnswerTo, SessionAssumption, NegS, NegC
    <3>4. One(toClient', Of(NegC))
      BY <1>5, <1>6, <1>7, <2>1, <3>3, NoneAnswered
    <3>5. srv'.authed = (m.m = "AUTHENTICATE login" /\ x = Say("903"))
      <4>1. <<x>> = <<Say("903")>> <=> x = Say("903")
        OBVIOUS
      <4> QED BY <1>0, <1>2, <3>1, <4>1
    <3>6. x.m = "903" <=> m.m = "AUTHENTICATE login" /\ x = Say("903")
      <4>1. Say("903").m = "903"
        BY DEF Say, Msg
      <4>2. x.m = "903" => m.m = "AUTHENTICATE login" /\ x = Say("903")
        BY <1>9, <2>4 DEF AnswerTo, NegS
      <4> QED BY <4>1, <4>2
    <3>7. CASE x.m = "903"
      <4>1. None(toClient', Of(NegC \ {"903"}))
        BY <1>5, <1>6, <1>7, <2>2, <3>7, NoneAnswered
      <4> QED BY <1>1, <2>1, <3>1, <3>2, <3>4, <3>5, <3>6, <3>7, <4>1 DEF Login, Accepted
    <3>8. CASE x.m # "903"
      <4>1. None(toClient', Of({"903"}))
        BY <1>5, <1>6, <1>7, <2>2, <3>8, NoneAnswered
      <4> QED BY <1>1, <2>1, <3>1, <3>2, <3>4, <3>5, <3>6, <3>8, <4>1 DEF Login, Ours
    <3> QED BY <3>7, <3>8
  <2> QED BY <2>3, <2>4
<1> QED BY <1>8, <1>9

\* The server reads a line, after which it may welcome the client.
LEMMA RegisteringHears ==
  ASSUME "902" \notin Logins,
         AInv, alive, Registering, NEW m \in Message, NEW answer \in Seq(Message), ServerHears(m, answer)
  PROVE  Registering'
<1> DEFINE w == IF srv'.up /\ ~srv.up THEN <<Say("001")>> ELSE <<>>
<1>0. /\ toServer \in Seq(Message) /\ toClient \in Seq(Message) /\ srv \in ServerEnd
      /\ registered \in BOOLEAN /\ sasl_ok \in BOOLEAN /\ nspass \in BOOLEAN
      /\ srv.named \in BOOLEAN /\ srv.user \in BOOLEAN /\ srv.holding \in BOOLEAN /\ srv.up \in BOOLEAN
      /\ srv.identified \in Nat
  BY Queued DEF AInv, ServerEnd
<1>1. /\ toServer # <<>> /\ m = Head(toServer) /\ toServer' = Tail(toServer) /\ answer \in Answers(m)
      /\ toClient' = toClient \o (answer \o w) /\ UNCHANGED <<registered, sasl_ok, nspass, nick>>
  BY DEF ServerHears
<1>2. /\ srv'.user = (srv.user \/ m.m = "USER")
      /\ srv'.named = (srv.named \/ (m.m = "NICK" /\ Free(m.a)))
      /\ srv'.holding = (m.m = "CAP LS" \/ (srv.holding /\ m.m # "CAP END"))
      /\ srv'.identified = (IF m.m = "IDENTIFY" THEN srv.identified + 1 ELSE srv.identified)
      /\ srv'.up = (srv.up \/ (srv'.named /\ srv'.user /\ ~srv'.holding))
  BY <1>0, ServerAfter DEF ServerHears
<1>3. \A S : /\ None(toServer, Of(S)) => m.m \notin S /\ None(toServer', Of(S))
             /\ One(toServer, Of(S)) /\ m.m \in S => None(toServer', Of(S))
             /\ One(toServer, Of(S)) /\ m.m \notin S => One(toServer', Of(S))
             /\ m.m \notin S /\ None(toServer', Of(S)) => None(toServer, Of(S))
  BY <1>0, <1>1, ReadQueue, KindOf
<1>4. /\ w \in Seq(Message)
      /\ srv'.up /\ ~srv.up => One(w, Of({"001"}))
      /\ ~(srv'.up /\ ~srv.up) => None(w, Of({"001"}))
  <2>1. One(<<Say("001")>>, Of({"001"}))
    BY WelcomeIs, NoneAnswered
  <2>2. None(<<>>, Of({"001"}))
    BY ShortQueue
  <2> QED BY <2>1, <2>2, WelcomeIs
<1> HIDE DEF w
<1>5. None(answer, Of({"001"}))
  <2>1. \A x : AnswerTo(m, x) => x.m \notin {"001"}
    BY SessionAssumption DEF AnswerTo, SessionAssumption
  <2> QED BY <1>0, <1>1, <2>1, Unanswered
<1>6. \A S : /\ None(answer \o w, Of(S)) <=> None(answer, Of(S)) /\ None(w, Of(S))
             /\ None(answer, Of(S)) /\ One(w, Of(S)) => One(answer \o w, Of(S))
  BY <1>4, JoinedQueues
<1>7. \A S : /\ None(toClient', Of(S)) <=> None(toClient, Of(S)) /\ None(answer \o w, Of(S))
             /\ One(toClient, Of(S)) /\ None(answer \o w, Of(S)) => One(toClient', Of(S))
             /\ None(toClient, Of(S)) /\ One(answer \o w, Of(S)) => One(toClient', Of(S))
  <2>1. answer \o w \in Seq(Message)
    BY <1>4, JoinedQueues
  <2> QED BY <1>0, <1>1, <2>1, JoinedQueues
<1>8. srv.up => m.m # "CAP LS"
  <2>1. ASSUME srv.up, m.m = "CAP LS" PROVE FALSE
    <3>1. srv.named /\ ~srv.holding
      BY <2>1 DEF Registering, Welcome
    <3>2. NoLogin
      BY <3>1 DEF Registering, Login, Begun, Theirs, Ending, Ours, Accepted
    <3> QED BY <1>3, <2>1, <3>2 DEF NoLogin, NegS
  <2> QED BY <2>1
<1>9. Welcome'
  <2>1. srv'.up <=> srv'.named /\ srv'.user /\ ~srv'.holding
    <3>1. CASE srv.up
      BY <1>0, <1>2, <1>8, <3>1 DEF Registering, Welcome
    <3>2. CASE ~srv.up
      BY <1>2, <3>2
    <3> QED BY <3>1, <3>2
  <2>2. srv'.user \/ ~None(toServer', Of({"USER"}))
    BY <1>2, <1>3 DEF Registering, Welcome
  <2>3. \/ srv'.named
        \/ ~Valid(nick')
        \/ ~None(toServer', NickOf(nick')) \/ ~None(toClient', Of({"433"}))
    <3>1. CASE m.m = "NICK" /\ Valid(m.a) /\ m.a \in InUse
      <4> PICK x \in Message : answer = <<x>> /\ AnswerTo(m, x)
        BY <1>0, <1>1, <3>1, AnswerIs DEF Free
      <4>1. x.m \in {"433"}
        BY <3>1 DEF AnswerTo, Free
      <4>2. ~None(answer, Of({"433"}))
        BY <4>1, NoneAnswered, OneIsSome
      <4> QED BY <1>6, <1>7, <4>2
    <3>2. CASE m.m = "NICK" /\ Free(m.a)
      BY <1>2, <3>2
    <3>3. CASE m \in NickOf(nick) /\ ~Valid(m.a)
      BY <1>1, <3>3 DEF NickOf
    <3>4. CASE m \notin NickOf(nick)
      <4>1. ~None(toServer, NickOf(nick)) => ~None(toServer', NickOf(nick))
        BY <1>0, <1>1, <3>4, ReadQueue
      <4> QED BY <1>1, <1>2, <1>7, <4>1 DEF Registering, Welcome
    <3> QED BY <3>1, <3>2, <3>3, <3>4 DEF NickOf, Free
  <2>4. srv'.up /\ ~registered' => One(toClient', Of({"001"}))
    <3>1. ASSUME srv.up, ~registered PROVE One(toClient', Of({"001"}))
      BY <1>4, <1>5, <1>6, <1>7, <3>1 DEF Registering, Welcome
    <3>2. ASSUME ~srv.up, srv'.up PROVE One(toClient', Of({"001"}))
      <4>1. None(toClient, Of({"001"}))
        <5>1. None(toClient, Of({"001", "NICK"}))
          BY <3>2 DEF AInv, Heralds
        <5>2. Of({"001"}) \subseteq Of({"001", "NICK"})
          BY DEF Of
        <5> QED BY <5>1, <5>2, OneIsSome
      <4> QED BY <1>4, <1>5, <1>6, <1>7, <3>2, <4>1
    <3> QED BY <1>1, <3>1, <3>2
  <2>5. registered' => None(toClient', Of({"001"}))
    <3>1. ASSUME registered PROVE None(toClient', Of({"001"}))
      <4>1. srv.up /\ None(toClient, Of({"001"}))
        BY <3>1 DEF AInv, Heralds, Registering, Welcome
      <4> QED BY <1>4, <1>5, <1>6, <1>7, <4>1
    <3> QED BY <1>1, <3>1
  <2> QED BY <2>1, <2>2, <2>3, <2>4, <2>5 DEF Welcome
<1>10. Ident'
  <2>1. CASE m.m = "IDENTIFY"
    <3>1. registered /\ nspass /\ ~sasl_ok /\ srv.identified = 0 /\ One(toServer, Of({"IDENTIFY"}))
      BY <1>3, <2>1 DEF Registering, Ident
    <3>2. srv'.identified = 1 /\ None(toServer', Of({"IDENTIFY"}))
      BY <1>2, <1>3, <2>1, <3>1
    <3> QED BY <1>1, <3>1, <3>2 DEF Ident
  <2>2. CASE m.m # "IDENTIFY"
    <3>1. /\ srv'.identified = srv.identified
          /\ None(toServer, Of({"IDENTIFY"})) => None(toServer', Of({"IDENTIFY"}))
          /\ One(toServer, Of({"IDENTIFY"})) => One(toServer', Of({"IDENTIFY"}))
      BY <1>2, <1>3, <2>2
    <3> QED BY <1>1, <3>1 DEF Registering, Ident
  <2> QED BY <2>1, <2>2
<1>11. Login'
  BY LoginHears DEF Registering
<1> QED BY <1>9, <1>10, <1>11 DEF Registering

\* The registration is under way or done, whatever is said.
LEMMA RegisteringStep ==
  ASSUME "902" \notin Logins, AInv, alive => Registering, Said
  PROVE  Registering'
BY RegisteringOpens, RegisteringReads, RegisteringSays, RegisteringJoins, RegisteringHears,
   RegisteringTalks DEF Said

-----------------------------------------------------------------------------
(* Theorems *)

\* When all is said, nothing is under way.
LEMMA AllSaid ==
  ASSUME Settled
  PROVE  /\ alive /\ \A M : None(toServer, M) /\ None(toClient, M)
         /\ \A M : ~One(toServer, M) /\ ~One(toClient, M)
<1>1. toServer = <<>> /\ toClient = <<>> /\ alive
  BY DEF Settled
<1> QED BY <1>1, ShortQueue, OneIsSome

\* The invariant of the registration.
LEMMA RegisteringInv ==
  ASSUME "902" \notin Logins
  PROVE  Spec => [](AInv /\ (alive => Registering))
<1> DEFINE RInv == AInv /\ (alive => Registering)
<1>1. Init => RInv
  BY AInvInit DEF Init
<1>2. RInv /\ [Next]_vars => RInv'
  <2> SUFFICES ASSUME RInv, [Next]_vars PROVE RInv'
    OBVIOUS
  <2>1. AInv'
    BY AInvStep
  <2>2. ASSUME alive' PROVE Registering'
    BY <2>2, StepSays, RegisteringStep
  <2> QED BY <2>1, <2>2
<1> QED BY <1>1, <1>2, PTL DEF Spec

\* Registration never hangs with each side waiting for the other
\* (RegistrationGoesThrough): when all is said the server has welcomed the
\* client, whatever it offers or refuses, unless trying again has led to a nick
\* it does not take.  It is taken not to answer the password with the one
\* numeric the client does not know, after which it does hang.
THEOREM RegistrationDone ==
  ASSUME "902" \notin Logins
  PROVE  Spec => []RegistrationGoesThrough
<1>1. AInv /\ (alive => Registering) => RegistrationGoesThrough
  <2> SUFFICES ASSUME AInv, alive => Registering, Settled, Valid(nick)
               PROVE  srv.up /\ registered
    BY DEF RegistrationGoesThrough
  <2>1. Registering
    BY AllSaid
  <2>2. ~srv.holding
    BY <2>1, AllSaid DEF Registering, Login, NoLogin, Begun, Theirs, Ending, Ours, Accepted
  <2>3. srv.named /\ srv.user
    BY <2>1, AllSaid DEF Registering, Welcome
  <2>4. srv.up
    BY <2>1, <2>2, <2>3 DEF Registering, Welcome
  <2> QED BY <2>1, <2>4, AllSaid DEF Registering, Welcome
<1> QED BY <1>1, RegisteringInv, PTL

\* A client that was welcomed and has a password has been identified exactly
\* once when all is said, by SASL or to NickServ; one that was not, or has none,
\* never to NickServ (IdentifiedOnce).
THEOREM PasswordSaidOnce ==
  ASSUME "902" \notin Logins
  PROVE  Spec => []IdentifiedOnce
<1>1. AInv /\ (alive => Registering) => IdentifiedOnce
  <2> SUFFICES ASSUME AInv, alive => Registering, Settled
               PROVE  srv.identified = (IF registered /\ nspass /\ ~srv.authed THEN 1 ELSE 0)
    BY DEF IdentifiedOnce
  <2>1. Registering
    BY AllSaid
  <2>2. sasl_ok = srv.authed
    BY <2>1, AllSaid DEF Registering, Login, NoLogin, Begun, Theirs, Ending, Ours, Accepted
  <2> QED BY <2>1, <2>2, AllSaid DEF Registering, Ident
<1> QED BY <1>1, RegisteringInv, PTL

\* Every channel of the first screen is joined once on each connection, or not
\* at all where no view was free for it (JoinedOnce), if the user did not list
\* one twice.
THEOREM ChannelsJoinedOnce ==
  ASSUME \A i, j \in DOMAIN Listed : Listed[i] = Listed[j] => i = j
  PROVE  Spec => []JoinedOnce
<1> DEFINE JInv == AInv /\ (alive => Joining)
<1>1. Init => JInv
  BY AInvInit DEF Init
<1>2. JInv /\ [Next]_vars => JInv'
  <2> SUFFICES ASSUME JInv, [Next]_vars PROVE JInv'
    OBVIOUS
  <2>1. AInv'
    BY AInvStep
  <2>2. ASSUME alive' PROVE Joining'
    BY <2>2, StepSays, JoiningStep
  <2> QED BY <2>1, <2>2
<1>3. JInv => JoinedOnce
  <2> SUFFICES ASSUME JInv, Settled, step = "key", registered, NEW i \in DOMAIN Listed
               PROVE  srv.joins[Listed[i]] = (IF Listed[i] \in refused THEN 0 ELSE 1)
    BY DEF JoinedOnce
  <2>1. joined = Len(Listed)
    BY DEF AInv, Through, Settled
  <2>2. i <= joined /\ ~(i > joined)
    BY <2>1, SessionAssumption DEF SessionAssumption
  <2>3. ToCome(i) \/ OnItsWay(i) \/ Granted(i) \/ NoView(i)
    BY AllSaid DEF Joining
  <2> QED BY <2>2, <2>3, AllSaid DEF ToCome, OnItsWay, Granted, NoView
<1> QED BY <1>1, <1>2, <1>3, PTL DEF Spec
=============================================================================

------------------------------ MODULE Session ------------------------------
(***************************************************************************)
(* A session of the client (src/src/ircc.c): dialling and dialling again,  *)
(* registration with SASL PLAIN and the NickServ fallback, the nick, the   *)
(* channels joined as long as a view is free, the idle PING and the dead   *)
(* link, RUN/STOP.  The connection is what conn.c offers (Conn): bytes in  *)
(* order until it is lost, and a send that waits for the window.  The IRC  *)
(* server is outside this code and modelled from what the client says.     *)
(*                                                                         *)
(* A line is one message.  A nick is the sequence of its characters, the   *)
(* letters in one case.  Time passes in ticks, several to IDLE_PING_S.     *)
(***************************************************************************)
EXTENDS Naturals, Sequences, FiniteSets

CONSTANTS
  Channel,      \* the channels of the first screen
  Listed,       \* ... in order
  Person,       \* people, not ignored, who may write to us
  ViewMax,      \* the views there are besides the status view
  NickCap,      \* the characters of nick[] besides its NUL
  NickChars,    \* the characters a server takes in a nick
  Wanted,       \* the nicks accepted at the first screen
  Nick,         \* the nicks typed after /nick
  InUse,        \* the nicks other people have
  Offers,       \* whether a server lists sasl: a set of BOOLEANs
  Logins,       \* how a server may answer the login: numerics
  Typed,        \* what the user types, of "text", "query", "quit", "nick" and,
                \* before the server's welcome, "early nick"
  PingAfter,    \* IDLE_PING_S, in ticks
  DeadAfter,    \* DEAD_S, in ticks
  Prompt,       \* the server answers within a tick
  MaxTyped, MaxDials, MaxSaid   \* bounds: lines typed, dials, lines unasked

Char == 1..255  \* a character that is not NUL

ASSUME SessionAssumption ==
  /\ Prompt \in BOOLEAN /\ Offers \subseteq BOOLEAN
  /\ Listed \in Seq(Channel) /\ Channel \cap Person = {}
  /\ ViewMax \in Nat /\ NickCap \in Nat \ {0, 1}
  /\ Wanted \cup Nick \cup InUse \subseteq Seq(Char)
  /\ Wanted # {} /\ \A n \in Wanted : Len(n) <= NickCap
  /\ PingAfter \in Nat \ {0} /\ DeadAfter \in Nat /\ PingAfter < DeadAfter
  /\ Logins \subseteq {"902", "903", "904", "905", "906", "907"}
  /\ {MaxTyped, MaxDials, MaxSaid} \subseteq Nat

VARIABLES
  at,           \* where the session is: see Places
  step,         \* in the loop: "pump", "check" or "key", in this order
  tries,        \* dials that failed, of this connection
  reconnecting, \* this is not the session's first connection
  quitting, registered, pinged_idle,
  joined,       \* how many of the channels listed join_all has been through
  idle,         \* idle_frames, in ticks
  nspass,       \* a password was typed at the first screen
  sasl_ok,
  nick,
  half,         \* the connection whose half line is in `line', 0 if none
  views,        \* the channels and people that have a view
  spinning,     \* the client is in push_out, which has bytes left
  refused,      \* the channels told "no free view" on this connection
  stopped,      \* RUN/STOP was pressed in this session, and read
  alive,        \* conn_alive
  shut,         \* the other end's window takes nothing
  toServer, toClient,
  srv,          \* the server's end of this connection
  dials,        \* the connections dialled, the last one this one
  typed, said   \* how many lines were typed and said unasked

loop == <<step, registered, joined, pinged_idle, idle>>
windows == <<views, refused>>
client == <<at, tries, reconnecting, quitting, stopped, loop, nspass, sasl_ok, nick, half,
            windows, spinning>>
link == <<alive, shut, toServer, toClient>>
bounds == <<dials, typed, said>>
vars == <<client, link, srv, bounds>>

\* The first screen; connect_and_register; its three-second pause; the loop;
\* the minute after a failed reconnect; conn_close and the way out.
Places == {"first", "dialling", "pause", "loop", "minute", "leaving"}

NoServer == [up |-> FALSE, user |-> FALSE, holding |-> FALSE, nick |-> <<>>, named |-> FALSE,
             long |-> FALSE, authed |-> FALSE, identified |-> 0,
             joins |-> [c \in Channel |-> 0], silent |-> FALSE]

Msg(m, a, b) == [m |-> m, a |-> a, b |-> b]
Say(m) == Msg(m, <<>>, <<>>)

\* conn_send: lost with the link; while the window is shut, the client waits
\* in push_out, which reads no key and has no bound.
Sent(ms) ==
  /\ toServer' = IF alive THEN toServer \o ms ELSE toServer
  /\ spinning' = (alive /\ shut /\ ms # <<>>)

\* The window opened, or the link was lost: push_out returns.
PushedOut ==
  /\ spinning /\ ~shut
  /\ spinning' = FALSE
  /\ UNCHANGED <<at, tries, reconnecting, quitting, stopped, loop, nspass, sasl_ok, nick, half,
                 windows, link, srv, bounds>>

\* conn_abort: nothing is left of the connection.
Cut ==
  /\ alive' = FALSE /\ shut' = FALSE
  /\ toServer' = <<>> /\ toClient' = <<>> /\ srv' = NoServer

\* view_for: the view of that name, opened if one is free; otherwise nothing.
WithView(name) ==
  IF name \in views \/ Cardinality(views) < ViewMax THEN views \cup {name} ELSE views

(* Nicks *)

\* What a server takes for a nick.
Valid(n) == n # <<>> /\ \A i \in DOMAIN n : n[i] \in NickChars

\* nick[] takes no more than this of a nick told by the server.
Kept(n) == IF Len(n) <= NickCap THEN n ELSE SubSeq(n, 1, NickCap)

\* "nick in use: a digit on the end, again"; when there is no room, the last
\* character's successor, which is the NUL after 255.
Retried(n) ==
  IF Len(n) < NickCap - 1 THEN Append(n, 50)
  ELSE IF n[Len(n)] = 255 THEN SubSeq(n, 1, Len(n) - 1)
  ELSE [n EXCEPT ![Len(n)] = @ + 1]

-----------------------------------------------------------------------------
(* Dialling *)

\* session, up to its first connection: the nick on the screen is accepted or
\* another typed over it; view_init closes every view.
session ==
  /\ at = "first"
  /\ at' = "dialling" /\ tries' = 0 /\ reconnecting' = FALSE
  /\ quitting' = FALSE /\ stopped' = FALSE /\ registered' = FALSE /\ joined' = 0
  /\ pinged_idle' = FALSE /\ idle' = 0 /\ half' = 0 /\ step' = "pump"
  /\ nick' \in {nick} \cup Wanted /\ nspass' \in BOOLEAN
  /\ views' = {} /\ refused' = {}
  /\ UNCHANGED <<sasl_ok, spinning, link, srv, bounds>>

\* connect_and_register gives up: a key and the first screen; or, reconnecting,
\* out if RUN/STOP was pressed, else the minute.
GiveUp(stop) ==
  /\ quitting' = stop /\ stopped' = stop
  /\ at' = IF ~reconnecting THEN "first" ELSE IF stop THEN "leaving" ELSE "minute"

\* What a connection opens with: CAP LS if there is a password, NICK and USER.
Greeting == (IF nspass THEN <<Say("CAP LS")>> ELSE <<>>) \o <<Msg("NICK", nick, <<>>), Say("USER")>>

\* Mutant: sasl_ok is kept from the connection before.
Opening_sasl ==
  /\ at' = "loop" /\ alive' = TRUE /\ shut' = FALSE /\ srv' = NoServer
  /\ toServer' = Greeting /\ toClient' = <<>>
  /\ UNCHANGED <<tries, quitting, stopped, sasl_ok>>

\* The connection is open, and the greeting sent: three short lines, which a
\* window just opened takes.
Opening ==
  /\ at' = "loop" /\ alive' = TRUE /\ shut' = FALSE /\ srv' = NoServer
  /\ toServer' = Greeting /\ toClient' = <<>>
  /\ sasl_ok' = FALSE
  /\ UNCHANGED <<tries, quitting, stopped>>

\* Mutant: the line half read is kept.
Afresh_half == registered' = (registered /\ tries > 0) /\ UNCHANGED half

\* connect_and_register begins: not registered, no half line.
Afresh ==
  /\ registered' = (registered /\ tries > 0)
  /\ half' = IF tries = 0 THEN 0 ELSE half

\* One attempt: opened; failed in a way worth another; or given up, RUN/STOP
\* in the handshake included.
Dial ==
  /\ at = "dialling"
  /\ dials < MaxDials
  /\ dials' = dials + 1
  /\ Afresh
  /\ \/ Opening
     \/ /\ tries < 4
        /\ at' = "pause"
        /\ UNCHANGED <<tries, quitting, stopped, sasl_ok, link, srv>>
     \/ /\ \E stop \in BOOLEAN : GiveUp(stop)
        /\ UNCHANGED <<tries, sasl_ok, link, srv>>
  /\ UNCHANGED <<nspass, reconnecting, step, joined, pinged_idle, idle, nick, windows, spinning,
                 typed, said>>

\* Three seconds, or a key; RUN/STOP leaves.
Pause ==
  /\ at = "pause"
  /\ \/ at' = "dialling" /\ tries' = tries + 1 /\ UNCHANGED <<quitting, stopped>>
     \/ GiveUp(TRUE) /\ UNCHANGED tries
  /\ UNCHANGED <<nspass, reconnecting, loop, sasl_ok, nick, half, windows, spinning, link, srv,
                 bounds>>

\* Mutant: RUN/STOP in the minute's wait is a key like any other.
Minute_deaf ==
  /\ at = "minute"
  /\ stopped' \in BOOLEAN
  /\ at' = "loop"
  /\ step' = "pump"
  /\ UNCHANGED <<nspass, tries, reconnecting, quitting, registered, joined, pinged_idle, idle,
                 sasl_ok, nick, half, windows, spinning, link, srv, bounds>>

\* A minute, or a key: round the loop again, which finds the link dead;
\* RUN/STOP leaves.
Minute ==
  /\ at = "minute"
  /\ stopped' \in BOOLEAN
  /\ at' = IF stopped' THEN "leaving" ELSE "loop"
  /\ step' = "pump"
  /\ UNCHANGED <<nspass, tries, reconnecting, quitting, registered, joined, pinged_idle, idle,
                 sasl_ok, nick, half, windows, spinning, link, srv, bounds>>

-----------------------------------------------------------------------------
(* handle_line *)

\* Mutant: 907 and the like go unanswered.
Reply_903(m) ==
  CASE m.m = "PING" -> <<Say("PONG")>>
    [] m.m = "CAP LS sasl" -> <<Say("CAP REQ")>>
    [] m.m = "CAP ACK" -> <<Say("AUTHENTICATE PLAIN")>>
    [] m.m = "AUTHENTICATE" -> <<Say("AUTHENTICATE login")>>
    [] m.m \in {"CAP LS", "903", "904"} -> <<Say("CAP END")>>
    [] m.m = "001" -> IF nspass /\ ~sasl_ok THEN <<Say("IDENTIFY")>> ELSE <<>>
    [] m.m = "433" -> <<Msg("NICK", Retried(nick), <<>>)>>
    [] OTHER -> <<>>

\* What the client sends back.
Reply(m) ==
  CASE m.m = "PING" -> <<Say("PONG")>>
    [] m.m = "CAP LS sasl" -> <<Say("CAP REQ")>>
    [] m.m = "CAP ACK" -> <<Say("AUTHENTICATE PLAIN")>>
    [] m.m = "AUTHENTICATE" -> <<Say("AUTHENTICATE login")>>
    [] m.m \in {"CAP LS", "CAP NAK", "903", "904", "905", "906", "907"} -> <<Say("CAP END")>>
    [] m.m = "001" -> IF nspass /\ ~sasl_ok THEN <<Say("IDENTIFY")>> ELSE <<>>
    [] m.m = "433" -> <<Msg("NICK", Retried(nick), <<>>)>>
    [] OTHER -> <<>>

\* Mutant: whoever changes their nick, it is taken as ours.
NickAfter_anyone(m) ==
  CASE m.m = "433" -> Retried(nick)
    [] m.m = "NICK" -> Kept(m.b)
    [] OTHER -> nick

\* A nick in use is tried again, changed; our own change, told by the server,
\* is taken as far as there is room.
NickAfter(m) ==
  CASE m.m = "433" -> Retried(nick)
    [] m.m = "NICK" /\ m.a = nick -> Kept(m.b)
    [] OTHER -> nick

\* A person's first message opens their view; kicked, we lose the channel's.
ViewsAfter(m) ==
  CASE m.m = "PRIVMSG" /\ m.a \in Person -> WithView(m.a)
    [] m.m = "KICK" -> views \ {m.a}
    [] OTHER -> views

handle_line(m) ==
  /\ registered' = (registered \/ m.m = "001")
  /\ sasl_ok' = (sasl_ok \/ m.m = "903")
  /\ nick' = NickAfter(m)
  /\ views' = ViewsAfter(m)
  /\ Sent(Reply(m))

-----------------------------------------------------------------------------
(* A pass of the loop: conn_pump, the clock and the link, a key *)

\* Mutant: bytes from the server do not rearm the PING.
Heard_unarmed == idle' = 0 /\ UNCHANGED pinged_idle

\* on_bytes
Heard == idle' = 0 /\ pinged_idle' = FALSE

\* conn_pump: nothing came, or half a line, or the rest of one and perhaps more
\* lines.
Pump ==
  /\ at = "loop" /\ step = "pump" /\ ~spinning
  /\ \/ /\ step' = "check"
        /\ UNCHANGED <<registered, sasl_ok, nick, half, views, spinning, idle, pinged_idle,
                       toServer, toClient>>
     \/ /\ toClient # <<>> /\ half = 0
        /\ step' = "check"
        /\ Heard
        /\ half' = dials
        /\ UNCHANGED <<registered, sasl_ok, nick, views, spinning, toServer, toClient>>
     \/ /\ toClient # <<>>
        /\ step' \in {"pump", "check"}
        /\ Heard
        /\ half' = 0
        /\ toClient' = Tail(toClient)
        /\ handle_line(Head(toClient))
  /\ UNCHANGED <<nspass, at, tries, reconnecting, quitting, stopped, joined, refused, alive, shut,
                 srv, bounds>>

\* join, of the next channel of join_all's list: a view opened for it and JOIN
\* sent, or "no free view" and nothing sent.
Join ==
  /\ at = "loop" /\ step = "check" /\ ~spinning
  /\ registered /\ joined < Len(Listed)
  /\ joined' = joined + 1
  /\ LET chan == Listed[joined + 1]
     IN  /\ views' = WithView(chan)
         /\ IF chan \in views'
            THEN Sent(<<Msg("JOIN", chan, <<>>)>>) /\ UNCHANGED refused
            ELSE refused' = refused \cup {chan} /\ UNCHANGED <<toServer, spinning>>
  /\ UNCHANGED <<nspass, at, step, tries, reconnecting, quitting, stopped, registered, pinged_idle,
                 idle, sasl_ok, nick, half, alive, shut, toClient, srv, bounds>>

PingDue(now) == now >= PingAfter /\ ~pinged_idle

\* Mutant: only a link that says so is dead.
Dead_if_dropped(now) == ~alive

Dead(now) == now >= DeadAfter \/ ~alive

\* Mutant: the channels count as joined across a reconnection.
Redial_joined ==
  /\ at' = "dialling" /\ tries' = 0 /\ reconnecting' = TRUE /\ step' = "pump"
  /\ idle' = 0 /\ pinged_idle' = FALSE
  /\ refused' = {}
  /\ Cut
  /\ UNCHANGED joined

\* Mutant: the socket is not freed.
Redial_uncut ==
  /\ at' = "dialling" /\ tries' = 0 /\ reconnecting' = TRUE /\ step' = "pump"
  /\ idle' = 0 /\ pinged_idle' = FALSE /\ joined' = 0 /\ refused' = {}
  /\ UNCHANGED <<link, srv>>

\* The link is dead: conn_abort, and connect_and_register.  The views stay.
Redial ==
  /\ at' = "dialling" /\ tries' = 0 /\ reconnecting' = TRUE /\ step' = "pump"
  /\ idle' = 0 /\ pinged_idle' = FALSE /\ joined' = 0 /\ refused' = {}
  /\ Cut

\* The frame's tick, if one came; after the channels, once registered, our PING
\* when the link has been idle, and the link dead when idle too long or gone.
Check ==
  /\ at = "loop" /\ step = "check" /\ ~spinning
  /\ registered => joined = Len(Listed)
  /\ \E ticks \in 0..1 :
       LET now == idle + ticks
       IN  /\ ticks = 1 => idle < DeadAfter
           /\ ticks = 1 /\ Prompt => srv.silent \/ (toServer = <<>> /\ toClient = <<>>)
           /\ \/ Dead(now) /\ Redial /\ UNCHANGED spinning
              \/ /\ ~Dead(now)
                 /\ step' = "key" /\ idle' = now
                 /\ pinged_idle' = (pinged_idle \/ PingDue(now))
                 /\ Sent(IF PingDue(now) THEN <<Say("PING")>> ELSE <<>>)
                 /\ UNCHANGED <<at, tries, reconnecting, joined, refused, alive, shut, toClient,
                                srv>>
  /\ UNCHANGED <<nspass, quitting, stopped, registered, sasl_ok, nick, half, views, bounds>>

\* No key, or a line typed: a message, to the channel or person of a view, lost
\* with the link if it is; /query and /close, which open and close a person's
\* view; /nick; /quit, which ends the loop.
Key ==
  /\ at = "loop" /\ step = "key" /\ ~spinning
  /\ step' = "pump"
  /\ \/ UNCHANGED <<at, quitting, views, spinning, toServer, typed>>
     \/ /\ typed < MaxTyped
        /\ typed' = typed + 1
        /\ \/ /\ "text" \in Typed /\ views # {}
              /\ Sent(<<Say("PRIVMSG")>>)
              /\ UNCHANGED <<at, quitting, views>>
           \/ /\ "query" \in Typed
              /\ \E p \in Person : views' \in {WithView(p), views \ {p}}
              /\ UNCHANGED <<at, quitting, spinning, toServer>>
           \/ /\ (IF registered THEN "nick" ELSE "early nick") \in Typed
              /\ \E n \in Nick : Sent(<<Msg("NICK", n, <<>>)>>)
              /\ UNCHANGED <<at, quitting, views>>
           \/ /\ "quit" \in Typed
              /\ Sent(<<Say("QUIT")>>)
              /\ quitting' = TRUE /\ at' = "leaving"
              /\ UNCHANGED views
  /\ UNCHANGED <<nspass, tries, reconnecting, stopped, registered, joined, pinged_idle, idle,
                 sasl_ok, nick, half, refused, alive, shut, toClient, srv, dials, said>>

\* RUN/STOP: QUIT, and out.
Stop ==
  /\ at = "loop" /\ step = "key" /\ ~spinning
  /\ at' = "leaving" /\ stopped' = TRUE
  /\ Sent(<<Say("QUIT")>>)
  /\ UNCHANGED <<nspass, tries, reconnecting, quitting, loop, sasl_ok, nick, half, windows,
                 alive, shut, toClient, srv, bounds>>

\* conn_close, whose record waits for the window as any does; two seconds,
\* conn_abort: the first screen again.
Leave ==
  /\ at = "leaving" /\ ~spinning
  /\ at' = "first"
  /\ Cut
  /\ UNCHANGED <<nspass, tries, reconnecting, quitting, stopped, loop, sasl_ok, nick, half,
                 windows, spinning, bounds>>

-----------------------------------------------------------------------------
(* The IRC server *)

Welcomed(s) == [s EXCEPT !.up = s.up \/ (s.named /\ s.user /\ ~s.holding)]

Free(n) == Valid(n) /\ n \notin InUse

\* The server's answers to m, after which it may welcome the client.
Answers(m) ==
  CASE m.m = "CAP LS" -> {<<Say(IF o THEN "CAP LS sasl" ELSE "CAP LS")>> : o \in Offers}
    [] m.m = "CAP REQ" -> {<<Say("CAP ACK")>>, <<Say("CAP NAK")>>}
    [] m.m = "AUTHENTICATE PLAIN" -> {<<Say("AUTHENTICATE")>>}
    [] m.m = "AUTHENTICATE login" -> {<<Say(l)>> : l \in Logins}
    [] m.m = "NICK" /\ ~Valid(m.a) -> {<<Say("432")>>}
    [] m.m = "NICK" /\ Valid(m.a) /\ m.a \in InUse -> {<<Say("433")>>}
    [] m.m = "NICK" /\ Free(m.a) /\ srv.up /\ m.a # srv.nick -> {<<Msg("NICK", srv.nick, m.a)>>}
    [] m.m = "PING" -> {<<Say("PONG")>>}
    [] OTHER -> {<<>>}

After(m, answer) ==
  CASE m.m = "CAP LS" -> [srv EXCEPT !.holding = TRUE]
    [] m.m = "CAP END" -> [srv EXCEPT !.holding = FALSE]
    [] m.m = "AUTHENTICATE login" -> [srv EXCEPT !.authed = answer = <<Say("903")>>]
    [] m.m = "NICK" /\ Free(m.a) ->
         [srv EXCEPT !.nick = m.a, !.named = TRUE, !.long = @ \/ Len(m.a) > NickCap]
    [] m.m = "USER" -> [srv EXCEPT !.user = TRUE]
    [] m.m = "JOIN" /\ srv.up -> [srv EXCEPT !.joins[m.a] = @ + 1]
    [] m.m = "IDENTIFY" -> [srv EXCEPT !.identified = @ + 1]
    [] OTHER -> srv

ServerReads ==
  /\ alive /\ ~shut /\ ~srv.silent /\ toServer # <<>>
  /\ toServer' = Tail(toServer)
  /\ LET m == Head(toServer)
     IN  \E answer \in Answers(m) :
           /\ srv' = Welcomed(After(m, answer))
           /\ toClient' = toClient \o answer \o
                            (IF srv'.up /\ ~srv.up THEN <<Say("001")>> ELSE <<>>)
  /\ UNCHANGED <<client, alive, shut, bounds>>

\* Lines unasked for: a PING, talk on a channel or to us, someone else's change
\* of nick, a kick from a channel we are on.
ServerSays ==
  /\ alive /\ srv.up /\ ~srv.silent
  /\ said < MaxSaid
  /\ said' = said + 1
  /\ \/ \E m \in {"PING", "PRIVMSG"} : toClient' = Append(toClient, Say(m))
     \/ \E p \in Person : toClient' = Append(toClient, Msg("PRIVMSG", p, <<>>))
     \/ \E n \in InUse : toClient' = Append(toClient, Msg("NICK", n, n))
     \/ \E c \in Channel : srv.joins[c] > 0 /\ toClient' = Append(toClient, Msg("KICK", c, <<>>))
  /\ UNCHANGED <<client, alive, shut, toServer, srv, dials, typed>>

\* The window shuts, at any time if the server is not prompt, and opens again
\* or does not.
Stall ==
  /\ alive /\ ~shut /\ (Prompt => srv.silent)
  /\ shut' = TRUE
  /\ UNCHANGED <<client, alive, toServer, toClient, srv, bounds>>

Resume ==
  /\ shut
  /\ shut' = FALSE
  /\ UNCHANGED <<client, alive, toServer, toClient, srv, bounds>>

\* The link is lost, what has already come in is still read; or the other end is
\* gone and nothing says so.
Drop ==
  /\ alive
  /\ alive' = FALSE /\ shut' = FALSE /\ toServer' = <<>> /\ srv' = NoServer
  /\ UNCHANGED <<client, toClient, bounds>>

GoSilent ==
  /\ alive /\ ~srv.silent
  /\ srv' = [srv EXCEPT !.silent = TRUE]
  /\ UNCHANGED <<client, link, bounds>>

-----------------------------------------------------------------------------
Init ==
  /\ at = "first" /\ step = "pump" /\ tries = 0 /\ reconnecting = FALSE
  /\ quitting = FALSE /\ stopped = FALSE /\ registered = FALSE /\ joined = 0
  /\ pinged_idle = FALSE /\ idle = 0 /\ nspass = FALSE /\ sasl_ok = FALSE
  /\ nick \in Wanted /\ half = 0 /\ views = {} /\ refused = {} /\ spinning = FALSE
  /\ alive = FALSE /\ shut = FALSE /\ toServer = <<>> /\ toClient = <<>> /\ srv = NoServer
  /\ dials = 0 /\ typed = 0 /\ said = 0

Loop == Pump \/ Join \/ Check \/ Key \/ PushedOut

Next ==
  \/ session \/ Dial \/ Pause \/ Minute
  \/ Loop \/ Stop \/ Leave
  \/ ServerReads \/ ServerSays \/ Stall \/ Resume \/ Drop \/ GoSilent

Spec == Init /\ [][Next]_vars

Ticks == Check /\ idle' # idle

\* The loop goes round, and its frames count.
FairSpec == Spec /\ WF_vars(Loop) /\ SF_vars(Ticks)

-----------------------------------------------------------------------------
\* The types; the counts stay within their bounds, the nick within its array and
\* the views within theirs.
TypeOK ==
  /\ at \in Places /\ step \in {"pump", "check", "key"}
  /\ tries \in 0..4
  /\ {reconnecting, quitting, stopped, registered, pinged_idle, nspass, sasl_ok, spinning, alive,
      shut} \subseteq BOOLEAN
  /\ joined \in 0..Len(Listed) /\ refused \subseteq Channel
  /\ idle \in 0..DeadAfter
  /\ nick \in Seq(Char) /\ Len(nick) <= NickCap
  /\ views \subseteq Channel \cup Person /\ Cardinality(views) <= ViewMax
  /\ half \in 0..MaxDials
  /\ at \in {"first", "dialling", "pause", "minute"} => ~alive

\* Everything either side said has been heard.
Settled == at = "loop" /\ alive /\ toServer = <<>> /\ toClient = <<>> /\ step # "check"

\* "gets CAP END" (ircc.c): registration never hangs with each side waiting for
\* the other; when all is said the server has welcomed the client, whatever it
\* offers, refuses or answers to the login, and however many nicks are in use,
\* unless trying again has led to a nick no server takes.
RegistrationGoesThrough == Settled => (srv.up /\ registered) \/ ~Valid(nick)

\* "so the one password serves both" (ircc.c): when all is said, a client that
\* is registered has been identified exactly once on this connection, by SASL or
\* by NickServ, if there is a password; one that is not, or has none, never by
\* NickServ.
IdentifiedOnce ==
  Settled => srv.identified = (IF registered /\ nspass /\ ~srv.authed THEN 1 ELSE 0)

\* The nick the client goes by is the one the server knows it by, through
\* collisions, our own changes and others', once all is said: unless a nick
\* longer than nick[] was taken, or trying again led to one no server takes.
NickAgrees == Settled /\ ~srv.long => nick = srv.nick \/ ~Valid(nick)

\* Once the channels of the first screen have been gone through and all is said,
\* each was joined once on this connection, the first or a later one, or not at
\* all if the user was told "no free view".
JoinedOnce ==
  Settled /\ step = "key" /\ registered =>
    \A i \in DOMAIN Listed : srv.joins[Listed[i]] = (IF Listed[i] \in refused THEN 0 ELSE 1)

\* The bytes in the line buffer are this connection's.
NoGluedLine == at = "loop" => half \in {0, dials}

\* A link whose other end answers is never taken for dead, however idle: the
\* PING goes out in time and is armed again by what comes back.
LiveLinkKept == [][Prompt /\ at = "loop" /\ at' = "dialling" => ~alive \/ srv.silent]_vars

\* "RUN/STOP anywhere in here means leave the client, not skip this server"
\* (ircc.c): after it was read, in the handshake, a pause, the minute or the
\* loop, or after /quit, this session only goes out to the first screen, and
\* dials no more.
StopIsFinal ==
  [][quitting \/ stopped => dials' = dials /\ (at = "first" \/ at' \in {"leaving", "first"})]_vars

\* A link that is lost is found dead; one whose other end is gone is too, unless
\* the client gets caught in push_out first.
DeadLinkFound ==
  at = "loop" /\ (~alive \/ srv.silent) ~> at # "loop" \/ (alive /\ spinning)
=============================================================================

-------------------------------- MODULE Lines --------------------------------
(***************************************************************************)
(* Text in and out: the server's bytes cut into lines (on_bytes in         *)
(* src/src/ircc.c) and the lines into their parts (src/src/irc.c); what    *)
(* is typed, edited (src/src/ircc.c, src/src/ui.c), and made into the      *)
(* lines sent (src/src/m65/cmd.c, src/src/ircc.c).                         *)
(*                                                                         *)
(* A text is a sequence of characters; a verb, a command's word and a mode *)
(* are one character.  A view is the name stored for it; the status view,  *)
(* which has none here, and no view are the empty name.                    *)
(***************************************************************************)
EXTENDS Naturals, Sequences, SequencesExt

CONSTANTS
  LINE_MAX,        \* 512
  IRC_PARAMS_MAX,  \* 8
  TagCap,          \* 16, a CTCP tag's room
  InputCap,        \* 200 characters typed
  NameCap,         \* 31 characters of a name in a list
  VIEW_MAX,        \* 8, the status view one of them
  VIEW_NAME_CAP,   \* 33, a view's name and its NUL
  LOW_NSPASS_CAP   \* 33, the password and its NUL

Up(s, n) == SubSeq(s, 1, IF n < Len(s) THEN n ELSE Len(s))
From(s, i) == SubSeq(s, i, Len(s))

\* The first place at or after i where a character is in set, or past the end.
Find(s, i, set) ==
  CHOOSE k \in i..Len(s) + 1 :
    /\ \A j \in i..k - 1 : s[j] \notin set
    /\ k = Len(s) + 1 \/ s[k] \in set
SkipSpaces(s) == From(s, CHOOSE k \in 1..Len(s) + 1 :
                           /\ \A j \in 1..k - 1 : s[j] = " "
                           /\ k = Len(s) + 1 \/ s[k] # " ")

\* The word at the start, and what is past it and the one character that ended it.
Word(s) == SubSeq(s, 1, Find(s, 1, {" "}) - 1)
PastWord(s) == From(s, Find(s, 1, {" "}) + 1)

-----------------------------------------------------------------------------
(* ircc.c: on_bytes *)

Ended(line) == IF line # <<>> /\ Last(line) = "CR" THEN Front(line) ELSE line

\* The bytes of a delivery after what is left of the last one: the lines that
\* are whole, and what is left.
on_bytes(line, p) ==
  FoldLeft(LAMBDA acc, c :
             IF c = "LF" THEN [line |-> <<>>, lines |-> Append(acc.lines, Ended(acc.line))]
             ELSE IF Len(acc.line) < LINE_MAX THEN [acc EXCEPT !.line = Append(@, c)] ELSE acc,
           [line |-> line, lines |-> <<>>], p)

-----------------------------------------------------------------------------
(* irc.c.  What a line may lack is a sequence of none or one. *)

Digits == <<"0", "1", "2", "3", "4", "5", "6", "7", "8", "9">>
DigitOf(c) == (CHOOSE d \in DOMAIN Digits : Digits[d] = c) - 1

Numeric(cmd) ==
  IF Len(cmd) = 3 /\ \A i \in 1..3 : cmd[i] \in ToSet(Digits)
    THEN (DigitOf(cmd[1]) * 100) + (DigitOf(cmd[2]) * 10) + DigitOf(cmd[3]) ELSE 0

\* Mutant: the walk ends with the last parameter that is kept.
Params_kept(s) ==
  LET walk[k \in 0..IRC_PARAMS_MAX, i \in 1..Len(s) + 2] ==
        LET rest == SkipSpaces(From(s, i))
            at == Len(s) - Len(rest) + 1
        IN  CASE rest = <<>> \/ k = 0 -> [params |-> <<>>, trailing |-> <<>>]
              [] rest # <<>> /\ k > 0 /\ rest[1] = ":" -> [params |-> <<>>, trailing |-> <<Tail(rest)>>]
              [] OTHER -> LET next == walk[k - 1, at + Len(Word(rest))]
                          IN  [next EXCEPT !.params = <<Word(rest)>> \o @]
  IN  walk[IRC_PARAMS_MAX, 1]

\* The parameters, as many as are kept, and the trailing text, however many
\* there are before it.
Params(s) ==
  LET walk[i \in 1..Len(s) + 2] ==
        LET rest == SkipSpaces(From(s, i))
            at == Len(s) - Len(rest) + 1
        IN  CASE rest = <<>> -> [params |-> <<>>, trailing |-> <<>>]
              [] rest # <<>> /\ rest[1] = ":" -> [params |-> <<>>, trailing |-> <<Tail(rest)>>]
              [] OTHER -> LET next == walk[at + Len(Word(rest))]
                          IN  [next EXCEPT !.params = <<Word(rest)>> \o @]
      all == walk[1]
  IN  [all EXCEPT !.params = Up(@, IRC_PARAMS_MAX)]

NoMessage == [cmd |-> <<>>]

irc_parse(line) ==
  LET starts(s, c) == s # <<>> /\ s[1] = c
      tagged == starts(line, "@")
      untagged == IF tagged THEN SkipSpaces(PastWord(line)) ELSE line
      prefixed == starts(untagged, ":")
      who == IF prefixed THEN Tail(Word(untagged)) ELSE <<>>
      bang == Find(who, 1, {"!"})
      body == IF prefixed THEN SkipSpaces(PastWord(untagged)) ELSE untagged
      cmd == Word(body)
      rest == Params(PastWord(body))
  IN  IF body = <<>> \/ (tagged /\ Word(line) = line) THEN NoMessage
      ELSE [tags |-> IF tagged THEN <<Tail(Word(line))>> ELSE <<>>,
            prefix |-> IF prefixed THEN <<SubSeq(who, 1, bang - 1)>> ELSE <<>>,
            host |-> IF prefixed /\ bang <= Len(who) THEN <<From(who, bang + 1)>> ELSE <<>>,
            cmd |-> cmd, numeric |-> Numeric(cmd),
            params |-> rest.params, trailing |-> rest.trailing]

\* A request between two \001: its tag, and what is left of the text.
irc_ctcp(text) ==
  LET stop == Find(text, 2, {"SOH", " "})
      rest == From(text, stop)
      arg == IF rest # <<>> /\ rest[1] = " " THEN Tail(rest) ELSE rest
  IN  IF text = <<>> \/ text[1] # "SOH" \/ stop = 2 THEN [tag |-> <<>>, text |-> text]
      ELSE [tag |-> Up(SubSeq(text, 2, stop - 1), TagCap - 1),
            text |-> SubSeq(arg, 1, Find(arg, 1, {"SOH"}) - 1)]

-----------------------------------------------------------------------------
(* What is typed: the line editor, a prompt's and a password's *)

Printable(k) == k \notin {"DEL", "LEFT", "RIGHT", "RETURN", "STOP"}

\* Mutant: a character is put at the end, wherever the cursor is.
Edit_end(e, k) ==
  CASE k = "LEFT" -> [e EXCEPT !.pos = IF @ = 0 THEN 0 ELSE @ - 1]
    [] k = "RIGHT" -> [e EXCEPT !.pos = IF @ = Len(e.input) THEN @ ELSE @ + 1]
    [] k = "DEL" -> IF e.pos = 0 THEN e ELSE [input |-> RemoveAt(e.input, e.pos), pos |-> e.pos - 1]
    [] OTHER -> IF Len(e.input) < InputCap THEN [input |-> Append(e.input, k), pos |-> e.pos + 1] ELSE e

\* session's keys: the cursor is between characters, DEL takes the one before.
Edit(e, k) ==
  CASE k = "LEFT" -> [e EXCEPT !.pos = IF @ = 0 THEN 0 ELSE @ - 1]
    [] k = "RIGHT" -> [e EXCEPT !.pos = IF @ = Len(e.input) THEN @ ELSE @ + 1]
    [] k = "DEL" -> IF e.pos = 0 THEN e ELSE [input |-> RemoveAt(e.input, e.pos), pos |-> e.pos - 1]
    [] OTHER -> IF Len(e.input) < InputCap THEN [input |-> InsertAt(e.input, e.pos + 1, k), pos |-> e.pos + 1] ELSE e

\* RETURN ends a prompt and accepts what it holds, RUN/STOP cancels it: keys
\* has one of them, and no key behind it is read.
Ends == {"RETURN", "STOP"}
Accepted(keys) == keys[Find(keys, 1, Ends)] = "RETURN"

\* Mutant: RETURN is a key like any other.
Read_on(keys) == SelectSeq(keys, LAMBDA k : k \notin Ends)

Read(keys) == SubSeq(keys, 1, Find(keys, 1, Ends) - 1)

\* A prompt with an answer offered: typing replaces it, DEL edits it.
ui_read_line(offered, keys, maxlen) ==
  [accepted |-> Accepted(keys),
   out |-> FoldLeft(LAMBDA r, k :
             CASE k = "DEL" -> [out |-> IF r.out = <<>> THEN <<>> ELSE Front(r.out), fresh |-> FALSE]
               [] Printable(k) -> LET kept == IF r.fresh THEN <<>> ELSE r.out
                                  IN  [out |-> IF Len(kept) < maxlen THEN Append(kept, k) ELSE kept, fresh |-> FALSE]
               [] OTHER -> r,
           [out |-> Up(offered, maxlen), fresh |-> TRUE], Read(keys)).out]

read_secret(keys, cap) ==
  [accepted |-> Accepted(keys),
   out |-> FoldLeft(LAMBDA out, k :
             CASE k = "DEL" -> IF out = <<>> THEN <<>> ELSE Front(out)
               [] Printable(k) /\ Len(out) < cap -> Append(out, k)
               [] OTHER -> out,
           <<>>, Read(keys))]

-----------------------------------------------------------------------------
(* The views there are, as far as what is sent depends on them *)

Small ==
  [A |-> "a", B |-> "b", C |-> "c", D |-> "d", E |-> "e", F |-> "f", G |-> "g", H |-> "h", I |-> "i", J |-> "j", K |-> "k",
   L |-> "l", M |-> "m", N |-> "n", O |-> "o", P |-> "p", Q |-> "q", R |-> "r", S |-> "s", T |-> "t", U |-> "u", V |-> "v",
   W |-> "w", X |-> "x", Y |-> "y", Z |-> "z"]
same_ci(a, b) ==
  LET fold(s) == [i \in DOMAIN s |-> IF s[i] \in DOMAIN Small THEN Small[s[i]] ELSE s[i]] IN fold(a) = fold(b)

view_find(views, name) == {v \in DOMAIN views : same_ci(views[v], name)}
WithView(views, name) ==
  IF view_find(views, name) = {} /\ Len(views) < VIEW_MAX - 1 THEN Append(views, Up(name, VIEW_NAME_CAP - 1)) ELSE views

\* The stored name of the view for a name, opened if one is free; none if not.
view_for(views, name) ==
  LET after == WithView(views, name)
      found == view_find(views, name)
  IN  CASE found # {} -> views[CHOOSE v \in found : \A w \in found : v <= w]
        [] found = {} /\ after # views -> Last(after)
        [] OTHER -> <<>>

-----------------------------------------------------------------------------
(* What is sent *)

CRLF == <<"CR", "LF">>
is_channel(s) == s # <<>> /\ s[1] \in {"#", "&"}

\* send3 and the writers like it: cut so that the line's end has room.
Sent(text) == Up(text, LINE_MAX - 2) \o CRLF

sendv(cmd, a, b, text) ==
  LET part(s, before) == IF s = <<>> THEN <<>> ELSE before \o s
  IN  Sent(<<cmd>> \o part(a, <<" ">>) \o part(b, <<" ">>) \o part(text, <<" ", ":">>))

privmsg(target, text, action) ==
  Sent(<<"PRIVMSG", " ">> \o target
       \o (IF action THEN <<" ", ":", "SOH", "ACTION", " ">> \o text \o <<"SOH">> ELSE <<" ", ":">> \o text))

\* A channel may lack its #.
Named(chan) == IF ~is_channel(chan) /\ Len(chan) < NameCap + 1 THEN <<"#">> \o chan ELSE chan

\* Mutant: JOIN is sent whether there is a view for the channel or not.
join_unseen(views, chan) ==
  IF chan = <<>> THEN <<>> ELSE <<Sent(<<"JOIN", " ">> \o Named(chan))>>

join(views, chan) ==
  IF chan = <<>> \/ view_for(views, Named(chan)) = <<>> THEN <<>> ELSE <<Sent(<<"JOIN", " ">> \o Named(chan))>>

\* Each name of a list, up to its comma, without its spaces, cut, if there is
\* anything left of it.
Listed(list) ==
  LET names[i \in 1..Len(list) + 2] ==
        LET end == Find(list, i, {","})
            one == Up(SelectSeq(SubSeq(list, i, end - 1), LAMBDA c : c # " "), NameCap)
        IN  IF i > Len(list) THEN <<>> ELSE <<one>> \o names[end + 1]
  IN  SelectSeq(names[1], LAMBDA one : one # <<>>)

\* ... joined, in order, each with a view taken from those behind it.
join_all(views, list) ==
  FoldLeft(LAMBDA acc, one : [lines |-> acc.lines \o join(acc.views, one), views |-> WithView(acc.views, Named(one))],
           [lines |-> <<>>, views |-> views], Listed(list)).lines

-----------------------------------------------------------------------------
(* The slash commands: one table of words, one of the shapes of their lines *)

Ids ==
  [join |-> "JOIN", j |-> "JOIN", part |-> "PART", p |-> "PART", quit |-> "QUIT", q |-> "QUIT", nick |-> "NICK",
   msg |-> "MSG", m |-> "MSG", me |-> "ME", identify |-> "IDENTIFY", id |-> "IDENTIFY", raw |-> "RAW", quote |-> "RAW",
   query |-> "QUERY", close |-> "CLOSE", whois |-> "WHOIS", w |-> "WHOIS", names |-> "NAMES", topic |-> "TOPIC",
   t |-> "TOPIC", away |-> "AWAY", back |-> "BACK", notice |-> "NOTICE", n |-> "NOTICE", kick |-> "KICK", k |-> "KICK",
   mode |-> "MODE", op |-> "OP", deop |-> "DEOP", invite |-> "INVITE", i |-> "INVITE", ignore |-> "IGNORE",
   clear |-> "CLEAR", help |-> "HELP"]

F_CHAN == {"PART", "NAMES", "TOPIC", "KICK", "MODE", "OP", "DEOP", "INVITE"}
F_WORD == {"NICK", "MSG", "WHOIS", "NOTICE", "KICK", "OP", "DEOP", "INVITE"}
F_TEXT == {"QUIT", "MSG", "ME", "TOPIC", "AWAY", "NOTICE", "KICK"}
F_NEED == {"MSG", "ME", "NOTICE"}
F_REST == {"MODE"}
F_SWAP == {"INVITE"}
F_SEND == {"NICK", "WHOIS", "NAMES", "TOPIC", "AWAY", "BACK", "NOTICE", "KICK", "MODE", "INVITE"}
Verb(id) == CASE id = "BACK" -> "AWAY" [] id \in {"OP", "DEOP"} -> "MODE" [] OTHER -> id

\* Mutant: a channel named is used and left in the argument.
chan_arg_kept(arg, view) ==
  IF is_channel(arg) THEN [chan |-> Word(arg), arg |-> arg]
  ELSE [chan |-> IF is_channel(view) THEN view ELSE <<>>, arg |-> arg]

\* The channel the argument names, else the view's; none when neither is one.
chan_arg(arg, view) ==
  IF is_channel(arg) THEN [chan |-> Word(arg), arg |-> SkipSpaces(PastWord(arg))]
  ELSE [chan |-> IF is_channel(view) THEN view ELSE <<>>, arg |-> arg]

\* The lines a command sends, view showing among the views there are.
cmd_line(s, view, views, nspass) ==
  LET id == IF Word(s) # <<>> /\ Word(s)[1] \in DOMAIN Ids /\ Len(Word(s)) = 1 THEN Ids[Word(s)[1]] ELSE "NONE"
      arg0 == SkipSpaces(PastWord(s))
      first == IF id \in F_CHAN \ F_SWAP THEN chan_arg(arg0, view) ELSE [chan |-> <<>>, arg |-> arg0]
      word == IF id \in F_WORD THEN Word(first.arg) ELSE <<>>
      arg1 == IF id \in F_WORD THEN SkipSpaces(PastWord(first.arg)) ELSE first.arg
      second == IF id \in F_SWAP THEN chan_arg(arg1, view) ELSE [chan |-> first.chan, arg |-> arg1]
      chan == second.chan
      arg == second.arg
      text == IF id = "AWAY" /\ arg = <<>> THEN <<"away">> ELSE IF id \in F_TEXT THEN arg ELSE <<>>
      lacking == (id \in F_CHAN /\ chan = <<>>) \/ (id \in F_WORD /\ word = <<>>) \/ (id \in F_NEED /\ arg = <<>>)
      own == CASE id = "JOIN" -> join(views, arg)
               [] id = "PART" -> <<sendv("PART", chan, <<>>, <<>>)>>
               [] id = "QUIT" -> <<sendv("QUIT", <<>>, <<>>, IF arg # <<>> THEN arg ELSE <<"goodbye">>)>>
               [] id = "MSG" -> <<privmsg(word, arg, FALSE)>>
               [] id = "ME" -> IF view # <<>> THEN <<privmsg(view, arg, TRUE)>> ELSE <<>>
               [] id = "IDENTIFY" -> LET pass == IF arg # <<>> THEN Up(arg, LOW_NSPASS_CAP - 1) ELSE nspass
                                     IN  IF pass = <<>> THEN <<>>
                                         ELSE <<Sent(<<"PRIVMSG", " ", "NickServ", " ", ":", "IDENTIFY", " ">> \o pass)>>
               [] id = "RAW" -> IF arg # <<>> THEN <<Sent(arg)>> ELSE <<>>
               [] id = "QUERY" -> LET v == view_for(views, Word(arg))
                                      said == SkipSpaces(PastWord(arg))
                                  IN  IF arg = <<>> \/ is_channel(arg) \/ v = <<>> \/ said = <<>> THEN <<>>
                                      ELSE <<privmsg(v, said, FALSE)>>
               [] id \in {"OP", "DEOP"} -> <<sendv("MODE", chan, IF id = "OP" THEN <<"+o">> ELSE <<"-o">>, word)>>
               [] OTHER -> <<>>
      gathered == IF id \in F_SWAP THEN <<sendv(Verb(id), word, chan, text)>>
                  ELSE <<sendv(Verb(id), chan, IF id \in F_REST THEN arg ELSE word, text)>>
  IN  IF lacking THEN <<>> ELSE own \o (IF id \in F_SEND THEN gathered ELSE <<>>)

\* A line without a slash is said to the channel or the person of the view.
typed_line(input, view, views, nspass) ==
  IF input[1] = "/" THEN cmd_line(Tail(input), view, views, nspass)
  ELSE IF view # <<>> THEN <<privmsg(view, input, FALSE)>> ELSE <<>>
=============================================================================

------------------------------ MODULE MCAnswers ------------------------------
(* The questions.  *)
EXTENDS Meant

MCOidRsa == <<1, 1>>
MCOidEc == <<1, 2>>
MCOidP256 == <<1, 3>>
MCOidEd25519 == <<1, 4>>
MCOidRsaSha256 == <<2, 1>>
MCOidEcdsaSha2 == <<3>>
MCOidSan == <<4, 1>>

Key(kind, id) == [kind |-> kind, id |-> id]
Leaf == Key("RSA", 11)
Middle == Key("RSA", 12)
Anchor == Key("RSA", 13)
Stranger == Key("RSA", 14)
OldRoot == Key("P256", 15)
Forger == Key("RSA", 18)
MCRootKeys == {Anchor, OldRoot}
MCSigned == Signatures
MCRoots == Anchors
Host == <<97, 46, 98>>                                \* a.b

Cert(key, by) ==
  [key |-> key, by |-> by, alg |-> "RSA_SHA256", names |-> <<Host>>, san |-> "first",
   from |-> <<2025, 12, 31, 23, 59, 58>>, till |-> <<2050, 1, 1, 0, 0, 0>>, version |-> TRUE, form |-> 1]
First == Cert(Leaf, Middle)
Second == Cert(Middle, Anchor)
Root == [Cert(Anchor, Anchor) EXCEPT !.version = FALSE]

Clock(yy, mm, dd, hh) == [yy |-> yy, mm |-> mm, dd |-> dd, hh |-> hh, mi |-> 0, ss |-> 0]
Now == Clock(126, 6, 15, 12)

Question(chain, host, rtc) == [chain |-> chain, host |-> host, rtc |-> rtc, at |-> 0, value |-> 0]

\* Names: wildcards, cases, labels too many and too few, where the list stands.
ByName ==
  LET names == {<<97, 46, 98>>, <<65, 46, 66>>, <<42, 46, 98>>, <<42, 46, 97, 46, 98>>, <<42>>, <<98>>, <<97, 42, 46, 98>>, <<97, 46, 98, 98, 98>>}
      hosts == {Host, <<99, 46, 97, 46, 98>>, <<98>>, <<97, 46, 66>>, <<97, 46, 98, 98, 98>>}
      lists == {<<>>} \cup {<<n>> : n \in names} \cup {<<<<98>>, n>> : n \in names}
  IN  {Question(<<[Cert(Leaf, Anchor) EXCEPT !.names = n, !.san = s, !.form = f, !.version = v], Root>>, h, Now) :
         n \in lists, s \in {"first", "later", "critical", "none"}, f \in {1, 3}, v \in BOOLEAN, h \in hosts}

\* Dates on both sides of the clock, to the second and over 2050.
ByDate ==
  LET dates == {<<2000, 1, 1, 0, 0, 0>>, <<2026, 6, 15, 11, 59, 59>>, <<2026, 6, 15, 12, 0, 0>>,
                <<2026, 6, 15, 12, 0, 1>>, <<2031, 2, 3, 4, 5, 6>>, <<2049, 12, 31, 23, 59, 59>>, <<2050, 1, 1, 0, 0, 0>>}
      clocks == {Now, Clock(100, 1, 1, 0), Clock(125, 12, 31, 23), Clock(146, 12, 31, 23), Clock(147, 1, 1, 0), Clock(126, 0, 15, 12)}
  IN  {Question(<<[First EXCEPT !.from = a, !.till = b], [Second EXCEPT !.till = d], Root>>, Host, t) :
         a \in dates, b \in dates, d \in {<<2026, 6, 15, 11, 59, 59>>, <<2050, 1, 1, 0, 0, 0>>}, t \in clocks}

\* Chains of every length there is room for and one more, of keys and
\* algorithms the client reads and does not.
ByLink ==
  LET keys == {Leaf, Middle, Anchor, Stranger, OldRoot, Key("NONE", 16)}
      certs == {Cert(k, b) : k \in keys, b \in {Middle, Anchor, Stranger}}
      more == {[First EXCEPT !.alg = a, !.form = f] : a \in {"RSA_SHA256", "ECDSA", "UNKNOWN"}, f \in 1..3}
              \cup {Cert(Leaf, Forger), Cert(Forger, Forger)}
  IN  {Question(<<c>>, Host, Now) : c \in certs \cup more}
      \cup {Question(<<c, d>>, Host, Now) : c \in certs \cup more, d \in certs}
      \cup {Question(<<First, c, d>>, Host, Now) : c \in certs, d \in certs}
      \cup {Question(<<First, Second, c, d>>, Host, Now) : c \in {Cert(Anchor, Anchor), Cert(Anchor, Stranger)}, d \in certs}

\* One byte of a chain damaged.
ByDamage ==
  LET chains == {<<First, Second, Root>>, <<Cert(Leaf, Anchor), Cert(Anchor, Anchor)>>, <<[Cert(Leaf, Anchor) EXCEPT !.form = 3], Root>>,
                 <<Cert(Leaf, Forger), Cert(Anchor, Anchor)>>}
      ones == {<<First>>, <<[First EXCEPT !.key = OldRoot, !.form = 2]>>, <<[First EXCEPT !.key = Key("ED25519", 17)]>>}
      bytes(chain) == FoldLeft(LAMBDA acc, c : acc + Len(File(c)), 0, chain)
  IN  UNION {[chain : {chain}, host : {Host}, rtc : {Now}, at : 1..bytes(chain), value : {0, 1, 3, 6, 48, 100, 129, 130, 255}] : chain \in chains \cup ones}

MCChains == ByName \cup ByDate \cup ByLink \cup ByDamage

MCModuli == {<<11, 13, 7>>, <<11, 17, 3>>, <<11, 23, 3>>}
MCScalars == {3, 6, 8, 12, 23, 37, 42, 59, 63, 127}
MCPoints == 0..63

\* Messages with every part and without.
Message(tags, prefix, host, cmd, params, trailing) ==
  [tags |-> tags, prefix |-> prefix, host |-> host, cmd |-> cmd, params |-> params, trailing |-> trailing]
Messages ==
  {m \in {Message(t, p, h, c, ps, tr) :
            t \in {<<>>, <<<<"t">>>>}, p \in {<<>>, <<<<"n">>>>}, h \in {<<>>, <<<<"h", "@">>>>},
            c \in {<<"PRIVMSG">>, <<"0", "0", "1">>, <<"4", "3", "3">>, <<"4", "3">>},
            ps \in {<<>>, <<<<"#", "a">>>>, <<<<"a">>, <<"b", ":">>>>, <<<<"a">>, <<"b">>, <<"c">>>>},
            tr \in {<<>>, <<<<>>>>, <<<<":", "x", " ", "CR", "y">>>>, <<<<" ", "x">>>>}} :
     m.host # <<>> => m.prefix # <<>>}
Ping == Message(<<>>, <<>>, <<>>, <<"PING">>, <<>>, <<<<"x">>>>)
Filler(n) == Message(<<>>, <<>>, <<>>, <<"X">>, <<>>, <<[k \in 1..n |-> "y"]>>)
MCStreams ==
  [messages : {<<m>> : m \in Messages} \cup {<<Ping, m>> : m \in {n \in Messages : n.tags = <<>>}}, cuts : {{}, {3, 7}, 1..30}]
       \cup [messages : {<<Filler(n), Ping, Filler(n), Ping>> : n \in 24..32}, cuts : {{}, {9}, {29}, {30}, {31}, {32}, 1..90}]
MCRequests ==
  {<<"V">>, <<"P", "Q">>, <<"P", "Q", "R", "S">>} \X {<<>>, <<"x">>, <<"x", " ", "y">>, <<" ">>}

\* The parts each command takes.
Shape ==
  [join |-> {"chan"}, j |-> {"chan"}, part |-> {"chan"}, p |-> {"chan"}, names |-> {"chan"}, topic |-> {"chan", "text"},
   t |-> {"chan", "text"}, mode |-> {"chan", "text"}, kick |-> {"chan", "word", "text"}, k |-> {"chan", "word", "text"},
   op |-> {"chan", "word"}, deop |-> {"chan", "word"}, invite |-> {"chan", "word"}, i |-> {"chan", "word"},
   nick |-> {"word"}, whois |-> {"word"}, w |-> {"word"}, msg |-> {"word", "text"}, m |-> {"word", "text"},
   notice |-> {"word", "text"}, n |-> {"word", "text"}, query |-> {"word", "text"}, me |-> {"text"}, away |-> {"text"},
   back |-> {}, quit |-> {"text"}, q |-> {"text"}, identify |-> {"text"}, id |-> {"text"}, raw |-> {"text"},
   quote |-> {"text"}, close |-> {}, clear |-> {}, help |-> {}, shrug |-> {"text"}, say |-> {"text"}]

\* The views besides the status view, of which there are two: none, one, both
\* taken, by names written otherwise too.
Boards == {<<>>, <<<<"p">>>>, <<<<"#", "v">>, <<"p">>>>, <<<<"W">>, <<"#", "C">>>>}
MCCommands ==
  {c \in [id : DOMAIN Shape, gap : {<<" ">>, <<" ", " ">>}, chan : {<<>>, <<"#", "c">>, <<"&", "d">>, <<"c">>},
               word : {<<>>, <<"w">>, <<"w", "v">>, <<"P", "w", "v", "w", "v", "w", "v">>},
               text : {<<>>, <<"x">>, <<"x", " ", ":", "y", " ">>, <<":">>}, view : {<<>>, <<"#", "v">>, <<"p">>, <<"W">>},
               views : Boards, pass : {<<>>, <<"s">>}] :
          /\ c.view = <<>> \/ c.view \in ToSet(c.views)
          /\ c.chan # <<>> => "chan" \in Shape[c.id]
          /\ c.chan = <<"c">> => c.id \in {"join", "j"}
          /\ c.word # <<>> => "word" \in Shape[c.id]
          /\ c.text # <<>> => "text" \in Shape[c.id] /\ ("word" \in Shape[c.id] => c.word # <<>>)
          /\ c.id = "say" => c.text # <<>>
          /\ c.id \in {"invite", "i"} /\ c.chan # <<>> => c.word # <<>>}

Presses(set, n) == UNION {[1..k -> set] : k \in 0..n}
MCEditings ==
  [input : {<<>>, <<"a", "b", "a">>}, keys : Presses({"a", "b", "DEL", "LEFT", "RIGHT"}, 4)]
MCPrompts ==
  [offered : {<<>>, <<"b">>, <<"b", "b", "a">>},
   keys : {keys \in Presses({"a", "DEL", "LEFT", "RETURN", "STOP"}, 5) : \E k \in DOMAIN keys : keys[k] \in {"RETURN", "STOP"}}, max : {2, 3}]
MCLists ==
  [names : UNION {[1..k -> {<<>>, <<"a">>, <<" ", "#", "b">>, <<"#", "B">>, <<"a", "b", "c", "d">>, <<"#", "b", " ", "c", "d", "e", "f">>}] : k \in 0..4},
   views : Boards]
=============================================================================

-------------------------------- MODULE Meant --------------------------------
(***************************************************************************)
(* What the answers of module Answers are to be.                           *)
(***************************************************************************)
EXTENDS Answers

-----------------------------------------------------------------------------
(* Chains *)

Earlier(a, b) == \E i \in DOMAIN a : a[i] < b[i] /\ \A j \in 1..i - 1 : a[j] = b[j]

\* The time a clock tells, when it is one the program's build could meet.
Time(rtc) == <<1900 + rtc.yy, rtc.mm, rtc.dd, rtc.hh, rtc.mi, rtc.ss>>
Told(rtc) ==
  /\ 1900 + rtc.yy \in 2000 + CLOCK_BUILT_YY .. 2020 + CLOCK_BUILT_YY
  /\ rtc.mm \in 1..12 /\ rtc.dd \in 1..31 /\ rtc.hh \in 0..23 /\ rtc.mi \in 0..59 /\ rtc.ss \in 0..60

InDate(c, rtc) == Told(rtc) => ~Earlier(Time(rtc), c.from) /\ ~Earlier(c.till, Time(rtc))

\* A name's labels, in small letters: what is before the first dot, and the others.
Small(b) == IF b \in 65..90 THEN b + 32 ELSE b
LabelsFrom(name) ==
  LET from[k \in 1..Len(name) + 1] ==
        IF k > Len(name) THEN <<<<>>>>
        ELSE IF name[k] = 46 THEN <<<<>>>> \o from[k + 1]
        ELSE <<<<Small(name[k])>> \o Head(from[k + 1])>> \o Tail(from[k + 1])
  IN  from
Labels(name) == LabelsFrom(name)[1]
Covers(name, host) ==
  LET n == Labels(name)
      h == Labels(host)
  IN  /\ Len(name) <= DNS_CAP /\ Len(n) = Len(h)
      /\ \A i \in DOMAIN n : n[i] = h[i] \/ (i = 1 /\ n[1] = <<42>> /\ Len(n) > 1)
Names(c, host) == c.version /\ c.san # "none" /\ \E i \in DOMAIN c.names : Covers(c.names[i], host)

Linked(chain) ==
  \A i \in 1..Len(chain) - 1 :
    chain[i].by = chain[i + 1].key /\ chain[i].by.kind = "RSA" /\ chain[i].alg = "RSA_SHA256"

\* The certificates there is room for, whole.
Kept(chain) ==
  LET bytes[k \in 0..Len(chain)] == IF k = 0 THEN 0 ELSE bytes[k - 1] + Len(File(chain[k]))
      fit == {k \in 0..Len(chain) : k <= CHAIN_MAX /\ bytes[k] <= CERT_CAP}
  IN  SubSeq(chain, 1, CHOOSE k \in fit : \A j \in fit : j <= k)

Damaged(q) == q.at # 0

\* A chain is found to be the server's exactly when every certificate of it
\* that was kept is signed by the next, the last is one of the anchors, the
\* first names the host, and every one is in date at a time the clock tells;
\* and when something is wrong, the user is told which.  When a byte of it came
\* out wrong it is the server's only if certificates at its start say so,
\* signed and in date, up to an anchor (chain_policy and chain_verify in
\* src/src/tls/policy.c and src/src/tls/chain.c, over the store of
\* src/src/bank/api.c).
ChainIsProven ==
  Answered("chain") =>
    LET kept == Kept(Q.chain)
        named == Names(Q.chain[1], Q.host)
        inDate == \A i \in DOMAIN kept : InDate(kept[i], Q.rtc)
        anchored == Last(kept).key \in RootKeys
        proven(k) == LET p == SubSeq(Q.chain, 1, k)
                     IN  /\ Linked(p) /\ Last(p).key \in RootKeys
                         /\ k > 1 => named
                         /\ \A i \in 1..k - 1 : InDate(p[i], Q.rtc)
    IN  IF Damaged(Q) THEN A = "OK" => \E k \in DOMAIN Q.chain : proven(k)
        ELSE /\ A = "OK" <=> named /\ inDate /\ Linked(kept) /\ anchored
             /\ A = "NO_ANCHOR" <=> named /\ inDate /\ Linked(kept) /\ ~anchored /\ Last(kept).key.kind # "NONE"
             /\ A = "BAD_NAME" <=> ~named
             /\ A = "EXPIRED" <=> named /\ ~inDate

At(bytes, i, part) == i + Len(part) - 1 <= Len(bytes) /\ SubSeq(bytes, i, i + Len(part) - 1) = part

\* The certificates in these bytes that an authority did sign, in date.
Written == {<<c, Tbs(c)>> : c \in Issued}
Held(bytes, rtc) ==
  LET starts == {i \in DOMAIN bytes : bytes[i] = SEQ}
  IN  {w[1] : w \in {v \in Written : (\E i \in starts : At(bytes, i, v[2])) /\ InDate(v[1], rtc)}}

\* The keys these bytes are reason to trust: an anchor's, and a key that is
\* handed down by a certificate signed with one of them.
Trusted(bytes, rtc) ==
  LET handed == {<<c.by, c.key>> : c \in Held(bytes, rtc)}
      keys == RootKeys \cup {h[2] : h \in handed}
      Closed(S) == RootKeys \subseteq S /\ \A h \in handed : h[1] \in S => h[2] \in S
  IN  {k \in keys : \A S \in SUBSET keys : Closed(S) => k \in S}

\* Whatever bytes come in, and wherever the store cuts them, they are the
\* server's only if some authority did say so: the first certificate of them is
\* one that was issued, for the host and in date, and signed with a key that the
\* certificates behind it, in date too, hand down from an anchor; or it is an
\* anchor itself (ck_chain_run in src/src/bank/chain_api.c).
OnlyTheIssued ==
  Answered("chain") /\ A = "OK" =>
    LET bytes == Store(Q)
        first == SubSeq(bytes, 1, After(der_elem(bytes, 0, Len(bytes))))
    IN  \/ \E c \in Held(first, Q.rtc) : c.by \in Trusted(bytes, Q.rtc) /\ Names(c, Q.host)
        \/ \E k \in RootKeys, i \in DOMAIN first : At(first, i, Spki(k))

\* What is found in a certificate is what its authority put there: the part
\* that is signed, the signature and its algorithm, the key.  Of one with a
\* damaged byte, whatever is found is inside the file, the signature behind the
\* part that is signed and the key inside it, where the other walker finds it
\* too (chain_parts in src/src/tls/chain.c, x509_key_of in src/src/tls/x509.c,
\* der_tbs_field in src/src/tls/der.c).
PartsAreFound ==
  Answered("parts") =>
    LET c == Q.chain[1]
        p == A.parts
        k == A.key
        inside(r, end) == r.off + r.len <= end
        part(r) == SubSeq(A.file, r.off + 1, r.off + r.len)
    IN  IF Damaged(Q)
        THEN p.ok =>
               /\ p.sig.off >= p.tbs.off + p.tbs.len /\ inside(p.sig, Len(A.file))
               /\ k.kind # "NONE" =>
                    /\ A.spki.tag = SEQ /\ After(k.spki) = After(A.spki) /\ k.spki.off < A.spki.off
                    /\ inside(k.spki, After(A.tbs)) /\ k.spki.off >= A.tbs.off
                    /\ k.kind = "RSA" => inside(k.n, After(A.tbs)) /\ inside(k.e, After(A.tbs))
        ELSE /\ p.ok /\ part(p.tbs) = Tbs(c) /\ part(p.sig) = Signature(c) /\ p.alg = c.alg
             /\ k.kind = c.key.kind
             /\ k.kind # "NONE" => part(k.spki) = Spki(c.key)
             /\ k.kind = "RSA" => part(k.n) = Modulus(c.key) /\ part(k.e) = Exponent

-----------------------------------------------------------------------------
(* Numbers *)

PowerMod(b, e, n) == FoldLeft(LAMBDA r, k : (r * b) % n, 1, [k \in 1..e |-> k])

SignatureIsGood ==
  LET n == Q.m[1] * Q.m[2]
      em == 116 + (2 * Q.hash[1]) + Q.hash[2]         \* 0 1 11 0 1 and the hash
  IN  Q.s < n /\ PowerMod(Q.s, Q.m[3], n) = em

\* The padding of a hash over a salt, its highest bit, which the modulus may
\* lack, left open.
PaddingIsGood ==
  LET mask(h) == ToyHash(h \o <<0, 0, 0, 0>>) \o ToyHash(h \o <<0, 0, 0, 1>>)
      bits(v) == <<v \div 2, v % 2>>
      xor(x, y) == (2 * ((bits(x)[1] + bits(y)[1]) % 2)) + ((bits(x)[2] + bits(y)[2]) % 2)
      Opens(salt) ==
        LET h == ToyHash([k \in 1..8 |-> 0] \o Q[2] \o salt)
            db == <<0, 1>> \o salt
            em == [k \in 1..4 |-> xor(db[k], mask(h)[k])] \o h \o <<0>>
        IN  Q[1] = em \/ Q[1] = [em EXCEPT ![1] = (@ + 2) % 4]
  IN  \E salt \in (0..3) \X (0..3) : Opens(salt)

\* The curve that has a point whose first coordinate is x, d y^2 = x^3 + 22 x^2
\* + x modulo 31 where d makes y one of that point, and the point's multiples.
Inverses == [v \in 1..30 |-> CHOOSE w \in 1..30 : (v * w) % 31 = 1]
Over(a, b) == (a * Inverses[b % 31]) % 31
Infinity == <<>>
Plus(d, p, q) ==
  LET slope == IF p = q THEN Over((3 * p[1] * p[1]) + (44 * p[1]) + 1, 2 * d * p[2])
               ELSE Over(q[2] - p[2], q[1] - p[1])
      x == ((d * slope * slope) - 22 - p[1] - q[1]) % 31
  IN  IF p = Infinity THEN q ELSE IF q = Infinity THEN p
      ELSE IF p[1] = q[1] /\ (p[2] + q[2]) % 31 = 0 THEN Infinity
      ELSE <<x, ((slope * (p[1] - x)) - p[2]) % 31>>
Multiples ==
  [x \in 1..30 |->
     LET d == ((x * x * x) + (22 * x * x) + x) % 31
     IN  FoldLeft(LAMBDA acc, k : Append(acc, Plus(d, Last(acc), <<x, 1>>)), <<<<x, 1>>>>, [k \in 1..127 |-> k])]

\* The scalar with its lowest bits cleared and its highest set, times the point
\* the bytes name, whose highest bit is not looked at.
Shared(scalar, point) ==
  LET n == 64 + (4 * ((scalar % 64) \div 4))
      x == (point % 32) % 31
  IN  IF x = 0 \/ Multiples[x][n] = Infinity THEN 0 ELSE Multiples[x][n][1]

\* What 2^256 folds to, for which a carry out of the second fold is lost.
CarryLost(fold, v) ==
  LET folded == (v % 64) + (fold * (v \div 64))
  IN  (folded % 64) + (fold * (folded \div 64)) >= 64

\* A certificate's signature is taken exactly when it is below the modulus and
\* its power is the padded hash (src/src/crypto/pkcs1.c over
\* src/src/crypto/mp.c), and the multiplication the tests run is the one the
\* machine does, a product over the power of two the limbs make; what a
\* server's opens to, exactly when some salt pads the hash to it
\* (src/src/crypto/rsa.c); the secret is the scalar's multiple of
\* the point (x25519 in src/src/crypto/curve25519.c); and a product in the
\* curve's field is the product, but when the second fold carries: that carry is
\* dropped (fe_mul, curve25519.c:142-147) and the product is short by it.
ArithmeticIsExact ==
  /\ Answered("signature") => (A <=> SignatureIsGood)
  /\ Answered("multiplied") =>
       LET times256(digits) == (Rsa!Value(digits, 4) * 256) % Q[1]
       IN  /\ A.host = A.mont32 /\ Rsa!Value(A.host, 4) < Q[1] /\ times256(A.host) = (Q[2] * Q[3]) % Q[1]
           /\ A.back = A.back32 /\ Rsa!Value(A.back, 4) < Q[1] /\ times256(A.back) = Q[2] % Q[1]
  /\ Answered("padding") => (A <=> PaddingIsGood)
  /\ Answered("secret") => A = Shared(Q[1], Q[2])
  /\ Answered("product") =>
       LET fold == 64 % Q[1]
           lost == IF CarryLost(fold, Q[2] * Q[3]) THEN fold ELSE 0
       IN  A = ((Q[2] * Q[3]) - lost) % Q[1]

-----------------------------------------------------------------------------
(* Text *)

UpTo(s, n) == SubSeq(s, 1, IF n < Len(s) THEN n ELSE Len(s))
NumberOf(cmd) == CASE cmd = <<"0", "0", "1">> -> 1 [] cmd = <<"4", "3", "3">> -> 433 [] OTHER -> 0

\* Lines of a stream are read as they were said, wherever the deliveries cut
\* them, each with its parts, the last parameter found however many come before
\* it; a line too long spoils itself and no other; and a request between two
\* marks is its tag and its text (on_bytes in src/src/ircc.c, irc_parse and
\* irc_ctcp in src/src/irc.c).
ParsedAsSaid ==
  /\ Answered("stream") =>
       /\ Len(A) = Len(Q.messages)
       /\ \A k \in DOMAIN A :
            LET m == Q.messages[k]
            IN  Len(Rendered(m)) < LINE_MAX =>
                  A[k] = [tags |-> m.tags, prefix |-> m.prefix, host |-> m.host, cmd |-> m.cmd,
                          numeric |-> NumberOf(m.cmd), params |-> UpTo(m.params, IRC_PARAMS_MAX),
                          trailing |-> m.trailing]
  /\ Answered("request") => A = [tag |-> UpTo(Q[1], TagCap - 1), text |-> Q[2]]

Plain(cmd, params, text) ==
  Rendered([tags |-> <<>>, prefix |-> <<>>, cmd |-> cmd, params |-> params,
            trailing |-> IF text = <<>> THEN <<>> ELSE <<text>>])
AChannel(name) == name # <<>> /\ name[1] \in {"#", "&"}

\* Names are the same whatever the case of their letters.  A name has a view
\* when one of those open has it whole, or one is free.
Capitals == <<"A", "B", "C", "D", "V", "W", "P">>
Folded(s) ==
  LET small(c) == IF c \in ToSet(Capitals) THEN <<"a", "b", "c", "d", "v", "w", "p">>[CHOOSE k \in DOMAIN Capitals : Capitals[k] = c] ELSE c
  IN  [k \in DOMAIN s |-> small(s[k])]
Sames(views, name) == {v \in ToSet(views) : Folded(v) = Folded(name)}
Viewed(views, name) == Sames(views, name) # {} \/ Len(views) + 1 < VIEW_MAX
Channel(name) == IF name = <<>> \/ AChannel(name) THEN name ELSE <<"#">> \o name

\* The line a command is for, none when it lacks what it needs: /join a view for
\* the channel, /query one for the person, who is called what the view is.
Meaning(c) ==
  LET chan == IF c.chan # <<>> THEN c.chan ELSE IF AChannel(c.view) THEN c.view ELSE <<>>
      is(ids) == c.id \in ids
      with(need, line) == IF \E i \in DOMAIN need : need[i] = <<>> THEN <<>> ELSE <<line>>
      about(verb, more, text) == with(<<chan>> \o more, Plain(<<verb>>, <<chan>> \o more, text))
      to(target, text) == with(<<target, text>>, Plain(<<"PRIVMSG">>, <<target>>, text))
      pass == IF c.text # <<>> THEN UpTo(c.text, LOW_NSPASS_CAP - 1) ELSE c.pass
      person == IF Sames(c.views, c.word) = {} THEN UpTo(c.word, VIEW_NAME_CAP - 1) ELSE CHOOSE v \in Sames(c.views, c.word) : TRUE
  IN  CASE is({"say"}) -> to(c.view, c.text)
        [] is({"join", "j"}) -> IF Viewed(c.views, Channel(c.chan)) THEN with(<<c.chan>>, Plain(<<"JOIN">>, <<Channel(c.chan)>>, <<>>)) ELSE <<>>
        [] is({"part", "p"}) -> about("PART", <<>>, <<>>)
        [] is({"names"}) -> about("NAMES", <<>>, <<>>)
        [] is({"topic", "t"}) -> about("TOPIC", <<>>, c.text)
        [] is({"mode"}) -> with(<<chan>>, Plain(<<"MODE">>, <<chan>> \o (IF c.text = <<>> THEN <<>> ELSE <<c.text>>), <<>>))
        [] is({"kick", "k"}) -> about("KICK", <<c.word>>, c.text)
        [] is({"op"}) -> with(<<chan, c.word>>, Plain(<<"MODE">>, <<chan, <<"+o">>>>, c.word))
        [] is({"deop"}) -> with(<<chan, c.word>>, Plain(<<"MODE">>, <<chan, <<"-o">>>>, c.word))
        [] is({"invite", "i"}) -> with(<<chan, c.word>>, Plain(<<"INVITE">>, <<c.word, chan>>, <<>>))
        [] is({"nick"}) -> with(<<c.word>>, Plain(<<"NICK">>, <<c.word>>, <<>>))
        [] is({"whois", "w"}) -> with(<<c.word>>, Plain(<<"WHOIS">>, <<c.word>>, <<>>))
        [] is({"msg", "m"}) -> to(c.word, c.text)
        [] is({"query"}) -> IF Viewed(c.views, c.word) THEN to(person, c.text) ELSE <<>>
        [] is({"notice", "n"}) -> with(<<c.word, c.text>>, Plain(<<"NOTICE">>, <<c.word>>, c.text))
        [] is({"me"}) -> with(<<c.view, c.text>>, Plain(<<"PRIVMSG">>, <<c.view>>, <<"SOH", "ACTION", " ">> \o c.text \o <<"SOH">>))
        [] is({"away"}) -> <<Plain(<<"AWAY">>, <<>>, IF c.text = <<>> THEN <<"away">> ELSE c.text)>>
        [] is({"back"}) -> <<Plain(<<"AWAY">>, <<>>, <<>>)>>
        [] is({"quit", "q"}) -> <<Plain(<<"QUIT">>, <<>>, IF c.text = <<>> THEN <<"goodbye">> ELSE c.text)>>
        [] is({"identify", "id"}) -> with(<<pass>>, Plain(<<"PRIVMSG">>, <<<<"NickServ">>>>, <<"IDENTIFY", " ">> \o pass))
        [] is({"raw", "quote"}) -> with(<<c.text>>, c.text)
        [] OTHER -> <<>>

\* A line with a cursor in it: what is before the cursor, and what is behind.
Typing(start, keys, cap) ==
  LET end == FoldLeft(LAMBDA e, k :
               CASE k = "LEFT" /\ e.left # <<>> -> [left |-> Front(e.left), right |-> <<Last(e.left)>> \o e.right]
                 [] k = "RIGHT" /\ e.right # <<>> -> [left |-> Append(e.left, Head(e.right)), right |-> Tail(e.right)]
                 [] k = "DEL" /\ e.left # <<>> -> [e EXCEPT !.left = Front(@)]
                 [] k \in {"a", "b"} /\ Len(e.left \o e.right) < cap -> [e EXCEPT !.left = Append(@, k)]
                 [] OTHER -> e,
               [left |-> start, right |-> <<>>], keys)
  IN  end.left \o end.right

\* The names of a list that are joined: the first to come have the views that
\* are free, and a name that has a view is joined whenever it comes again.
InViews(names, views) ==
  LET new(n) == Sames(views, n) = {}
      before(k) == {Folded(names[j]) : j \in {i \in 1..k : new(names[i])}}
      first(k) == CHOOSE j \in 1..k : Folded(names[j]) = Folded(names[k]) /\ \A i \in 1..j - 1 : Folded(names[i]) # Folded(names[k])
      granted == {k \in DOMAIN names : new(names[k]) => Cardinality(before(first(k))) + Len(views) < VIEW_MAX}
      upTo[k \in 0..Len(names)] == IF k = 0 THEN <<>> ELSE IF k \in granted THEN Append(upTo[k - 1], names[k]) ELSE upTo[k - 1]
  IN  upTo[Len(names)]

\* What is sent is what was typed: each command the one line the manual's table
\* has for it, to the channel or the person meant, or none when it lacks a part
\* it needs or a view; each name of a list of channels for which there is a view,
\* whatever the spaces and the commas; and a line edited, at a prompt and a
\* password's too, the one the cursor's moves make, up to the RETURN that ends it
\* (cmd_line in src/src/m65/cmd.c, typed_line, join_all, read_secret and
\* session's keys in src/src/ircc.c, ui_read_line in src/src/ui.c; MANUAL.md:70-98).
SentAsTyped ==
  /\ Answered("command") => A = [k \in DOMAIN Meaning(Q) |-> Meaning(Q)[k] \o <<"CR", "LF">>]
  /\ Answered("list") =>
       LET whole == SelectSeq([k \in DOMAIN Q.names |-> UpTo(SelectSeq(Q.names[k], LAMBDA c : c # " "), NameCap)], LAMBDA n : n # <<>>)
           joined == InViews([k \in DOMAIN whole |-> Channel(whole[k])], Q.views)
       IN  A = [k \in DOMAIN joined |-> Plain(<<"JOIN">>, <<joined[k]>>, <<>>) \o <<"CR", "LF">>]
  /\ Answered("editing") => A = Typing(Q.input, Q.keys, InputCap)
  /\ Answered("prompt") =>
       LET last == CHOOSE k \in DOMAIN Q.keys : Q.keys[k] \in {"RETURN", "STOP"} /\ \A j \in 1..k - 1 : Q.keys[j] \notin {"RETURN", "STOP"}
           keys == SelectSeq(SubSeq(Q.keys, 1, last - 1), LAMBDA k : k \in {"a", "b", "DEL"})
           start == IF keys # <<>> /\ keys[1] # "DEL" THEN <<>> ELSE UpTo(Q.offered, Q.max)
           held(from) == [accepted |-> Q.keys[last] = "RETURN", out |-> Typing(from, keys, Q.max)]
       IN  A = [line |-> held(start), secret |-> held(<<>>)]
=============================================================================

----------------------------- MODULE ChainProofs -----------------------------
(***************************************************************************)
(* Theorems about the answers on certificates: that their parts are found, *)
(* and that a chain is the server's only if an authority said so, for any  *)
(* certificates issued, any anchors and any clock.                         *)
(***************************************************************************)
EXTENDS CertificateProofs, Meant

-----------------------------------------------------------------------------
(* The store *)

LEMMA StoredIs ==
  ASSUME NEW chain \in Seq(Certs)
  PROVE  /\ Stored(chain)[0] = <<>>
         /\ \A k \in 1..Len(chain) : Stored(chain)[k] = ck_api_cert_append(Stored(chain)[k - 1], File(chain[k]))
<1> DEFINE n == Len(chain)
           init == ck_api_cert_reset
           Body(g, k) == IF k = 0 THEN init ELSE ck_api_cert_append(g[k - 1], File(chain[k]))
<1>1. n \in Nat
  OBVIOUS
<1>2. \E g : g = [k \in 0..n |-> Body(g, k)]
  <2> DEFINE Is(g, m) == g = [k \in 0..m |-> Body(g, k)]
             S == {m \in Nat : \E g : Is(g, m)}
  <2>1. 0 \in S
    <3> DEFINE g == [k \in 0..0 |-> init]
    <3>1. \A k \in 0..0 : init = Body(g, k)
      OBVIOUS
    <3>2. Is(g, 0)
      <4> HIDE DEF Body, init
      <4> QED BY <3>1
    <3> HIDE DEF Is, g
    <3> QED BY <3>2
  <2>2. ASSUME NEW m \in S PROVE m + 1 \in S
    <3>0. m \in Nat /\ m + 1 \in Nat
      OBVIOUS
    <3>1. PICK g : Is(g, m)
      BY <2>2
    <3> DEFINE h == [k \in 0..m + 1 |-> Body(g, k)]
    <3>2. \A k \in 0..m : h[k] = g[k]
      <4>1. g = [k \in 0..m |-> Body(g, k)] /\ h = [k \in 0..m + 1 |-> Body(g, k)]
        BY <3>1
      <4>2. \A k \in 0..m : k \in 0..m + 1
        BY <3>0
      <4> HIDE DEF Body, h
      <4> QED BY <4>1, <4>2
    <3>3. \A k \in 0..m + 1 : Body(h, k) = Body(g, k)
      <4> SUFFICES ASSUME NEW k \in 0..m + 1 PROVE Body(h, k) = Body(g, k)
        OBVIOUS
      <4>1. k = 0 \/ h[k - 1] = g[k - 1]
        <5> HIDE DEF h
        <5> QED BY <3>0, <3>2
      <4> HIDE DEF h
      <4> QED BY <4>1
    <3>4. Is(h, m + 1)
      <4>1. h = [k \in 0..m + 1 |-> Body(g, k)]
        OBVIOUS
      <4> HIDE DEF Body, h
      <4>2. [k \in 0..m + 1 |-> Body(g, k)] = [k \in 0..m + 1 |-> Body(h, k)]
        BY <3>3
      <4> QED BY <4>1, <4>2
    <3> HIDE DEF Is, h
    <3> QED BY <3>0, <3>4
  <2>3. \E g : Is(g, n)
    <3>0. S \in SUBSET Nat
      OBVIOUS
    <3> HIDE DEF Is
    <3>1. n \in S
      <4> HIDE DEF S, n
      <4> QED BY <1>1, <2>1, <2>2, <3>0, Counted
    <3> QED BY <3>1
  <2> QED BY <2>3
<1>3. Stored(chain) = CHOOSE g : g = [k \in 0..n |-> Body(g, k)]
  BY Zenon DEF Stored
<1> HIDE DEF Body
<1>4. Stored(chain) = [k \in 0..n |-> Body(Stored(chain), k)]
  BY <1>2, <1>3
<1>5. \A k \in 0..n : Stored(chain)[k] = Body(Stored(chain), k)
  BY <1>4
<1>6. Stored(chain)[0] = init
  BY <1>1, <1>5 DEF Body
<1>7. \A k \in 1..n : k \in 0..n /\ k # 0
  BY <1>1
<1>8. init = <<>>
  BY DEF ck_api_cert_reset
<1> QED BY <1>5, <1>6, <1>7, <1>8 DEF Body

LEMMA SubBytes ==
  ASSUME NEW s \in Seq(Byte), NEW n \in Nat, n <= Len(s)
  PROVE  SubSeq(s, 1, n) \in Seq(Byte) /\ Len(SubSeq(s, 1, n)) = n
OBVIOUS

LEMMA AppendBytes ==
  ASSUME NEW store \in Seq(Byte), Len(store) <= CERT_CAP, NEW piece \in Seq(Byte)
  PROVE  ck_api_cert_append(store, piece) \in Seq(Byte) /\ Len(ck_api_cert_append(store, piece)) <= CERT_CAP
<1>1. CERT_CAP \in Nat /\ Len(store) \in Nat /\ Len(piece) \in Nat
  BY SizesAssumption
<1> DEFINE n == CERT_CAP - Len(store)
           P == Len(store) + Len(piece) > CERT_CAP
           u == SubSeq(piece, 1, n)
           x == IF P THEN u ELSE piece
<1>2. ck_api_cert_append(store, piece) = store \o x
  BY DEF ck_api_cert_append
<1>3. x \in Seq(Byte) /\ Len(store) + Len(x) <= CERT_CAP
  <2>1. CASE P
    <3>1. n \in Nat /\ n <= Len(piece) /\ Len(store) + n = CERT_CAP
      BY <1>1, <2>1
    <3> HIDE DEF n
    <3>2. u \in Seq(Byte) /\ Len(u) = n
      BY <3>1, SubBytes
    <3>3. x = u
      BY <2>1
    <3> HIDE DEF x, u
    <3> QED BY <3>1, <3>2, <3>3
  <2>2. CASE ~P
    <3>1. x = piece
      BY <2>2
    <3> HIDE DEF x
    <3> QED BY <1>1, <2>2, <3>1
  <2> QED BY <2>1, <2>2
<1> HIDE DEF x
<1>4. store \o x \in Seq(Byte) /\ Len(store \o x) = Len(store) + Len(x)
  BY <1>3, ConcatByte
<1> QED BY <1>2, <1>3, <1>4

LEMMA FileBytes ==
  ASSUME NEW c \in Certs, Len(File(c)) < 256 * 256
  PROVE  File(c) \in Seq(Byte) /\ TwoBytes(Len(File(c)))
<1>1. TwoBytes(Len(File(c)))
  BY DEF TwoBytes
<1> QED BY <1>1, EncFile DEF Encoded

LEMMA StoredBytes ==
  ASSUME NEW chain \in Seq(Certs), \A i \in DOMAIN chain : Len(File(chain[i])) < 256 * 256
  PROVE  \A k \in 0..Len(chain) : Stored(chain)[k] \in Seq(Byte) /\ Len(Stored(chain)[k]) <= CERT_CAP
<1>1. Len(chain) \in Nat /\ CERT_CAP \in Nat
  BY SizesAssumption
<1> DEFINE Good(s) == s \in Seq(Byte) /\ Len(s) <= CERT_CAP
           S == {k \in Nat : k <= Len(chain) => Good(Stored(chain)[k])}
<1>2. 0 \in S
  <2>1. <<>> \in Seq(Byte) /\ Len(<<>>) = 0
    OBVIOUS
  <2>2. Good(Stored(chain)[0])
    <3>1. Stored(chain)[0] = <<>>
      BY StoredIs
    <3>2. Good(<<>>)
      BY <1>1, <2>1
    <3> QED BY ONLY <3>1, <3>2
  <2> QED BY <2>2
<1>3. ASSUME NEW n \in S PROVE n + 1 \in S
  <2>1. n \in Nat /\ (n <= Len(chain) => Good(Stored(chain)[n]))
    OBVIOUS
  <2>2. ASSUME n + 1 <= Len(chain) PROVE Good(Stored(chain)[n + 1])
    <3> DEFINE j == n + 1
    <3>1. j \in 1..Len(chain) /\ j - 1 = n /\ n <= Len(chain)
      BY ONLY <1>1, <2>1, <2>2
    <3> HIDE DEF j
    <3>2. Stored(chain)[j] = ck_api_cert_append(Stored(chain)[j - 1], File(chain[j]))
      <4>1. \A k \in 1..Len(chain) : Stored(chain)[k] = ck_api_cert_append(Stored(chain)[k - 1], File(chain[k]))
        BY StoredIs
      <4> QED BY ONLY <3>1, <4>1
    <3>3. File(chain[j]) \in Seq(Byte)
      <4>1. j \in DOMAIN chain /\ chain[j] \in Certs
        BY <3>1
      <4> QED BY <4>1, FileBytes
    <3>4. Good(Stored(chain)[n])
      BY <2>1, <3>1
    <3>5. Good(Stored(chain)[j])
      BY <3>1, <3>2, <3>3, <3>4, AppendBytes
    <3> QED BY <3>5 DEF j
  <2>3. n + 1 \in Nat
    BY <2>1
  <2> QED BY <2>2, <2>3
<1>4. S \in SUBSET Nat
  OBVIOUS
<1>5. \A k \in Nat : k \in S
  <2> HIDE DEF S
  <2> QED BY <1>2, <1>3, <1>4, Counted
<1> QED BY <1>1, <1>5

LEMMA QuestionFacts ==
  ASSUME NEW q \in Chains
  PROVE  /\ q.chain \in Seq(Certs) /\ q.chain # <<>> /\ q.host \in Seq(Byte) /\ Len(q.host) \in 1..HostCap /\ q.rtc \in Clocks
         /\ q.at \in Nat /\ q.value \in Byte
         /\ \A i \in DOMAIN q.chain : Len(File(q.chain[i])) < 256 * 256
BY ChainsAssumption

LEMMA StoreBytes ==
  ASSUME NEW q \in Chains
  PROVE  Store(q) \in Seq(Byte) /\ Len(Store(q)) <= CERT_CAP /\ TwoBytes(Len(Store(q)))
<1>1. /\ q.chain \in Seq(Certs) /\ q.at \in Nat /\ q.value \in Byte
      /\ \A i \in DOMAIN q.chain : Len(File(q.chain[i])) < 256 * 256
  BY QuestionFacts
<1>2. Len(q.chain) \in Nat /\ Len(q.chain) \in 0..Len(q.chain)
  BY <1>1
<1> DEFINE s == Stored(q.chain)[Len(q.chain)]
           x == Altered(s, q.at, q.value)
<1>3. s \in Seq(Byte) /\ Len(s) <= CERT_CAP
  BY <1>1, <1>2, StoredBytes
<1>4. Store(q) = x
  BY DEF Store
<1> HIDE DEF s
<1>5. x \in Seq(Byte) /\ Len(x) = Len(s)
  BY <1>1, <1>3 DEF Altered
<1> HIDE DEF x
<1>6. TwoBytes(Len(x))
  <2>1. CERT_CAP < 256 * 256 /\ CERT_CAP \in Nat
    BY SizesAssumption
  <2>2. TwoBytes(CERT_CAP)
    BY <2>1 DEF TwoBytes
  <2> QED BY <1>3, <1>5, <2>1, <2>2, Bytes16
<1> QED BY <1>3, <1>4, <1>5, <1>6

\* A certificate that came alone, was kept whole and came out as it was sent.
LEMMA StoreOne ==
  ASSUME NEW q \in Chains, Len(q.chain) = 1, Len(File(q.chain[1])) <= CERT_CAP, q.at = 0
  PROVE  Store(q) = File(q.chain[1]) /\ q.chain[1] \in Certs /\ TwoBytes(Len(File(q.chain[1])))
<1>1. q.chain \in Seq(Certs) /\ 1 \in DOMAIN q.chain /\ q.chain[1] \in Certs
  BY QuestionFacts
<1> DEFINE c == q.chain[1]
           F == File(c)
<1>2. F \in Seq(Byte) /\ TwoBytes(Len(F))
  <2>1. Len(F) < 256 * 256
    BY <1>1, QuestionFacts
  <2> HIDE DEF c
  <2> QED BY <1>1, <2>1, FileBytes DEF c
<1>3. Stored(q.chain)[0] = <<>> /\ Stored(q.chain)[1] = ck_api_cert_append(Stored(q.chain)[0], F)
  <2> DEFINE j == 1
  <2>1. j \in 1..Len(q.chain) /\ j - 1 = 0 /\ j = 1
    OBVIOUS
  <2> HIDE DEF j
  <2>2. \A k \in 1..Len(q.chain) : Stored(q.chain)[k] = ck_api_cert_append(Stored(q.chain)[k - 1], File(q.chain[k]))
    BY <1>1, StoredIs
  <2>3. Stored(q.chain)[j] = ck_api_cert_append(Stored(q.chain)[j - 1], File(q.chain[j]))
    BY ONLY <2>1, <2>2
  <2>4. Stored(q.chain)[0] = <<>>
    BY <1>1, StoredIs
  <2> QED BY ONLY <2>1, <2>3, <2>4 DEF F, c
<1> HIDE DEF F
<1>4. ck_api_cert_append(<<>>, F) = F
  <2>1. Len(F) <= CERT_CAP /\ Len(<<>>) = 0 /\ CERT_CAP \in Nat /\ Len(F) \in Nat
    BY <1>2, SizesAssumption DEF F
  <2>2. ~(Len(<<>>) + Len(F) > CERT_CAP)
    BY <2>1
  <2>3. ck_api_cert_append(<<>>, F) = <<>> \o F
    BY <2>2 DEF ck_api_cert_append
  <2> QED BY <1>2, <2>3
<1>5. Store(q) = Altered(F, 0, q.value)
  BY <1>3, <1>4 DEF Store
<1>6. 0 \notin DOMAIN F
  BY <1>2
<1>7. Store(q) = F
  BY <1>5, <1>6 DEF Altered
<1> QED BY <1>1, <1>2, <1>7 DEF F

-----------------------------------------------------------------------------
(* What is asked is what is answered *)

PartsAsked == {q \in Chains : Len(q.chain) = 1 /\ Len(File(q.chain[1])) <= CERT_CAP}

AnswerIs ==
  /\ Idle => answer = <<>>
  /\ Asked("chain") => Q \in Chains /\ (answer = <<>> \/ A = ck_api_chain(Store(Q), Q.host, read_clock(Q.rtc)))
  /\ Asked("parts") => Q \in PartsAsked /\ (answer = <<>> \/ A = PartsOf(Store(Q)))

\* Another question, or its answer, is none of these two.
LEMMA OtherAsked ==
  ASSUME AnswerIs, NEW kind, kind \notin {"chain", "parts"}, NEW S, Ask(kind, S)
  PROVE  AnswerIs'
<1>1. Idle /\ answer' = answer /\ answer = <<>>
  BY DEF Ask, AnswerIs
<1>2. PICK q \in S : asked' = [kind |-> kind, q |-> q]
  BY DEF Ask
<1>3. asked'.kind = kind
  BY <1>2
<1> QED BY <1>1, <1>3 DEF AnswerIs, Asked

LEMMA OtherAnswered ==
  ASSUME AnswerIs, NEW kind, kind \notin {"chain", "parts", "nothing"}, NEW v, Answer(kind, v)
  PROVE  AnswerIs'
<1>1. asked.kind = kind /\ asked' = asked
  BY DEF Answer, Asked
<1>2. ~Asked("chain")' /\ ~Asked("parts")'
  BY <1>1 DEF Asked
<1>3. ~Idle'
  <2>1. Nothing.kind = "nothing"
    BY DEF Nothing
  <2>2. asked' # Nothing
    BY <1>1, <2>1
  <2> QED BY <2>2 DEF Idle
<1> QED BY <1>2, <1>3 DEF AnswerIs

LEMMA AskedIs ==
  ASSUME AnswerIs, NEW kind \in {"chain", "parts"}, NEW S, Ask(kind, S), kind = "chain" => S = Chains, kind = "parts" => S = PartsAsked
  PROVE  AnswerIs'
<1>1. Idle /\ answer' = answer /\ answer = <<>>
  BY DEF Ask, AnswerIs
<1>2. PICK q \in S : asked' = [kind |-> kind, q |-> q]
  BY DEF Ask
<1>3. asked'.kind = kind /\ Q' = q
  BY <1>2 DEF Q
<1>4. Asked("chain")' => Q' \in Chains
  BY <1>3 DEF Asked
<1>5. Asked("parts")' => Q' \in PartsAsked
  BY <1>3 DEF Asked
<1> QED BY <1>1, <1>4, <1>5 DEF AnswerIs

LEMMA AnsweredIs ==
  ASSUME AnswerIs, NEW kind \in {"chain", "parts"}, NEW v, Answer(kind, v),
         kind = "chain" => v = ck_api_chain(Store(Q), Q.host, read_clock(Q.rtc)), kind = "parts" => v = PartsOf(Store(Q))
  PROVE  AnswerIs'
<1>1. asked.kind = kind /\ asked' = asked /\ answer' = <<v>> /\ Q' = Q /\ A' = v
  BY DEF Answer, Asked, Q, A
<1>2. ~Idle'
  <2>1. Nothing.kind = "nothing"
    BY DEF Nothing
  <2>2. asked' # Nothing
    BY <1>1, <2>1
  <2> QED BY <2>2 DEF Idle
<1>3. CASE kind = "chain"
  <2>1. Q \in Chains /\ v = ck_api_chain(Store(Q), Q.host, read_clock(Q.rtc))
    BY <1>1, <1>3 DEF AnswerIs, Asked
  <2>2. ~Asked("parts")'
    BY <1>1, <1>3 DEF Asked
  <2>3. (ck_api_chain(Store(Q), Q.host, read_clock(Q.rtc)))' = ck_api_chain(Store(Q), Q.host, read_clock(Q.rtc))
    BY <1>1
  <2>4. Q' \in Chains /\ A' = (ck_api_chain(Store(Q), Q.host, read_clock(Q.rtc)))'
    BY <1>1, <2>1, <2>3
  <2> QED BY <1>2, <2>2, <2>4 DEF AnswerIs
<1>4. CASE kind = "parts"
  <2>1. Q \in PartsAsked /\ v = PartsOf(Store(Q))
    BY <1>1, <1>4 DEF AnswerIs, Asked
  <2>2. ~Asked("chain")'
    BY <1>1, <1>4 DEF Asked
  <2>3. (PartsOf(Store(Q)))' = PartsOf(Store(Q))
    BY <1>1
  <2>4. Q' \in PartsAsked /\ A' = (PartsOf(Store(Q)))'
    BY <1>1, <2>1, <2>3
  <2> QED BY <1>2, <2>2, <2>4 DEF AnswerIs
<1> QED BY <1>3, <1>4

\* The answer to a question about certificates is what the program computes for
\* the question asked, however many were asked before it.
LEMMA AnswersKept == Spec => []AnswerIs
<1>1. Init => AnswerIs
  <2> SUFFICES ASSUME Init PROVE AnswerIs
    OBVIOUS
  <2>1. answer = <<>> /\ asked.kind = "nothing"
    BY DEF Init, Idle, Nothing
  <2>2. ~Asked("chain") /\ ~Asked("parts")
    BY <2>1 DEF Asked
  <2> QED BY <2>1, <2>2 DEF AnswerIs
<1>2. AnswerIs /\ [Next]_vars => AnswerIs'
  <2> SUFFICES ASSUME AnswerIs, [Next]_vars PROVE AnswerIs'
    OBVIOUS
  <2>1. CASE AskChain
    <3>1. Ask("chain", Chains)
      BY <2>1 DEF AskChain
    <3> QED BY <3>1, AskedIs
  <2>2. CASE AnswerChain
    <3>1. Answer("chain", ck_api_chain(Store(Q), Q.host, read_clock(Q.rtc)))
      BY <2>2 DEF AnswerChain
    <3> QED BY <3>1, AnsweredIs
  <2>3. CASE AskParts
    <3>1. Ask("parts", PartsAsked)
      BY Zenon, <2>3 DEF AskParts, PartsAsked
    <3> QED BY <3>1, AskedIs
  <2>4. CASE AnswerParts
    <3>1. Answer("parts", PartsOf(Store(Q)))
      BY <2>4 DEF AnswerParts
    <3> QED BY <3>1, AnsweredIs
  <2>5. ASSUME NEW kind, NEW S, kind \notin {"chain", "parts", "nothing"}, Ask(kind, S) PROVE AnswerIs'
    BY <2>5, OtherAsked
  <2>6. ASSUME NEW kind, NEW v, kind \notin {"chain", "parts", "nothing"}, Answer(kind, v) PROVE AnswerIs'
    BY <2>6, OtherAnswered
  <2>7. CASE AskSignature
    <3>1. \E S : Ask("signature", S)
      BY <2>7 DEF AskSignature
    <3> QED BY <2>5, <3>1
  <2>8. CASE AnswerSignature
    <3>1. \E v : Answer("signature", v)
      BY Zenon, <2>8 DEF AnswerSignature
    <3> QED BY <2>6, <3>1
  <2>9. CASE AskMultiplied
    <3>1. \E S : Ask("multiplied", S)
      BY <2>9 DEF AskMultiplied
    <3> QED BY <2>5, <3>1
  <2>10. CASE AnswerMultiplied
    <3>1. \E v : Answer("multiplied", v)
      BY Zenon, <2>10 DEF AnswerMultiplied
    <3> QED BY <2>6, <3>1
  <2>11. CASE AskPadding
    <3>1. \E S : Ask("padding", S)
      BY Zenon, <2>11 DEF AskPadding
    <3> QED BY <2>5, <3>1
  <2>12. CASE AnswerPadding
    <3>1. \E v : Answer("padding", v)
      BY Zenon, <2>12 DEF AnswerPadding
    <3> QED BY <2>6, <3>1
  <2>13. CASE AskSecret
    <3>1. \E S : Ask("secret", S)
      BY Zenon, <2>13 DEF AskSecret
    <3> QED BY <2>5, <3>1
  <2>14. CASE AnswerSecret
    <3>1. \E v : Answer("secret", v)
      BY Zenon, <2>14 DEF AnswerSecret
    <3> QED BY <2>6, <3>1
  <2>15. CASE AskProduct
    <3>1. \E S : Ask("product", S)
      BY Zenon, <2>15 DEF AskProduct
    <3> QED BY <2>5, <3>1
  <2>16. CASE AnswerProduct
    <3>1. \E v : Answer("product", v)
      BY Zenon, <2>16 DEF AnswerProduct
    <3> QED BY <2>6, <3>1
  <2>17. CASE AskStream
    <3>1. \E S : Ask("stream", S)
      BY Zenon, <2>17 DEF AskStream
    <3> QED BY <2>5, <3>1
  <2>18. CASE AnswerStream
    <3>1. \E v : Answer("stream", v)
      BY Zenon, <2>18 DEF AnswerStream
    <3> QED BY <2>6, <3>1
  <2>19. CASE AskRequest
    <3>1. \E S : Ask("request", S)
      BY Zenon, <2>19 DEF AskRequest
    <3> QED BY <2>5, <3>1
  <2>20. CASE AnswerRequest
    <3>1. \E v : Answer("request", v)
      BY Zenon, <2>20 DEF AnswerRequest
    <3> QED BY <2>6, <3>1
  <2>21. CASE AskCommand
    <3>1. \E S : Ask("command", S)
      BY Zenon, <2>21 DEF AskCommand
    <3> QED BY <2>5, <3>1
  <2>22. CASE AnswerCommand
    <3>1. \E v : Answer("command", v)
      BY Zenon, <2>22 DEF AnswerCommand
    <3> QED BY <2>6, <3>1
  <2>23. CASE AskEditing
    <3>1. \E S : Ask("editing", S)
      BY Zenon, <2>23 DEF AskEditing
    <3> QED BY <2>5, <3>1
  <2>24. CASE AnswerEditing
    <3>1. \E v : Answer("editing", v)
      BY Zenon, <2>24 DEF AnswerEditing
    <3> QED BY <2>6, <3>1
  <2>25. CASE AskPrompt
    <3>1. \E S : Ask("prompt", S)
      BY Zenon, <2>25 DEF AskPrompt
    <3> QED BY <2>5, <3>1
  <2>26. CASE AnswerPrompt
    <3>1. \E v : Answer("prompt", v)
      BY Zenon, <2>26 DEF AnswerPrompt
    <3> QED BY <2>6, <3>1
  <2>27. CASE AskList
    <3>1. \E S : Ask("list", S)
      BY Zenon, <2>27 DEF AskList
    <3> QED BY <2>5, <3>1
  <2>28. CASE AnswerList
    <3>1. \E v : Answer("list", v)
      BY Zenon, <2>28 DEF AnswerList
    <3> QED BY <2>6, <3>1
  <2>29. CASE Forget
    <3>1. asked' = Nothing /\ answer' = <<>>
      BY <2>29 DEF Forget
    <3>2. ~Asked("chain")' /\ ~Asked("parts")'
      BY <3>1 DEF Asked, Nothing
    <3> QED BY <3>1, <3>2 DEF AnswerIs
  <2>30. CASE UNCHANGED vars
    <3>1. asked' = asked /\ answer' = answer
      BY <2>30 DEF vars
    <3> QED BY <3>1 DEF AnswerIs, Idle, Asked, Q, A
  <2> QED BY Zenon, <2>1, <2>2, <2>3, <2>4, <2>7, <2>8, <2>9, <2>10, <2>11, <2>12, <2>13, <2>14, <2>15, <2>16, <2>17, <2>18, <2>19,
             <2>20, <2>21, <2>22, <2>23, <2>24, <2>25, <2>26, <2>27, <2>28, <2>29, <2>30 DEF Next
<1> QED BY <1>1, <1>2, PTL DEF Spec

\* What is found in a certificate is what its authority put there, whatever it
\* says and however its lengths are written; and of one with a byte that came out
\* wrong, whatever is found is inside it, in order, and where the other walker
\* finds it (PartsAreFound, for every certificate whose lengths are of two bytes;
\* chain_parts, x509_key_of, der_tbs_field).
THEOREM CertificatesAreRead == Spec => []PartsAreFound
<1>1. AnswerIs => PartsAreFound
  <2> SUFFICES ASSUME AnswerIs, Answered("parts") PROVE PartsAreFound
    BY DEF PartsAreFound
  <2>1. Q \in PartsAsked /\ A = PartsOf(Store(Q))
    BY DEF AnswerIs, Answered
  <2> DEFINE c == Q.chain[1]
             f == Store(Q)
             p == A.parts
             k == A.key
             inside(r, end) == r.off + r.len <= end
             part(r) == SubSeq(A.file, r.off + 1, r.off + r.len)
             Harmed == p.ok =>
               /\ p.sig.off >= p.tbs.off + p.tbs.len /\ inside(p.sig, Len(A.file))
               /\ k.kind # "NONE" =>
                    /\ A.spki.tag = SEQ /\ After(k.spki) = After(A.spki) /\ k.spki.off < A.spki.off
                    /\ inside(k.spki, After(A.tbs)) /\ k.spki.off >= A.tbs.off
                    /\ k.kind = "RSA" => inside(k.n, After(A.tbs)) /\ inside(k.e, After(A.tbs))
             Whole ==
               /\ p.ok /\ part(p.tbs) = Tbs(c) /\ part(p.sig) = Signature(c) /\ p.alg = c.alg
               /\ k.kind = c.key.kind
               /\ k.kind # "NONE" => part(k.spki) = Spki(c.key)
               /\ k.kind = "RSA" => part(k.n) = Modulus(c.key) /\ part(k.e) = Exponent
  <2>2. (IF Damaged(Q) THEN Harmed ELSE Whole) => PartsAreFound
    BY Zenon DEF PartsAreFound
  <2>3. Q \in Chains /\ Len(Q.chain) = 1 /\ Len(File(c)) <= CERT_CAP
    BY <2>1 DEF PartsAsked
  <2>4. /\ A.file = f /\ A.tbs = der_tbs(f) /\ A.spki = der_tbs_field(f, 5) /\ p = chain_parts(f) /\ k = x509_key_of(f)
    <3> DEFINE ft == der_tbs(f)
               fs == der_tbs_field(f, SpkiField)
               fp == chain_parts(f)
               fk == x509_key_of(f)
    <3>1. A = [file |-> f, tbs |-> ft, spki |-> fs, parts |-> fp, key |-> fk] /\ SpkiField = 5
      BY <2>1 DEF PartsOf, SpkiField
    <3> HIDE DEF f, ft, fs, fp, fk
    <3>2. A.file = f /\ A.tbs = ft /\ A.spki = fs /\ A.parts = fp /\ A.key = fk
      BY <3>1
    <3> QED BY <3>1, <3>2 DEF ft, fs, fp, fk
  <2>5. f \in Seq(Byte)
    BY <2>3, StoreBytes
  <2>6. ASSUME p.ok PROVE Harmed
    <3> DEFINE s == A.spki
               t == A.tbs
    <3>1. /\ p.sig.off >= p.tbs.off + p.tbs.len /\ p.sig.off + p.sig.len <= Len(f)
          /\ k.kind # "NONE" =>
               /\ s.tag = SEQ /\ After(k.spki) = After(s) /\ k.spki.off < s.off
               /\ k.spki.off + k.spki.len <= After(t) /\ k.spki.off >= t.off
               /\ k.kind = "RSA" => k.n.off + k.n.len <= After(t) /\ k.e.off + k.e.len <= After(t)
      <4> HIDE DEF f, p, k, s, t
      <4>1. p = chain_parts(f) /\ k = x509_key_of(f) /\ s = der_tbs_field(f, 5) /\ t = der_tbs(f) /\ p.ok
        BY <2>4, <2>6 DEF s, t
      <4> QED BY <2>5, <4>1, FoundInside
    <3>2. A.file = f
      BY <2>4
    <3> QED BY <3>1, <3>2
  <2>7. ASSUME ~Damaged(Q) PROVE Whole
    <3>1. f = File(c) /\ c \in Certs /\ TwoBytes(Len(f))
      BY <2>3, <2>7, StoreOne DEF Damaged
    <3> HIDE DEF f, c, p, k
    <3>2. PartsRead(f, c)
      BY <3>1, FileRead
    <3>3. /\ p.ok /\ Content(f, p.tbs) = Tbs(c) /\ Content(f, p.sig) = Signature(c) /\ p.alg = c.alg
      BY <2>4, <3>2 DEF PartsRead
    <3>4. PICK a \in Nat, b \in Nat : KeyRead(f, a, b, c.key, k)
      BY <2>4, <3>2 DEF PartsRead
    <3>5. /\ k.kind = c.key.kind
          /\ k.kind # "NONE" => Content(f, k.spki) = Spki(c.key)
          /\ k.kind = "RSA" => Content(f, k.n) = Modulus(c.key) /\ Content(f, k.e) = Exponent
      BY <3>4 DEF KeyRead
    <3>6. \A r : part(r) = Content(f, r)
      BY <2>4 DEF Content, Cut
    <3> HIDE DEF part
    <3> QED BY <3>3, <3>5, <3>6
  <2> HIDE DEF Harmed, Whole
  <2>8. Harmed
    <3>1. ~p.ok => Harmed
      BY DEF Harmed
    <3> QED BY <2>6, <3>1
  <2> QED BY Zenon, <2>2, <2>7, <2>8
<1> QED BY <1>1, AnswersKept, PTL

-----------------------------------------------------------------------------
(* The store cut into certificates *)

\* What a range holds is there.
LEMMA ContentSpans ==
  ASSUME NEW f \in Seq(Byte), NEW p \in Nat, NEW n \in Nat, p + n <= Len(f), NEW s, Content(f, Range0(p, n)) = s
  PROVE  s \in Seq(Byte) /\ Len(s) = n /\ Spans(f, p, p + n, s)
<1>1. Cut(f, p, n) = s
  BY DEF Content, Range0
<1>2. Cut(f, p, n) \in Seq(Byte) /\ Len(Cut(f, p, n)) = n /\ \A i \in 1..n : Cut(f, p, n)[i] = f[p + i]
  BY Zenon, CutIs
<1>3. s \in Seq(Byte) /\ Len(s) = n /\ \A i \in 1..n : s[i] = f[p + i]
  BY Zenon, <1>1, <1>2
<1> QED BY <1>3 DEF Spans, Found

\* A piece of a store, from behind one offset up to another.
Piece(s, a, b, x) == a \in Nat /\ b \in Nat /\ a < b /\ b <= Len(s) /\ x = SubSeq(s, a + 1, b)

LEMMA PieceIs ==
  ASSUME NEW s \in Seq(Byte), NEW a, NEW b, NEW x, Piece(s, a, b, x)
  PROVE  x \in Seq(Byte) /\ Len(x) = b - a /\ Len(x) <= Len(s) /\ \A i \in 1..Len(x) : x[i] = s[a + i]
<1>1. a \in Nat /\ b \in Nat /\ a < b /\ b <= Len(s) /\ x = SubSeq(s, a + 1, b) /\ b - a \in Nat /\ Len(s) \in Nat
  BY DEF Piece
<1>2. PICK n \in Nat : n = b - a
  BY <1>1
<1>3. a + n = b /\ a + n <= Len(s)
  BY <1>1, <1>2
<1>4. Cut(s, a, n) = x
  BY <1>1, <1>3 DEF Cut
<1>5. x \in Seq(Byte) /\ Len(x) = n /\ \A i \in 1..n : x[i] = s[a + i]
  <2>1. /\ Cut(s, a, n) \in Seq(Byte) /\ Len(Cut(s, a, n)) = n
        /\ \A i \in 1..n : Cut(s, a, n)[i] = s[a + i]
    BY ONLY <1>1, <1>2, <1>3, s \in Seq(Byte), CutIs
  <2> QED BY ONLY <1>4, <2>1
<1> QED BY <1>1, <1>2, <1>5

\* What is in a piece is in the store.
LEMMA PieceAt ==
  ASSUME NEW s \in Seq(Byte), NEW a, NEW b, NEW x, Piece(s, a, b, x), NEW i \in Nat, i >= 1, NEW part \in Seq(Byte), part # <<>>, At(x, i, part)
  PROVE  /\ At(s, a + i, part) /\ a + i \in DOMAIN s /\ i \in DOMAIN x /\ x[i] = s[a + i] /\ part[1] = x[i]
<1>1. x \in Seq(Byte) /\ Len(x) = b - a /\ \A k \in 1..Len(x) : x[k] = s[a + k]
  BY PieceIs
<1>2. a \in Nat /\ b \in Nat /\ a < b /\ b <= Len(s) /\ Len(s) \in Nat /\ Len(x) \in Nat
  BY <1>1 DEF Piece
<1>3. PICK n \in Nat : n = Len(part) /\ n >= 1
  OBVIOUS
<1>4. i + n - 1 <= Len(x) /\ SubSeq(x, i, i + n - 1) = part
  BY <1>3 DEF At
<1>5. PICK p \in Nat : p = i - 1
  OBVIOUS
<1>6. Cut(x, p, n) = part
  <2>1. p + 1 = i /\ p + n = i + n - 1
    BY <1>3, <1>5
  <2> QED BY <2>1, <1>4 DEF Cut
<1>7. p + n <= Len(x)
  BY <1>3, <1>4, <1>5
<1>8. \A k \in 1..n : part[k] = x[p + k]
  BY <1>1, <1>6, <1>7, CutIs
<1>9. a + p \in Nat /\ (a + p) + n <= Len(s)
  BY <1>1, <1>2, <1>7
<1>10. \A k \in 1..n : s[(a + p) + k] = part[k]
  <2> SUFFICES ASSUME NEW k \in 1..n PROVE s[(a + p) + k] = part[k]
    OBVIOUS
  <2>1. p + k \in 1..Len(x)
    BY <1>7
  <2>2. x[p + k] = s[a + (p + k)]
    BY <2>1, <1>1
  <2>3. a + (p + k) = (a + p) + k
    BY <1>2
  <2> QED BY <1>8, <2>2, <2>3
<1>11. Found(s, a + p, part)
  BY <1>3, <1>9, <1>10 DEF Found
<1>12. Cut(s, a + p, n) = part
  BY <1>3, <1>9, <1>11, FoundCut
<1>13. SubSeq(s, a + i, (a + i) + n - 1) = part
  <2>1. (a + p) + 1 = a + i /\ (a + p) + n = (a + i) + n - 1
    BY <1>2, <1>3, <1>5
  <2> QED BY <1>12, <2>1 DEF Cut
<1>14. (a + i) + n - 1 <= Len(s)
  BY <1>2, <1>3, <1>5, <1>9
<1>15. a + i \in DOMAIN s /\ i \in DOMAIN x
  BY <1>1, <1>2, <1>3, <1>4, <1>14
<1>16. part[1] = x[i]
  <2>1. p + 1 = i
    BY <1>5
  <2>2. 1 \in 1..n
    BY <1>3
  <2>3. part[1] = x[p + 1]
    BY ONLY <1>8, <2>2
  <2> QED BY ONLY <2>1, <2>3
<1>17. x[i] = s[a + i]
  BY <1>1, <1>15
<1> QED BY <1>3, <1>13, <1>14, <1>15, <1>16, <1>17 DEF At

\* What spans a range is at its start.
LEMMA SpansAt ==
  ASSUME NEW f \in Seq(Byte), NEW p \in Nat, NEW q, NEW s \in Seq(Byte), Spans(f, p, q, s)
  PROVE  At(f, p + 1, s)
<1>1. Cut(f, p, Len(s)) = s /\ p + Len(s) <= Len(f)
  BY FoundCut DEF Spans, Found
<1>2. (p + 1) + Len(s) - 1 = p + Len(s)
  OBVIOUS
<1> QED BY <1>1, <1>2 DEF At, Cut

\* How many there are is where a certificate ends, or does not begin.
Cuts(all, max, k) ==
  /\ k <= Len(all) /\ \A i \in 1..k : all[i].tag = SEQ
  /\ k = max \/ k = Len(all) \/ all[k + 1].tag # SEQ

LEMMA CutsExist ==
  ASSUME NEW D, NEW all \in Seq(D), NEW max \in Nat
  PROVE  \E k \in 0..max : Cuts(all, max, k)
<1> DEFINE S == {k \in 0..max : k <= Len(all) /\ \A i \in 1..k : all[i].tag = SEQ}
<1>1. Len(all) \in Nat
  OBVIOUS
<1>2. 0 \in S
  BY <1>1
<1>3. S \in SUBSET (0..max) /\ S # {}
  BY <1>2
<1>4. PICK k \in S : \A j \in S : j <= k
  BY <1>3, HasHighest
<1>5. k \in 0..max /\ k <= Len(all) /\ \A i \in 1..k : all[i].tag = SEQ
  OBVIOUS
<1>6. ASSUME k # max, k # Len(all), all[k + 1].tag = SEQ PROVE FALSE
  <2>1. k + 1 \in 0..max /\ k + 1 <= Len(all)
    BY <1>1, <1>5, <1>6
  <2>2. \A i \in 1..k + 1 : all[i].tag = SEQ
    BY <1>5, <1>6
  <2>3. k + 1 \in S
    BY <2>1, <2>2
  <2>4. k + 1 <= k
    BY <2>3, <1>4
  <2> QED BY <1>5, <2>4
<1> QED BY <1>5, <1>6 DEF Cuts

\* A chain cut from a store: a certificate each, the first the store's first
\* element.
SplitFrom(s, certs) ==
  /\ certs \in Seq(Seq(Byte))
  /\ \A i \in 1..Len(certs) : \E a, b : Piece(s, a, b, certs[i])
  /\ certs # <<>> => certs[1] = SubSeq(s, 1, After(der_elem(s, 0, Len(s))))

LEMMA SplitIs ==
  ASSUME NEW s \in Seq(Byte), NEW max \in Nat
  PROVE  SplitFrom(s, chain_split(s, max))
<1> DEFINE all == Walk(s, 0, Len(s))
           n == CHOOSE k \in 0..max : Cuts(all, max, k)
           start(i) == IF i = 1 THEN 0 ELSE After(all[i - 1])
           piece(i) == SubSeq(s, start(i) + 1, After(all[i]))
           certs == [i \in 1..n |-> piece(i)]
<1>1. Len(s) \in Nat /\ 0 \in 0..Len(s) /\ Len(s) \in 0..Len(s) /\ 0 \in Nat
  OBVIOUS
<1>2. Chained(s, 0, Len(s), all)
  BY <1>1, WalkChained
<1>3. all \in Seq(Elem(0, Len(s)))
  BY <1>2 DEF Chained
<1>4. \E k \in 0..max : Cuts(all, max, k)
  <2> HIDE DEF all
  <2> QED BY <1>3, CutsExist
<1>5. n \in 0..max /\ Cuts(all, max, n)
  <2> HIDE DEF all
  <2> QED BY <1>4
<1>6. chain_split(s, max) = certs
  BY Zenon DEF chain_split, Cuts
<1>7. n \in Nat /\ n <= Len(all) /\ Len(all) \in Nat
  <2> HIDE DEF all, n
  <2> QED BY <1>3, <1>5 DEF Cuts
<1>8. ASSUME NEW i \in 1..n
      PROVE  /\ all[i] \in Elem(0, Len(s)) /\ Piece(s, start(i), After(all[i]), piece(i))
             /\ i = 1 => all[1] = der_elem(s, 0, Len(s))
  <2> HIDE DEF all, n
  <2>1. i \in 1..Len(all) /\ i \in Nat
    BY <1>7
  <2>2. all[i] \in Elem(0, Len(s))
    BY <1>3, <2>1, SeqAt
  <2>3. After(all[i]) \in Nat /\ After(all[i]) > 0 /\ After(all[i]) <= Len(s)
    BY <1>1, <2>2, ElemFacts
  <2>4. CASE i = 1
    <3>1. start(i) = 0 /\ 0 + 1 = 1
      BY <2>4
    <3>2. Piece(s, start(i), After(all[i]), piece(i))
      BY <2>3, <3>1 DEF Piece
    <3>3. all # <<>>
      BY <1>3, <1>7
    <3> QED BY <1>2, <2>2, <3>2, <3>3 DEF Chained
  <2>5. CASE i # 1
    <3>1. PICK k \in Nat : k = i - 1 /\ k + 1 = i /\ k \in 1..Len(all) - 1 /\ k \in 1..Len(all)
      BY <1>7, <2>1, <2>5
    <3>2. all[i] = der_elem(s, After(all[k]), Len(s))
      BY <1>2, <3>1 DEF Chained
    <3>3. all[k] \in Elem(0, Len(s))
      BY <1>3, <3>1, SeqAt
    <3>4. After(all[k]) \in Nat
      BY <1>1, <3>3, ElemFacts
    <3>5. all[i] # Missing
      BY <1>1, <2>2, ElemFacts
    <3>6. all[i] \in Elem(After(all[k]), Len(s))
      BY <1>1, <3>2, <3>4, <3>5, ElemIs
    <3>7. After(all[i]) > After(all[k])
      BY <1>1, <3>4, <3>6, ElemFacts
    <3>8. start(i) = After(all[k])
      BY <2>5, <3>1
    <3>9. Piece(s, start(i), After(all[i]), piece(i))
      BY Zenon, <2>3, <3>4, <3>7, <3>8 DEF Piece
    <3> QED BY <2>2, <2>5, <3>9
  <2> QED BY <2>4, <2>5
<1>9. \A i \in 1..n : piece(i) \in Seq(Byte)
  <2> SUFFICES ASSUME NEW i \in 1..n PROVE piece(i) \in Seq(Byte)
    OBVIOUS
  <2>1. Piece(s, start(i), After(all[i]), piece(i))
    BY <1>8
  <2> HIDE DEF start, piece, all, n
  <2> QED BY <2>1, PieceIs
<1>10. certs \in Seq(Seq(Byte)) /\ Len(certs) = n /\ \A i \in 1..n : certs[i] = piece(i)
  <2> HIDE DEF piece, n
  <2> QED BY <1>7, <1>9
<1>11. \A i \in 1..Len(certs) : \E a, b : Piece(s, a, b, certs[i])
  <2> SUFFICES ASSUME NEW i \in 1..n PROVE \E a, b : Piece(s, a, b, certs[i])
    BY <1>10
  <2>1. Piece(s, start(i), After(all[i]), piece(i))
    BY <1>8
  <2>2. certs[i] = piece(i)
    BY <1>10
  <2> HIDE DEF start, piece, all, n, certs
  <2> QED BY <2>1, <2>2
<1>12. certs # <<>> => certs[1] = SubSeq(s, 1, After(der_elem(s, 0, Len(s))))
  <2> SUFFICES ASSUME certs # <<>> PROVE certs[1] = SubSeq(s, 1, After(der_elem(s, 0, Len(s))))
    OBVIOUS
  <2>1. 1 \in 1..n
    <3> HIDE DEF piece, n, certs
    <3> QED BY <1>7, <1>10
  <2>2. all[1] = der_elem(s, 0, Len(s)) /\ certs[1] = piece(1)
    BY <1>8, <1>10, <2>1
  <2>3. start(1) + 1 = 1
    OBVIOUS
  <2>4. piece(1) = SubSeq(s, 1, After(all[1]))
    <3> HIDE DEF all, n, start, certs
    <3> QED BY <2>3
  <2> HIDE DEF all, n, start, certs, piece
  <2> QED BY <2>2, <2>4
<1> HIDE DEF all, n, start, certs, piece
<1> QED BY <1>6, <1>10, <1>11, <1>12 DEF SplitFrom

-----------------------------------------------------------------------------
(* What OK says *)

LEMMA PolicySays ==
  ASSUME NEW certs, NEW host, NEW now, chain_policy(certs, host, now) = "OK"
  PROVE  /\ certs # <<>>
         /\ host # <<>> => chain_host_matches(certs[1], host)
         /\ now # NoTime => \A i \in DOMAIN certs : chain_valid_at(certs[i], now)
<1>1. certs # <<>>
  BY SMT DEF chain_policy
<1>2. host = <<>> \/ chain_host_matches(certs[1], host)
  BY SMT, <1>1 DEF chain_policy
<1>3. now # NoTime => \A i \in DOMAIN certs : chain_valid_at(certs[i], now)
  <2> SUFFICES ASSUME now # NoTime, \E i \in DOMAIN certs : ~chain_valid_at(certs[i], now) PROVE FALSE
    OBVIOUS
  <2>1. chain_policy(certs, host, now) = "EXPIRED"
    BY SMT, <1>1, <1>2 DEF chain_policy
  <2> QED BY <2>1
<1> QED BY <1>1, <1>2, <1>3

\* What a step of the verification may find.
Verdicts == {"OK", "MALFORMED", "UNSUPPORTED", "BAD_SIG", "NO_ANCHOR"}

LEMMA WorstSays ==
  ASSUME NEW r \in Seq(Verdicts), Worst(r) = "OK"
  PROVE  \A i \in DOMAIN r : r[i] = "OK"
<1> SUFFICES ASSUME NEW i \in DOMAIN r, r[i] # "OK" PROVE FALSE
  OBVIOUS
<1> DEFINE wrong == {j \in DOMAIN r : r[j] # "OK"}
           First(j) == j \in DOMAIN r /\ r[j] # "OK" /\ \A k \in 1..j - 1 : r[k] = "OK"
<1>1. wrong \in SUBSET Nat /\ wrong # {}
  OBVIOUS
<1>2. PICK b \in wrong : \A c \in wrong : b <= c
  BY <1>1, HasLowest
<1>3. b \in DOMAIN r /\ First(b)
  <2>1. b \in 1..Len(r) /\ r[b] # "OK" /\ b \in Nat
    BY <1>1, <1>2
  <2>2. ASSUME NEW k \in 1..b - 1, r[k] # "OK" PROVE FALSE
    <3>1. k \in wrong
      BY <2>1, <2>2
    <3>2. b <= k
      BY <1>2, <3>1
    <3> QED BY <2>1, <2>2, <3>2
  <2> QED BY <2>1, <2>2
<1>4. Worst(r) = r[CHOOSE j \in DOMAIN r : r[j] # "OK" /\ \A k \in 1..j - 1 : r[k] = "OK"]
  BY Zenon DEF Worst
<1>5. First(CHOOSE j \in DOMAIN r : r[j] # "OK" /\ \A k \in 1..j - 1 : r[k] = "OK")
  BY Zenon, <1>3
<1> QED BY Zenon, <1>4, <1>5

\* What chain_verify found: every certificate but the last signed by the next,
\* the last one an anchor's.
Verified(certs) ==
  /\ certs # <<>>
  /\ LET n == Len(certs) IN x509_key_of(certs[n]) # NoKey /\ roots_index(certs[n], x509_key_of(certs[n]))
  /\ \A i \in 1..Len(certs) - 1 : chain_verify_link(certs[i], chain_parts(certs[i]), certs[i + 1], x509_key_of(certs[i + 1]))

LEMMA LinkSays ==
  ASSUME NEW child, NEW p, p.ok \in BOOLEAN, p.alg \in {"RSA_SHA256", "ECDSA", "UNKNOWN"}, NEW issuer, NEW key
  PROVE  /\ Link(child, p, issuer, key) \in {"OK", "MALFORMED", "UNSUPPORTED", "BAD_SIG"}
         /\ Link(child, p, issuer, key) = "OK" => chain_verify_link(child, p, issuer, key)
<1> DEFINE good == chain_verify_link(child, p, issuer, key)
           found == IF key = NoKey THEN "MALFORMED" ELSE IF good THEN "OK" ELSE "BAD_SIG"
<1>1. CASE ~p.ok \/ p.alg = "UNKNOWN"
  <2>1. Link(child, p, issuer, key) = "MALFORMED"
    BY <1>1 DEF Link
  <2> QED BY <2>1
<1>2. CASE p.ok /\ p.alg = "ECDSA"
  <2>1. Link(child, p, issuer, key) = "UNSUPPORTED"
    BY <1>2 DEF Link
  <2> QED BY <2>1
<1>3. CASE p.ok /\ p.alg = "RSA_SHA256"
  <2>1. Link(child, p, issuer, key) = found
    <3>1. Link(child, p, issuer, key) =
            CASE key = NoKey -> "MALFORMED" [] key # NoKey /\ ~good -> "BAD_SIG" [] OTHER -> "OK"
      BY <1>3 DEF Link
    <3>2. good \in BOOLEAN
      BY DEF chain_verify_link
    <3> HIDE DEF good
    <3>3. CASE key = NoKey
      BY <3>1, <3>3
    <3>4. CASE key # NoKey /\ good
      BY <3>1, <3>4
    <3>5. CASE key # NoKey /\ ~good
      BY <3>1, <3>5
    <3> QED BY <3>2, <3>3, <3>4, <3>5
  <2>2. good \in BOOLEAN
    BY DEF chain_verify_link
  <2>3. found \in {"OK", "MALFORMED", "BAD_SIG"} /\ (found = "OK" => good)
    <3>1. CASE key = NoKey
      BY Zenon, <3>1
    <3>2. CASE key # NoKey /\ good
      BY Zenon, <3>2
    <3>3. CASE key # NoKey /\ ~good
      BY Zenon, <3>3
    <3> HIDE DEF found
    <3> QED BY Zenon, <2>2, <3>1, <3>2, <3>3
  <2> HIDE DEF found
  <2> QED BY <2>1, <2>3
<1> QED BY <1>1, <1>2, <1>3

LEMMA PartsAlg ==
  ASSUME NEW f
  PROVE  chain_parts(f).ok \in BOOLEAN /\ chain_parts(f).alg \in {"RSA_SHA256", "ECDSA", "UNKNOWN"}
<1> DEFINE c == der_elem(f, 0, Len(f))
           t == der_tbs(f)
           a == der_elem(f, After(t), After(c))
           o == der_elem(f, a.off, After(c))
           s == der_elem(f, After(a), After(c))
           rsa == der_oid_is(f, o, OidRsaSha256, Len(OidRsaSha256))
           ecdsa == der_oid_is(f, o, OidEcdsaSha2, Len(OidEcdsaSha2) + 1)
           alg == CASE rsa -> "RSA_SHA256" [] ecdsa -> "ECDSA" [] OTHER -> "UNKNOWN"
           ok == t # Missing /\ a.tag = SEQ /\ o.tag = OID /\ s.tag = BITS /\ s.len >= 2 /\ f[s.off + 1] = 0
           tbs == Range0(c.off, After(t) - c.off)
           sig == Range0(s.off + 1, s.len - 1)
<1>1. chain_parts(f) = [ok |-> ok, tbs |-> tbs, alg |-> alg, sig |-> sig]
  BY Zenon DEF chain_parts
<1>2. alg \in {"RSA_SHA256", "ECDSA", "UNKNOWN"}
  <2> HIDE DEF rsa, ecdsa
  <2> QED OBVIOUS
<1>3. ok \in BOOLEAN
  <2> HIDE DEF t, a, o, s
  <2> QED OBVIOUS
<1> HIDE DEF alg, ok, tbs, sig
<1> QED BY <1>1, <1>2, <1>3

LEMMA VerifySays ==
  ASSUME NEW certs \in Seq(Seq(Byte)), chain_verify(certs) = "OK"
  PROVE  Verified(certs)
<1> DEFINE n == Len(certs)
           keys == [i \in DOMAIN certs |-> x509_key_of(certs[i])]
           link(i) == Link(certs[i], chain_parts(certs[i]), certs[i + 1], keys[i + 1])
           links == [i \in Links(certs) |-> link(i)]
           top == Top(certs[n], keys[n])
           results == links \o <<top>>
<1>1. certs # <<>>
  BY DEF chain_verify
<1>2. n \in Nat /\ n >= 1 /\ DOMAIN certs = 1..n
  BY <1>1
<1>3. Worst(results) = "OK"
  BY Zenon, <1>1 DEF chain_verify
<1>4. top \in Verdicts
  <2>1. top = "MALFORMED" \/ top = "OK" \/ top = "NO_ANCHOR"
    BY Zenon DEF Top
  <2> HIDE DEF top
  <2> QED BY <2>1 DEF Verdicts
<1>5. \A i \in 1..n - 1 : link(i) \in Verdicts
  <2> SUFFICES ASSUME NEW i \in 1..n - 1 PROVE link(i) \in Verdicts
    OBVIOUS
  <2>1. link(i) \in {"OK", "MALFORMED", "UNSUPPORTED", "BAD_SIG"}
    BY PartsAlg, LinkSays
  <2> HIDE DEF link
  <2> QED BY <2>1 DEF Verdicts
<1>6. PICK m \in Nat : m = n - 1 /\ Links(certs) = 1..m
  <2>1. Links(certs) = 1..n - 1
    BY DEF Links
  <2> HIDE DEF n
  <2> QED BY <1>2, <2>1
<1>7. links \in Seq(Verdicts) /\ Len(links) = m /\ \A i \in 1..m : links[i] = link(i)
  <2> HIDE DEF link, n
  <2> QED BY <1>5, <1>6
<1>8. /\ results \in Seq(Verdicts) /\ DOMAIN results = 1..m + 1 /\ results[m + 1] = top
      /\ \A i \in 1..m : results[i] = link(i)
  <2> HIDE DEF links, link, top, n
  <2> QED BY <1>4, <1>6, <1>7
<1>9. \A i \in 1..m + 1 : results[i] = "OK"
  <2> HIDE DEF results
  <2> QED BY <1>3, <1>8, WorstSays
<1>10. top = "OK"
  <2>1. m + 1 \in 1..m + 1
    OBVIOUS
  <2> HIDE DEF results, top
  <2> QED BY <1>8, <1>9, <2>1
<1>11. keys[n] # NoKey /\ roots_index(certs[n], keys[n])
  BY SMT, <1>10 DEF Top
<1>12. keys[n] = x509_key_of(certs[n])
  BY <1>2
<1>13. ASSUME NEW i \in 1..n - 1 PROVE chain_verify_link(certs[i], chain_parts(certs[i]), certs[i + 1], x509_key_of(certs[i + 1]))
  <2>1. i \in 1..m /\ i \in 1..m + 1 /\ i + 1 \in 1..n
    BY <1>2, <1>6
  <2>2. link(i) = "OK"
    <3> HIDE DEF link, results
    <3> QED BY <1>8, <1>9, <2>1
  <2>3. keys[i + 1] = x509_key_of(certs[i + 1])
    BY <1>2, <2>1
  <2>4. chain_verify_link(certs[i], chain_parts(certs[i]), certs[i + 1], keys[i + 1])
    <3> HIDE DEF keys
    <3> QED BY <2>2, PartsAlg, LinkSays
  <2> HIDE DEF keys
  <2> QED BY <2>3, <2>4
<1> HIDE DEF keys
<1> QED BY <1>1, <1>11, <1>12, <1>13 DEF Verified

-----------------------------------------------------------------------------
(* A chain of keys *)

LEMMA IssuedIs ==
  ASSUME NEW c \in Issued
  PROVE  c \in Certs /\ c.by.kind = "RSA"
<1>1. PICK q \in Chains : c \in ToSet(q.chain)
  BY DEF Issued
<1>2. c.by.kind = "RSA"
  BY DEF Issued
<1>3. q.chain \in Seq(Certs)
  BY <1>1, QuestionFacts
<1>4. PICK i \in DOMAIN q.chain : c = q.chain[i]
  BY <1>1 DEF ToSet
<1>5. c \in Certs
  <2>1. i \in 1..Len(q.chain)
    BY <1>3, <1>4
  <2> QED BY <1>3, <1>4, <2>1, SeqAt
<1> QED BY <1>2, <1>5

LEMMA KeysEqual ==
  ASSUME NEW j \in Keys, NEW k \in Keys, j.kind = k.kind, Modulus(j) = Modulus(k)
  PROVE  j = k
<1>1. j.id = k.id
  BY DEF Modulus
<1> QED BY <1>1 DEF Keys

\* A certificate that was issued, whole in a file.
HoldsIssued(f, c) ==
  c \in Issued /\ \E C, t : Outer(f, C, t) /\ Spans(f, C.off, After(t), Tbs(c))

\* A key found in a file is the one that signed.
HandsKey(f, c) == x509_key_of(f).kind = "RSA" /\ Content(f, x509_key_of(f).n) = Modulus(c.by)

LEMMA LinkIs ==
  ASSUME NEW child \in Seq(Byte), NEW issuer, chain_verify_link(child, chain_parts(child), issuer, x509_key_of(issuer))
  PROVE  \E c : HoldsIssued(child, c) /\ HandsKey(issuer, c)
<1> DEFINE p == chain_parts(child)
           k == x509_key_of(issuer)
           n == Content(issuer, k.n)
           e == Content(issuer, k.e)
           s == Content(child, p.sig)
           t == Content(child, p.tbs)
<1>1. k.kind = "RSA" /\ p.ok /\ <<n, e, s, t>> \in Signed
  BY DEF chain_verify_link
<1>2. Signed = Signatures
  BY ChainsAssumption
<1>3. PICK c \in Issued : <<n, e, s, t>> = Signs(c)
  <2> HIDE DEF n, e, s, t
  <2> QED BY Zenon, <1>1, <1>2 DEF Signatures
<1>4. n = Modulus(c.by) /\ t = Tbs(c)
  <2> DEFINE a == Modulus(c.by)
             b == Signature(c)
             d == Tbs(c)
  <2>1. <<n, e, s, t>> = <<a, Exponent, b, d>>
    BY <1>3 DEF Signs
  <2> HIDE DEF n, e, s, t, a, b, d
  <2>2. n = a /\ t = d
    BY <2>1
  <2> QED BY <2>2 DEF n, t, a, d
<1>5. PICK C, u, x : PartsAre(child, C, u, x)
  BY <1>1, PartsFound
<1>6. Outer(child, C, u) /\ p.tbs = Range0(C.off, After(u) - C.off)
  BY <1>5 DEF PartsAre
<1>7. C.off \in Nat /\ After(u) \in Nat /\ After(u) >= C.off /\ After(u) <= Len(child) /\ Len(child) \in Nat
  BY <1>6, OuterFacts
<1>8. PICK m \in Nat : m = After(u) - C.off /\ C.off + m = After(u)
  BY <1>7
<1>9. Spans(child, C.off, After(u), Tbs(c))
  <2>1. Content(child, Range0(C.off, m)) = Tbs(c)
    BY <1>4, <1>6, <1>8
  <2>2. Spans(child, C.off, C.off + m, Tbs(c))
    BY <1>7, <1>8, <2>1, ContentSpans
  <2> QED BY <1>8, <2>2
<1>10. HoldsIssued(child, c)
  BY <1>6, <1>9 DEF HoldsIssued
<1>11. HandsKey(issuer, c)
  BY <1>1, <1>4 DEF HandsKey
<1> QED BY <1>10, <1>11

\* The key that an issued certificate hands down is its own.
LEMMA HandedDown ==
  ASSUME NEW f \in Seq(Byte), TwoBytes(Len(f)), NEW b, HoldsIssued(f, b), NEW c \in Issued, HandsKey(f, c)
  PROVE  b.key = c.by
<1>1. PICK C, t : Outer(f, C, t) /\ Spans(f, C.off, After(t), Tbs(b))
  BY DEF HoldsIssued
<1>2. b \in Certs /\ c \in Certs
  BY IssuedIs DEF HoldsIssued
<1>3. PICK m, d : SignedIs(f, C, t, b, m, d)
  BY <1>1, <1>2, SignedRead
<1>4. KeyRead(f, m[6], m[7], b.key, x509_key_of(f))
  BY <1>2, <1>3, KeyOfCert
<1>5. x509_key_of(f).kind = b.key.kind /\ (x509_key_of(f).kind = "RSA" => Content(f, x509_key_of(f).n) = Modulus(b.key))
  BY <1>4 DEF KeyRead
<1>6. x509_key_of(f).kind = "RSA" /\ Content(f, x509_key_of(f).n) = Modulus(c.by)
  BY DEF HandsKey
<1>7. b.key \in Keys /\ c.by \in Keys /\ c.by.kind = "RSA"
  BY <1>2, CertFacts, IssuedIs
<1> QED BY <1>5, <1>6, <1>7, KeysEqual

LEMMA KindOrNone ==
  ASSUME NEW f, x509_key_of(f).kind = "NONE"
  PROVE  x509_key_of(f) = NoKey
<1>1. \A end, spki, oid, bits : KeyOf(f, end, spki, oid, bits) = NoKey \/ KeyOf(f, end, spki, oid, bits).kind # "NONE"
  <2> SUFFICES ASSUME NEW end, NEW spki, NEW oid, NEW bits
               PROVE  KeyOf(f, end, spki, oid, bits) = NoKey \/ KeyOf(f, end, spki, oid, bits).kind # "NONE"
    OBVIOUS
  <2> DEFINE curve == element(f, end, After(oid))
             rsa == element(f, end, bits.off + 1)
             n == element(f, end, rsa.off)
             e == element(f, end, After(n))
             key(kind) == [kind |-> kind, spki |-> spki, n |-> integer(f, n), e |-> integer(f, e), bits |-> bits]
             algorithm == Content(f, oid)
             isEc == /\ algorithm = OidEc /\ curve.tag = OID /\ Content(f, curve) = OidP256
                     /\ bits.len = P256Len + 1 /\ f[bits.off + 2] = 4
             isEd == algorithm = OidEd25519 /\ bits.len = Ed25519Len + 1
             isRsa == algorithm = OidRsa /\ rsa.tag = SEQ /\ n.tag = INT /\ e.tag = INT
  <2>1. KeyOf(f, end, spki, oid, bits) =
          CASE isEc -> key("P256") [] isEd -> key("ED25519") [] isRsa -> key("RSA") [] OTHER -> NoKey
    BY Zenon DEF KeyOf
  <2>2. key("P256").kind = "P256" /\ key("ED25519").kind = "ED25519" /\ key("RSA").kind = "RSA"
    OBVIOUS
  <2> HIDE DEF isEc, isEd, isRsa, key
  <2>3. KeyOf(f, end, spki, oid, bits) \in {key("P256"), key("ED25519"), key("RSA"), NoKey}
    BY Zenon, <2>1
  <2> QED BY <2>2, <2>3
<1>2. \A at, end : KeyAt(f, at, end) = NoKey \/ KeyAt(f, at, end).kind # "NONE"
  <2> SUFFICES ASSUME NEW at, NEW end PROVE KeyAt(f, at, end) = NoKey \/ KeyAt(f, at, end).kind # "NONE"
    OBVIOUS
  <2>1. KeyAt(f, at, end) = NoKey \/ \E spki, oid, bits : KeyAt(f, at, end) = KeyOf(f, end, spki, oid, bits)
    BY Zenon DEF KeyAt
  <2> QED BY Zenon, <1>1, <2>1
<1>3. x509_key_of(f) = NoKey \/ \E at, end : x509_key_of(f) = KeyAt(f, at, end)
  BY Zenon DEF x509_key_of
<1> QED BY Zenon, <1>2, <1>3

\* A key that is an anchor's is where it was found, and it is that anchor.
LEMMA AnchorFound ==
  ASSUME NEW f \in Seq(Byte), TwoBytes(Len(f)), x509_key_of(f) # NoKey, roots_index(f, x509_key_of(f))
  PROVE  \E k \in RootKeys : \E at \in Nat, q \in Nat : at < q /\ Spans(f, at, q, Spki(k)) /\ KeyRead(f, at, q, k, x509_key_of(f))
<1> DEFINE key == x509_key_of(f)
<1>1. key.kind # "NONE"
  BY KindOrNone
<1>2. PICK t : \E at \in Nat :
        /\ After(t) \in 0..Len(f) /\ at <= After(t)
        /\ key = KeyAt(f, at, After(t)) /\ KeyFound(f, at, After(t), key)
  BY <1>1, KeyIs
<1>3. PICK at \in Nat :
        /\ After(t) \in 0..Len(f) /\ at <= After(t)
        /\ key = KeyAt(f, at, After(t)) /\ KeyFound(f, at, After(t), key)
  BY <1>2
<1> DEFINE s == der_elem(f, at, After(t))
<1>4. s.tag = SEQ /\ key.spki = Range0(at, After(s) - at)
  BY <1>1, <1>3 DEF KeyFound
<1>5. Content(f, key.spki) \in Anchors /\ RootKeys \subseteq Keys
  BY ChainsAssumption DEF roots_index
<1>6. PICK k \in RootKeys : Content(f, key.spki) = Spki(k)
  BY <1>5 DEF Anchors
<1>7. s \in Elem(at, After(t))
  BY <1>3, <1>4, Tagged, Tags
<1>8. After(s) \in Nat /\ After(s) > at /\ After(s) <= After(t) /\ After(t) \in Nat /\ After(t) <= Len(f) /\ Len(f) \in Nat
  BY <1>3, <1>7, ElemFacts
<1> HIDE DEF s
<1>9. PICK q \in Nat : q = After(s)
  BY <1>8
<1>10. PICK n \in Nat : n = q - at /\ at + n = q
  BY <1>8, <1>9
<1>11. q \in 0..Len(f) /\ After(t) \in q..Len(f)
  BY <1>8, <1>9
<1>12. Content(f, Range0(at, n)) = Spki(k)
  BY <1>4, <1>6, <1>9, <1>10
<1>13. Spans(f, at, q, Spki(k))
  <2>1. at + n <= Len(f)
    BY <1>10, <1>11
  <2>2. Spans(f, at, at + n, Spki(k))
    BY <1>12, <2>1, ContentSpans
  <2> QED BY <1>10, <2>2
<1>14. KeyRead(f, at, q, k, KeyAt(f, at, After(t)))
  BY <1>3, <1>5, <1>11, <1>13, KeyAtRead
<1>15. at < q
  BY <1>8, <1>9
<1> QED BY <1>3, <1>13, <1>14, <1>15

-----------------------------------------------------------------------------
(* Trust *)

LEMMA TbsBytes ==
  ASSUME NEW c \in Certs, TwoBytes(Len(Tbs(c)))
  PROVE  Tbs(c) \in Seq(Byte) /\ Tbs(c) # <<>> /\ Tbs(c)[1] = SEQ
<1>1. Tbs(c) = Tlv(c.form, SEQ, BodyOf(c)) /\ Encoded(BodyOf(c)) /\ Encoded(Tbs(c)) /\ c.form \in 1..3 /\ SEQ \in Byte
  BY EncBody, CertFacts, Tags
<1>2. Tbs(c) \in Seq(Byte)
  BY <1>1 DEF Encoded
<1>3. Len(BodyOf(c)) <= Len(Tbs(c)) /\ Len(Tbs(c)) \in Nat /\ Len(BodyOf(c)) \in Nat
  <2>1. BodyOf(c) \in Seq(Nat)
    BY <1>1 DEF Encoded
  <2>2. Len(BodyOf(c)) \in Nat
    BY <2>1
  <2> QED BY <1>1, <2>2, EncodedTlv
<1>4. TwoBytes(Len(BodyOf(c)))
  BY <1>3, Bytes16
<1>5. BodyOf(c) \in Seq(Byte)
  BY <1>1, <1>4 DEF Encoded
<1>6. PICK l \in Seq(Byte) : l = Length(c.form, Len(BodyOf(c)))
  BY <1>1, <1>4, <1>5, TlvIs
<1>7. Tbs(c) = (<<SEQ>> \o l) \o BodyOf(c)
  BY <1>1, <1>4, <1>5, <1>6, TlvIs
<1>8. <<SEQ>> \in Seq(Byte) /\ Len(<<SEQ>>) = 1 /\ <<SEQ>>[1] = SEQ
  BY <1>1
<1>9. <<SEQ>> \o l \in Seq(Byte) /\ Len(<<SEQ>> \o l) = 1 + Len(l) /\ (<<SEQ>> \o l)[1] = SEQ
  BY <1>6, <1>8, Joined
<1>10. Len(l) \in Nat
  BY <1>6
<1> DEFINE h == <<SEQ>> \o l
<1> HIDE DEF h
<1>11. h \in Seq(Byte) /\ 1 \in 1..Len(h) /\ h[1] = SEQ
  BY <1>9, <1>10 DEF h
<1>12. (h \o BodyOf(c))[1] = h[1] /\ Len(h \o BodyOf(c)) = Len(h) + Len(BodyOf(c))
  BY <1>5, <1>11, Joined
<1>13. Tbs(c) = h \o BodyOf(c)
  BY <1>7 DEF h
<1>14. Len(Tbs(c)) # 0
  BY <1>3, <1>11, <1>12, <1>13
<1> QED BY <1>2, <1>11, <1>12, <1>13, <1>14

\* Where an issued certificate is.
LEMMA IssuedAt ==
  ASSUME NEW f \in Seq(Byte), TwoBytes(Len(f)), NEW c, HoldsIssued(f, c)
  PROVE  \E i \in DOMAIN f : At(f, i, Tbs(c)) /\ f[i] = SEQ /\ Tbs(c) \in Seq(Byte) /\ Tbs(c) # <<>>
<1>1. PICK C, t : Outer(f, C, t) /\ Spans(f, C.off, After(t), Tbs(c))
  BY DEF HoldsIssued
<1>2. c \in Certs
  BY IssuedIs DEF HoldsIssued
<1>3. C.off \in Nat /\ Len(f) \in Nat
  BY <1>1, OuterFacts
<1>4. Tbs(c) \in Seq(Nat)
  BY <1>2, EncBody DEF Encoded
<1>5. C.off + Len(Tbs(c)) <= Len(f) /\ Len(Tbs(c)) \in Nat
  BY <1>1, <1>4 DEF Spans, Found
<1>6. TwoBytes(Len(Tbs(c)))
  BY <1>3, <1>5, Bytes16
<1>7. Tbs(c) \in Seq(Byte) /\ Tbs(c) # <<>> /\ Tbs(c)[1] = SEQ
  BY <1>2, <1>6, TbsBytes
<1>8. At(f, C.off + 1, Tbs(c))
  BY <1>1, <1>3, <1>7, SpansAt
<1>9. Len(Tbs(c)) >= 1
  BY <1>7
<1>10. f[C.off + 1] = Tbs(c)[1]
  <2>1. 1 \in 1..Len(Tbs(c))
    BY <1>5, <1>9
  <2> QED BY <1>1, <2>1 DEF Spans, Found
<1>11. C.off + 1 \in DOMAIN f
  BY <1>3, <1>5, <1>9
<1> QED BY <1>7, <1>8, <1>10, <1>11

LEMMA HeldIs ==
  ASSUME NEW bytes, NEW rtc, NEW c \in Issued, InDate(c, rtc), NEW i \in DOMAIN bytes, bytes[i] = SEQ, At(bytes, i, Tbs(c))
  PROVE  c \in Held(bytes, rtc)
<1> DEFINE starts == {j \in DOMAIN bytes : bytes[j] = SEQ}
           v == <<c, Tbs(c)>>
           Is(w) == (\E j \in starts : At(bytes, j, w[2])) /\ InDate(w[1], rtc)
<1>1. v \in Written
  BY DEF Written
<1>2. v[1] = c /\ v[2] = Tbs(c)
  OBVIOUS
<1>3. i \in starts
  OBVIOUS
<1>4. Is(v)
  <2> HIDE DEF v, starts
  <2> QED BY <1>2, <1>3
<1>5. v \in {w \in Written : Is(w)}
  <2> HIDE DEF v, Is
  <2> QED BY <1>1, <1>4
<1>6. c \in {w[1] : w \in {x \in Written : Is(x)}}
  <2> HIDE DEF v, Is
  <2> QED BY <1>2, <1>5
<1>7. Held(bytes, rtc) = {w[1] : w \in {x \in Written : Is(x)}}
  BY Zenon DEF Held
<1> HIDE DEF Is
<1> QED BY <1>6, <1>7

\* What is in a piece of the store is in the store.
LEMMA HeldInStore ==
  ASSUME NEW s \in Seq(Byte), TwoBytes(Len(s)), NEW a, NEW b, NEW f, Piece(s, a, b, f), NEW rtc, NEW c, HoldsIssued(f, c), InDate(c, rtc)
  PROVE  c \in Held(s, rtc) /\ c \in Held(f, rtc)
<1>1. f \in Seq(Byte) /\ Len(f) <= Len(s) /\ Len(f) \in Nat /\ Len(s) \in Nat
  BY PieceIs
<1>2. TwoBytes(Len(f))
  BY <1>1, Bytes16
<1>3. PICK i \in DOMAIN f : At(f, i, Tbs(c)) /\ f[i] = SEQ /\ Tbs(c) \in Seq(Byte) /\ Tbs(c) # <<>>
  BY <1>1, <1>2, IssuedAt
<1>4. c \in Issued
  BY DEF HoldsIssued
<1>5. i \in Nat /\ i >= 1
  BY <1>1
<1>6. At(s, a + i, Tbs(c)) /\ a + i \in DOMAIN s /\ f[i] = s[a + i]
  BY <1>3, <1>5, PieceAt
<1>7. c \in Held(s, rtc)
  BY <1>3, <1>4, <1>6, HeldIs
<1>8. c \in Held(f, rtc)
  BY <1>3, <1>4, HeldIs
<1> QED BY <1>7, <1>8

\* A key a chain hands down from an anchor is trusted.
LEMMA TrustedDown ==
  ASSUME NEW bytes, NEW rtc, NEW m \in Nat, m >= 1, NEW c, \A i \in 1..m : c[i] \in Held(bytes, rtc),
         \A i \in 1..m - 1 : c[i + 1].key = c[i].by, c[m].by \in RootKeys
  PROVE  c[1].by \in Trusted(bytes, rtc)
<1> DEFINE handed == {<<x.by, x.key>> : x \in Held(bytes, rtc)}
           keys == RootKeys \cup {h[2] : h \in handed}
           Closed(S) == RootKeys \subseteq S /\ \A h \in handed : h[1] \in S => h[2] \in S
<1>1. ASSUME NEW i \in 1..m PROVE <<c[i].by, c[i].key>> \in handed
  BY <1>1
<1>2. c[1].by \in keys
  <2>1. CASE m = 1
    BY <2>1
  <2>2. CASE m # 1
    <3>1. 1 \in 1..m - 1 /\ 2 \in 1..m /\ 1 + 1 = 2
      BY <2>2
    <3>2. c[1].by = c[2].key
      BY ONLY <3>1, \A i \in 1..m - 1 : c[i + 1].key = c[i].by
    <3>3. <<c[2].by, c[2].key>> \in handed
      BY <1>1, <3>1
    <3> DEFINE h == <<c[2].by, c[2].key>>
    <3>4. h[2] = c[2].key
      OBVIOUS
    <3>5. h \in handed
      BY <3>3
    <3> HIDE DEF h, handed
    <3> QED BY <3>2, <3>4, <3>5
  <2> QED BY <2>1, <2>2
<1>3. ASSUME NEW S, Closed(S) PROVE c[1].by \in S
  <2> DEFINE T == {j \in Nat : j <= m - 1 => c[m - j].by \in S}
  <2>1. T \in SUBSET Nat /\ 0 \in T
    <3>1. m - 0 = m
      OBVIOUS
    <3>2. c[m].by \in S
      BY <1>3
    <3> QED BY <3>1, <3>2
  <2>2. ASSUME NEW j \in T PROVE j + 1 \in T
    <3> SUFFICES ASSUME j + 1 <= m - 1 PROVE c[m - (j + 1)].by \in S
      BY <2>2
    <3>1. PICK i \in Nat : i = m - (j + 1) /\ i + 1 = m - j /\ i \in 1..m - 1 /\ i + 1 \in 1..m
      BY <2>2
    <3>2. c[i + 1].by \in S
      <4>1. j \in Nat /\ j <= m - 1
        BY <2>2
      <4> QED BY <4>1, <2>2, <3>1
    <3> DEFINE h == <<c[i + 1].by, c[i + 1].key>>
    <3>3. h \in handed
      BY <1>1, <3>1
    <3>4. h[1] = c[i + 1].by /\ h[2] = c[i + 1].key
      OBVIOUS
    <3>5. c[i + 1].key \in S
      <4> HIDE DEF h, handed
      <4> QED BY <1>3, <3>2, <3>3, <3>4
    <3>6. c[i + 1].key = c[i].by
      BY <3>1
    <3> QED BY <3>1, <3>5, <3>6
  <2>3. \A j \in Nat : j \in T
    <3> HIDE DEF T
    <3> QED BY <2>1, <2>2, Counted
  <2>4. m - 1 \in T /\ m - (m - 1) = 1 /\ m - 1 <= m - 1
    BY <2>3
  <2> QED BY <2>4
<1>4. Trusted(bytes, rtc) = {k \in keys : \A S \in SUBSET keys : Closed(S) => k \in S}
  BY Zenon DEF Trusted
<1> HIDE DEF keys, Closed
<1> QED BY Zenon, <1>2, <1>3, <1>4

-----------------------------------------------------------------------------
(* Dates *)

\* Digits, twelve of them, of six numbers.
TwelveOf(n, d) ==
  /\ \A i \in 1..6 : n[i] \in Nat /\ n[i] <= 99
  /\ DOMAIN d = 1..12
  /\ \A i \in 1..6 : d[2 * i - 1] = 48 + (n[i] \div 10) /\ d[2 * i] = 48 + (n[i] % 10)

\* Earlier of six numbers.
Before(a, b) == \E i \in 1..6 : a[i] < b[i] /\ \A j \in 1..i - 1 : a[j] = b[j]

LEMMA NotBefore ==
  ASSUME NEW a, NEW b, NEW d, NEW e, TwelveOf(a, d), TwelveOf(b, e), NotAfter(d, e)
  PROVE  ~Before(b, a)
<1> SUFFICES ASSUME NEW i \in 1..6, b[i] < a[i], \A j \in 1..i - 1 : b[j] = a[j] PROVE FALSE
  BY DEF Before
<1> DEFINE x == a[i]
           y == b[i]
<1>1. x \in Nat /\ y \in Nat /\ x <= 99 /\ y <= 99 /\ y < x
  BY DEF TwelveOf
<1>2. i \in Nat /\ 2 * i - 1 \in 1..12 /\ 2 * i \in 1..12
  OBVIOUS
<1>3. ASSUME NEW k \in 1..2 * i - 2 PROVE d[k] = e[k]
  <2>1. PICK j \in 1..i - 1 : k = 2 * j - 1 \/ k = 2 * j
    <3>1. k \div 2 \in Nat /\ (k = 2 * (k \div 2) \/ k = 2 * (k \div 2) + 1)
      OBVIOUS
    <3>2. CASE k = 2 * (k \div 2)
      <4>1. k \div 2 \in 1..i - 1
        BY <3>1, <3>2
      <4> QED BY <3>2, <4>1
    <3>3. CASE k = 2 * (k \div 2) + 1
      <4>1. (k \div 2) + 1 \in 1..i - 1 /\ k = 2 * ((k \div 2) + 1) - 1
        BY <3>1, <3>3
      <4> QED BY <4>1
    <3> QED BY <3>1, <3>2, <3>3
  <2>2. j \in 1..6 /\ a[j] = b[j]
    OBVIOUS
  <2>3. /\ d[2 * j - 1] = 48 + (a[j] \div 10) /\ d[2 * j] = 48 + (a[j] % 10)
        /\ e[2 * j - 1] = 48 + (b[j] \div 10) /\ e[2 * j] = 48 + (b[j] % 10)
    BY <2>2 DEF TwelveOf
  <2> QED BY <2>1, <2>2, <2>3
<1>4. \A k \in 1..12 : (\A j \in 1..k - 1 : d[j] = e[j]) => d[k] <= e[k]
  BY DEF NotAfter, TwelveOf
<1>5. /\ d[2 * i - 1] = 48 + (x \div 10) /\ d[2 * i] = 48 + (x % 10)
      /\ e[2 * i - 1] = 48 + (y \div 10) /\ e[2 * i] = 48 + (y % 10)
  BY DEF TwelveOf
<1> HIDE DEF x, y
<1>6. d[2 * i - 1] <= e[2 * i - 1]
  <2>1. (2 * i - 1) - 1 = 2 * i - 2
    BY <1>2
  <2>2. \A j \in 1..(2 * i - 1) - 1 : d[j] = e[j]
    BY <1>3, <2>1
  <2> QED BY ONLY <1>2, <1>4, <2>2
<1>7. x \div 10 \in Nat /\ y \div 10 \in Nat /\ x % 10 \in 0..9 /\ y % 10 \in 0..9 /\ x = 10 * (x \div 10) + (x % 10)
      /\ y = 10 * (y \div 10) + (y % 10)
  BY ONLY <1>1
<1>8. x \div 10 = y \div 10
  BY ONLY <1>1, <1>5, <1>6, <1>7
<1>9. d[2 * i] <= e[2 * i]
  <2>1. ASSUME NEW j \in 1..2 * i - 1 PROVE d[j] = e[j]
    <3>1. CASE j = 2 * i - 1
      <4>1. d[j] = 48 + (x \div 10) /\ e[j] = 48 + (y \div 10)
        BY ONLY <1>5, <3>1
      <4> QED BY ONLY <1>8, <4>1
    <3>2. CASE j # 2 * i - 1
      <4>1. j \in 1..2 * i - 2
        BY <1>2, <3>2
      <4> QED BY ONLY <1>3, <4>1
    <3> QED BY <3>1, <3>2
  <2> QED BY ONLY <1>2, <1>4, <2>1
<1>10. x % 10 <= y % 10
  BY ONLY <1>5, <1>7, <1>9
<1> QED BY ONLY <1>1, <1>7, <1>8, <1>10

\* A date's six numbers, of two digits each.
PartsOfDate(d) == [i \in 1..6 |-> Part(d, i)]

LEMMA DateTwelve ==
  ASSUME NEW d \in Dates
  PROVE  TwelveOf(PartsOfDate(d), Twelve(d))
<1>1. Twelve(d) \in Seq(Byte) /\ Len(Twelve(d)) = 12
  BY TwelveIs
<1>2. ASSUME NEW i \in 1..6
      PROVE  /\ Part(d, i) \in Nat /\ Part(d, i) <= 99
             /\ Twelve(d)[2 * i - 1] = 48 + (Part(d, i) \div 10) /\ Twelve(d)[2 * i] = 48 + (Part(d, i) % 10)
  <2>1. Part(d, i) \in Nat /\ Part(d, i) <= 99
    BY PartIs
  <2>2. Twelve(d)[2 * i - 1] = Pair(Part(d, i))[1] /\ Twelve(d)[2 * i] = Pair(Part(d, i))[2]
    BY TwelveIs
  <2>3. Pair(Part(d, i))[1] = 48 + (Part(d, i) \div 10) /\ Pair(Part(d, i))[2] = 48 + (Part(d, i) % 10)
    BY <2>1, PairIs
  <2> QED BY ONLY <2>1, <2>2, <2>3
<1>3. \A i \in 1..6 : PartsOfDate(d)[i] = Part(d, i)
  BY DEF PartsOfDate
<1>4. DOMAIN Twelve(d) = 1..12
  BY <1>1
<1> QED BY ONLY <1>2, <1>3, <1>4 DEF TwelveOf

\* A part of what was written is where it was written.
LEMMA SpansPart ==
  ASSUME NEW f \in Seq(Byte), NEW p \in Nat, NEW q, NEW a \in Seq(Byte), NEW b \in Seq(Byte), NEW c \in Seq(Byte), Spans(f, p, q, (a \o b) \o c)
  PROVE  Cut(f, p + Len(a), Len(b)) = b
<1>1. a \o b \in Seq(Byte)
  BY Joined
<1>2. Found(f, p, a \o b)
  BY <1>1, FoundJoined DEF Spans
<1>3. Found(f, p + Len(a), b)
  BY <1>2, FoundJoined
<1>4. p + Len(a) \in Nat
  OBVIOUS
<1> QED BY <1>3, <1>4, FoundCut

\* A date that was written is read back.
LEMMA TimeRead ==
  ASSUME NEW f \in Seq(Byte), NEW p, NEW q, NEW x, NEW d \in Dates, ReadAs(f, p, q, x, DateTag(d), DateBytes(d)), time12(f, x) # NoTime
  PROVE  time12(f, x) = Twelve(d)
<1>1. x.tag = DateTag(d) /\ Spans(f, x.off, q, DateBytes(d)) /\ x \in Elem(p, q)
  BY DEF ReadAs
<1>2. x.off \in Nat
  BY <1>1 DEF Elem
<1>3. PICK w \in Seq(Byte) : w = Twelve(d) /\ Len(w) = 12
  BY TwelveIs
<1>4. PICK z \in Seq(Byte) : z = <<90>>
  BY EncOne, Numbers
<1> DEFINE early == d[1] < 2050
           century == d[1] \div 100
<1>5. CASE early
  <2>1. x.tag = UTCTIME /\ UTCTIME # GENERALIZED
    <3>1. UTCTIME # GENERALIZED
      BY DEF UTCTIME, GENERALIZED
    <3>2. DateTag(d) = IF early THEN UTCTIME ELSE GENERALIZED
      BY DEF DateTag
    <3> HIDE DEF early
    <3> QED BY <1>1, <1>5, <3>1, <3>2
  <2>2. time12(f, x) = Cut(f, x.off + 0, 12)
    BY <2>1 DEF time12
  <2>3. PICK e \in Seq(Byte) : e = <<>> /\ Len(e) = 0 /\ e \o w = w
    <3>1. <<>> \in Seq(Byte) /\ Len(<<>>) = 0
      OBVIOUS
    <3>2. <<>> \o w = w
      BY ONLY w \in Seq(Byte)
    <3> QED BY Zenon, <3>1, <3>2
  <2>4. Spans(f, x.off, q, (e \o w) \o z)
    <3>1. DateBytes(d) = IF early THEN w \o z ELSE Pair(century) \o w \o z
      BY <1>3, <1>4 DEF DateBytes
    <3> HIDE DEF early, century
    <3>2. DateBytes(d) = (e \o w) \o z
      BY ONLY <1>5, <2>3, <3>1
    <3> QED BY ONLY <1>1, <3>2
  <2>5. Cut(f, x.off + Len(e), Len(w)) = w
    BY ONLY f \in Seq(Byte), <1>2, <2>4, SpansPart, w \in Seq(Byte), z \in Seq(Byte), e \in Seq(Byte)
  <2> QED BY ONLY <1>3, <2>2, <2>3, <2>5
<1>6. CASE ~early
  <2>1. x.tag = GENERALIZED
    <3>1. DateTag(d) = IF early THEN UTCTIME ELSE GENERALIZED
      BY DEF DateTag
    <3> HIDE DEF early
    <3> QED BY <1>1, <1>6, <3>1
  <2>2. time12(f, x) = Cut(f, x.off + 2, 12)
    BY <2>1 DEF time12
  <2>3. PICK a \in Seq(Byte) : a = Pair(century) /\ Len(a) = 2
    <3>1. d[1] >= 2000 /\ d[1] <= 2099 /\ d[1] \in Nat
      BY DateFacts
    <3>2. PICK v \in Nat : v = century /\ v <= 99
      BY <3>1
    <3>3. Pair(v) \in Seq(Byte) /\ Len(Pair(v)) = 2
      BY <3>2, PairIs
    <3> QED BY <3>2, <3>3
  <2>4. Spans(f, x.off, q, (a \o w) \o z)
    <3>1. DateBytes(d) = IF early THEN w \o z ELSE (Pair(century) \o w) \o z
      BY <1>3, <1>4 DEF DateBytes
    <3> HIDE DEF early, century
    <3>2. DateBytes(d) = (a \o w) \o z
      BY ONLY <1>6, <2>3, <3>1
    <3> QED BY ONLY <1>1, <3>2
  <2>5. Cut(f, x.off + Len(a), Len(w)) = w
    BY ONLY f \in Seq(Byte), <1>2, <2>4, SpansPart, w \in Seq(Byte), z \in Seq(Byte), a \in Seq(Byte)
  <2> QED BY ONLY <1>3, <2>2, <2>3, <2>5
<1> QED BY <1>5, <1>6

\* A certificate's dates as they are found.
LEMMA DatesRead ==
  ASSUME NEW f \in Seq(Byte), TwoBytes(Len(f)), NEW c, HoldsIssued(f, c), NEW now, chain_valid_at(f, now)
  PROVE  c \in Certs /\ NotAfter(Twelve(c.from), now) /\ NotAfter(now, Twelve(c.till))
<1>1. PICK C, t : Outer(f, C, t) /\ Spans(f, C.off, After(t), Tbs(c))
  BY DEF HoldsIssued
<1>2. c \in Certs /\ c.from \in Dates /\ c.till \in Dates
  BY IssuedIs, CertFacts DEF HoldsIssued
<1>3. PICK m, d : SignedIs(f, C, t, c, m, d)
  BY <1>1, <1>2, SignedRead
<1>4. der_tbs_field(f, TBS_VALIDITY) = d[4]
  BY <1>2, <1>3, FieldsRead
<1>5. Laid(f, t.off, After(t), c, m, d) /\ t.off \in Nat /\ After(t) \in 0..Len(f)
  BY <1>3 DEF SignedIs
<1>6. m[4] \in Nat /\ m[5] \in 0..Len(f)
  BY <1>5, LaidInOrder
<1> DEFINE v == d[4]
<1> HIDE DEF v
<1>7. ReadAs(f, m[4], m[5], v, SEQ, Validity(c))
  BY <1>5 DEF Laid, v
<1>8. After(v) = m[5] /\ v.off \in Nat /\ Spans(f, v.off, m[5], Validity(c))
  BY <1>6, <1>7, ReadsFacts
<1>9. PICK a, b : a = Dated(c.from) /\ b = Dated(c.till) /\ Encoded(a) /\ Encoded(b) /\ Validity(c) = a \o b
  BY <1>2, EncBody DEF Validity
<1>10. PICK q \in Nat : q >= v.off /\ q <= m[5] /\ q \in 0..Len(f) /\ Spans(f, v.off, q, a) /\ Spans(f, q, m[5], b)
  <2>1. Spans(f, v.off, m[5], a \o b)
    BY <1>8, <1>9
  <2> QED BY <1>6, <1>8, <1>9, <2>1, SpansJoined
<1>11. /\ a = Tlv(1, DateTag(c.from), DateBytes(c.from)) /\ DateTag(c.from) \in Byte /\ Encoded(DateBytes(c.from))
       /\ b = Tlv(1, DateTag(c.till), DateBytes(c.till)) /\ DateTag(c.till) \in Byte /\ Encoded(DateBytes(c.till))
  BY <1>2, <1>9, DatedIs
<1>12. PICK x : ReadAs(f, v.off, q, x, DateTag(c.from), DateBytes(c.from))
  <2>1. 1 \in 1..3
    OBVIOUS
  <2> QED BY <1>8, <1>10, <1>11, <2>1, ReadBack
<1>13. PICK y : ReadAs(f, q, m[5], y, DateTag(c.till), DateBytes(c.till))
  <2>1. 1 \in 1..3
    OBVIOUS
  <2> QED BY <1>6, <1>10, <1>11, <2>1, ReadBack
<1>14. der_elem(f, v.off, m[5]) = x /\ After(x) = q
  <2>1. m[5] \in q..Len(f)
    BY <1>6, <1>10
  <2> QED BY <1>8, <1>10, <1>12, <2>1, ReadsFacts
<1>15. der_elem(f, q, m[5]) = y
  <2>1. m[5] \in m[5]..Len(f)
    BY <1>6
  <2> QED BY <1>6, <1>10, <1>13, <2>1, ReadsFacts
<1>16. dates_hold(f, x, y, now)
  <2>1. valid_at(f, v, now)
    BY <1>4 DEF chain_valid_at, v
  <2>2. dates_hold(f, der_elem(f, v.off, After(v)), der_elem(f, After(der_elem(f, v.off, After(v))), After(v)), now)
    BY Zenon, <2>1 DEF valid_at
  <2> QED BY Zenon, <1>8, <1>14, <1>15, <2>2
<1>17. time12(f, x) # NoTime /\ time12(f, y) # NoTime /\ NotAfter(time12(f, x), now) /\ NotAfter(now, time12(f, y))
  BY <1>16 DEF dates_hold
<1>18. time12(f, x) = Twelve(c.from)
  BY <1>2, <1>12, <1>17, TimeRead
<1>19. time12(f, y) = Twelve(c.till)
  BY <1>2, <1>13, <1>17, TimeRead
<1> QED BY <1>2, <1>17, <1>18, <1>19

\* What a clock that tells the time shows: its six numbers, of two digits each.
Shown(rtc) == <<rtc.yy - 100, rtc.mm, rtc.dd, rtc.hh, rtc.mi, rtc.ss>>

LEMMA ToldNumbers ==
  ASSUME NEW rtc \in Clocks, Told(rtc)
  PROVE  /\ rtc.yy - 100 \in Nat /\ rtc.yy - 100 >= CLOCK_BUILT_YY /\ rtc.yy - 100 <= CLOCK_BUILT_YY + 20
         /\ CLOCK_BUILT_YY \in Nat /\ CLOCK_BUILT_YY <= 79 /\ rtc.yy - 100 <= 99
         /\ rtc.mm \in 1..12 /\ rtc.dd \in 1..31 /\ rtc.hh \in 0..23 /\ rtc.mi \in 0..59 /\ rtc.ss \in 0..60
<1>1. rtc.yy \in 0..255
  BY DEF Clocks, Byte
<1>2. CLOCK_BUILT_YY \in 0..79
  BY SizesAssumption
<1> DEFINE y == rtc.yy
           b == CLOCK_BUILT_YY
<1>3. 1900 + y \in 2000 + b .. 2020 + b
  BY DEF Told
<1>4. y \in 0..255 /\ b \in 0..79
  BY <1>1, <1>2
<1> HIDE DEF y, b
<1>5. y - 100 \in Nat /\ y - 100 >= b /\ y - 100 <= b + 20 /\ b \in Nat /\ b <= 79 /\ y - 100 <= 99
  BY ONLY <1>3, <1>4
<1>6. rtc.mm \in 1..12 /\ rtc.dd \in 1..31 /\ rtc.hh \in 0..23 /\ rtc.mi \in 0..59 /\ rtc.ss \in 0..60
  BY DEF Told
<1> QED BY <1>5, <1>6 DEF y, b

HiOf(v) == 48 + (v \div 10)
LoOf(v) == 48 + (v % 10)

LEMMA TwoIs ==
  ASSUME NEW v \in Nat, v <= 99
  PROVE  two(v) \in Seq(Byte) /\ Len(two(v)) = 2 /\ two(v)[1] = HiOf(v) /\ two(v)[2] = LoOf(v)
<1>1. two(v) = Pair(v)
  BY Zenon DEF two, Pair
<1> QED BY <1>1, PairIs DEF HiOf, LoOf

\* Two digits behind those before.
LEMMA TwoMore ==
  ASSUME NEW s \in Seq(Byte), NEW v \in Nat, v <= 99, NEW k \in Nat, Len(s) = k
  PROVE  /\ s \o two(v) \in Seq(Byte) /\ Len(s \o two(v)) = k + 2
         /\ \A i \in 1..k : (s \o two(v))[i] = s[i]
         /\ (s \o two(v))[k + 1] = HiOf(v) /\ (s \o two(v))[k + 2] = LoOf(v)
<1>1. two(v) \in Seq(Byte) /\ Len(two(v)) = 2 /\ two(v)[1] = HiOf(v) /\ two(v)[2] = LoOf(v)
  BY TwoIs
<1>2. PICK t \in Seq(Byte) : t = two(v)
  BY <1>1
<1>3. /\ s \o t \in Seq(Byte) /\ Len(s \o t) = Len(s) + Len(t)
      /\ \A i \in 1..Len(s) : (s \o t)[i] = s[i]
      /\ \A i \in 1..Len(t) : (s \o t)[Len(s) + i] = t[i]
  BY ONLY s \in Seq(Byte), t \in Seq(Byte), Joined
<1>4. Len(t) = 2 /\ 1 \in 1..Len(t) /\ 2 \in 1..Len(t)
  BY <1>1, <1>2
<1>5. (s \o t)[k + 1] = t[1] /\ (s \o t)[k + 2] = t[2]
  BY ONLY <1>3, <1>4, Len(s) = k
<1> QED BY ONLY <1>1, <1>2, <1>3, <1>4, <1>5, Len(s) = k

LEMMA ClockTwelve ==
  ASSUME NEW n, \A i \in 1..6 : n[i] \in Nat /\ n[i] <= 99
  PROVE  TwelveOf(n, ((((two(n[1]) \o two(n[2])) \o two(n[3])) \o two(n[4])) \o two(n[5])) \o two(n[6]))
<1>1. PICK s1 : s1 = two(n[1])
  OBVIOUS
<1>2. PICK s2 : s2 = s1 \o two(n[2])
  OBVIOUS
<1>3. PICK s3 : s3 = s2 \o two(n[3])
  OBVIOUS
<1>4. PICK s4 : s4 = s3 \o two(n[4])
  OBVIOUS
<1>5. PICK s5 : s5 = s4 \o two(n[5])
  OBVIOUS
<1>6. PICK s6 : s6 = s5 \o two(n[6])
  OBVIOUS
<1>7. n[1] \in Nat /\ n[1] <= 99 /\ n[2] \in Nat /\ n[2] <= 99 /\ n[3] \in Nat /\ n[3] <= 99
      /\ n[4] \in Nat /\ n[4] <= 99 /\ n[5] \in Nat /\ n[5] <= 99 /\ n[6] \in Nat /\ n[6] <= 99
  OBVIOUS
<1> DEFINE Hi(i) == HiOf(n[i])
           Lo(i) == LoOf(n[i])
<1>8. s1 \in Seq(Byte) /\ Len(s1) = 2 /\ s1[1] = Hi(1) /\ s1[2] = Lo(1)
  BY ONLY <1>1, <1>7, TwoIs
<1>9. s2 \in Seq(Byte) /\ Len(s2) = 4 /\ (\A i \in 1..2 : s2[i] = s1[i]) /\ s2[3] = Hi(2) /\ s2[4] = Lo(2)
  <2>1. 2 + 2 = 4 /\ 2 + 1 = 3 /\ 2 \in Nat
    OBVIOUS
  <2>2. /\ s1 \o two(n[2]) \in Seq(Byte) /\ Len(s1 \o two(n[2])) = 2 + 2
        /\ \A i \in 1..2 : (s1 \o two(n[2]))[i] = s1[i]
        /\ (s1 \o two(n[2]))[2 + 1] = HiOf(n[2]) /\ (s1 \o two(n[2]))[2 + 2] = LoOf(n[2])
    BY ONLY <1>7, <1>8, <2>1, TwoMore
  <2> QED BY ONLY <1>2, <2>1, <2>2
<1>10. s3 \in Seq(Byte) /\ Len(s3) = 6 /\ (\A i \in 1..4 : s3[i] = s2[i]) /\ s3[5] = Hi(3) /\ s3[6] = Lo(3)
  <2>1. 4 + 2 = 6 /\ 4 + 1 = 5 /\ 4 \in Nat
    OBVIOUS
  <2>2. /\ s2 \o two(n[3]) \in Seq(Byte) /\ Len(s2 \o two(n[3])) = 4 + 2
        /\ \A i \in 1..4 : (s2 \o two(n[3]))[i] = s2[i]
        /\ (s2 \o two(n[3]))[4 + 1] = HiOf(n[3]) /\ (s2 \o two(n[3]))[4 + 2] = LoOf(n[3])
    BY ONLY <1>7, <1>9, <2>1, TwoMore
  <2> QED BY ONLY <1>3, <2>1, <2>2
<1>11. s4 \in Seq(Byte) /\ Len(s4) = 8 /\ (\A i \in 1..6 : s4[i] = s3[i]) /\ s4[7] = Hi(4) /\ s4[8] = Lo(4)
  <2>1. 6 + 2 = 8 /\ 6 + 1 = 7 /\ 6 \in Nat
    OBVIOUS
  <2>2. /\ s3 \o two(n[4]) \in Seq(Byte) /\ Len(s3 \o two(n[4])) = 6 + 2
        /\ \A i \in 1..6 : (s3 \o two(n[4]))[i] = s3[i]
        /\ (s3 \o two(n[4]))[6 + 1] = HiOf(n[4]) /\ (s3 \o two(n[4]))[6 + 2] = LoOf(n[4])
    BY ONLY <1>7, <1>10, <2>1, TwoMore
  <2> QED BY ONLY <1>4, <2>1, <2>2
<1>12. s5 \in Seq(Byte) /\ Len(s5) = 10 /\ (\A i \in 1..8 : s5[i] = s4[i]) /\ s5[9] = Hi(5) /\ s5[10] = Lo(5)
  <2>1. 8 + 2 = 10 /\ 8 + 1 = 9 /\ 8 \in Nat
    OBVIOUS
  <2>2. /\ s4 \o two(n[5]) \in Seq(Byte) /\ Len(s4 \o two(n[5])) = 8 + 2
        /\ \A i \in 1..8 : (s4 \o two(n[5]))[i] = s4[i]
        /\ (s4 \o two(n[5]))[8 + 1] = HiOf(n[5]) /\ (s4 \o two(n[5]))[8 + 2] = LoOf(n[5])
    BY ONLY <1>7, <1>11, <2>1, TwoMore
  <2> QED BY ONLY <1>5, <2>1, <2>2
<1>13. s6 \in Seq(Byte) /\ Len(s6) = 12 /\ (\A i \in 1..10 : s6[i] = s5[i]) /\ s6[11] = Hi(6) /\ s6[12] = Lo(6)
  <2>1. 10 + 2 = 12 /\ 10 + 1 = 11 /\ 10 \in Nat
    OBVIOUS
  <2>2. /\ s5 \o two(n[6]) \in Seq(Byte) /\ Len(s5 \o two(n[6])) = 10 + 2
        /\ \A i \in 1..10 : (s5 \o two(n[6]))[i] = s5[i]
        /\ (s5 \o two(n[6]))[10 + 1] = HiOf(n[6]) /\ (s5 \o two(n[6]))[10 + 2] = LoOf(n[6])
    BY ONLY <1>7, <1>12, <2>1, TwoMore
  <2> QED BY ONLY <1>6, <2>1, <2>2
<1> HIDE DEF Hi, Lo
<1>14. /\ s6[1] = Hi(1) /\ s6[2] = Lo(1) /\ s6[3] = Hi(2) /\ s6[4] = Lo(2) /\ s6[5] = Hi(3) /\ s6[6] = Lo(3)
       /\ s6[7] = Hi(4) /\ s6[8] = Lo(4) /\ s6[9] = Hi(5) /\ s6[10] = Lo(5) /\ s6[11] = Hi(6) /\ s6[12] = Lo(6)
  BY ONLY <1>8, <1>9, <1>10, <1>11, <1>12, <1>13
<1>15. \A i \in 1..6 : s6[2 * i - 1] = Hi(i) /\ s6[2 * i] = Lo(i)
  <2> SUFFICES ASSUME NEW i \in 1..6 PROVE s6[2 * i - 1] = Hi(i) /\ s6[2 * i] = Lo(i)
    OBVIOUS
  <2>1. CASE i = 1 BY ONLY <1>14, <2>1
  <2>2. CASE i = 2 BY ONLY <1>14, <2>2
  <2>3. CASE i = 3 BY ONLY <1>14, <2>3
  <2>4. CASE i = 4 BY ONLY <1>14, <2>4
  <2>5. CASE i = 5 BY ONLY <1>14, <2>5
  <2>6. CASE i = 6 BY ONLY <1>14, <2>6
  <2> QED BY <2>1, <2>2, <2>3, <2>4, <2>5, <2>6
<1>16. DOMAIN s6 = 1..12
  BY ONLY <1>13
<1>17. TwelveOf(n, s6)
  BY ONLY <1>15, <1>16, \A i \in 1..6 : n[i] \in Nat /\ n[i] <= 99 DEF TwelveOf, Hi, Lo, HiOf, LoOf
<1> QED BY ONLY <1>1, <1>2, <1>3, <1>4, <1>5, <1>6, <1>17

LEMMA ClockRead ==
  ASSUME NEW rtc \in Clocks, Told(rtc)
  PROVE  TwelveOf(Shown(rtc), read_clock(rtc)) /\ read_clock(rtc) # NoTime
<1> DEFINE d == [rtc EXCEPT !.yy = (rtc.yy + 1900) % 100]
           b == CLOCK_BUILT_YY
           y == rtc.yy - 100
<1>1. /\ y \in Nat /\ y >= b /\ y <= b + 20 /\ b \in Nat /\ b <= 79 /\ y <= 99
      /\ rtc.mm \in 1..12 /\ rtc.dd \in 1..31 /\ rtc.hh \in 0..23 /\ rtc.mi \in 0..59 /\ rtc.ss \in 0..60
  BY ToldNumbers
<1>2. (rtc.yy + 1900) % 100 = y
  <2>1. rtc.yy \in 0..255
    BY DEF Clocks, Byte
  <2>2. PICK v \in Nat : v = rtc.yy
    BY <2>1
  <2>3. v - 100 \in Nat /\ v - 100 <= 99
    BY <1>1, <2>2
  <2>4. (v + 1900) % 100 = v - 100
    BY ONLY <2>2, <2>3
  <2> QED BY <2>2, <2>4
<1>3. d.yy = y /\ d.mm = rtc.mm /\ d.dd = rtc.dd /\ d.hh = rtc.hh /\ d.mi = rtc.mi /\ d.ss = rtc.ss
  <2>1. rtc \in [yy : Byte, mm : Byte, dd : Byte, hh : Byte, mi : Byte, ss : Byte]
    BY DEF Clocks
  <2>2. /\ d.yy = (rtc.yy + 1900) % 100 /\ d.mm = rtc.mm /\ d.dd = rtc.dd /\ d.hh = rtc.hh /\ d.mi = rtc.mi /\ d.ss = rtc.ss
    BY <2>1
  <2> QED BY ONLY <1>2, <2>2
<1> DEFINE sum == (b + 20) % 256
<1>4. sum = b + 20
  BY <1>1
<1> HIDE DEF d
<1>5. clock_plausible(d, b)
  <2> HIDE DEF y, b
  <2>1. /\ d.mm \in 1..12 /\ d.dd \in 1..31 /\ d.hh <= 23 /\ d.mi <= 59 /\ d.ss <= 60
        /\ d.yy >= b /\ d.yy <= b + 20
    BY ONLY <1>1, <1>3
  <2>2. ~(sum < b)
    BY ONLY <1>1, <1>4
  <2> HIDE DEF sum
  <2>3. (IF sum < b THEN 99 ELSE sum) = b + 20
    BY ONLY <1>4, <2>2
  <2>4. clock_plausible(d, b) <=>
          /\ d.mm \in 1..12 /\ d.dd \in 1..31 /\ d.hh <= 23 /\ d.mi <= 59 /\ d.ss <= 60
          /\ d.yy >= b /\ d.yy <= (IF sum < b THEN 99 ELSE sum)
    BY DEF clock_plausible, sum
  <2> QED BY ONLY <2>1, <2>3, <2>4
<1>6. read_clock(rtc) = clock_format(d)
  <2>1. read_clock(rtc) = IF clock_plausible(d, b) THEN clock_format(d) ELSE NoTime
    BY Zenon DEF read_clock, d
  <2> QED BY <1>5, <2>1
<1> DEFINE n == Shown(rtc)
<1>7. n[1] = d.yy /\ n[2] = d.mm /\ n[3] = d.dd /\ n[4] = d.hh /\ n[5] = d.mi /\ n[6] = d.ss
  BY <1>3 DEF Shown
<1>8. \A i \in 1..6 : n[i] \in Nat /\ n[i] <= 99
  <2> HIDE DEF n, y, b
  <2>1. /\ n[1] \in Nat /\ n[1] <= 99 /\ n[2] \in Nat /\ n[2] <= 99 /\ n[3] \in Nat /\ n[3] <= 99
        /\ n[4] \in Nat /\ n[4] <= 99 /\ n[5] \in Nat /\ n[5] <= 99 /\ n[6] \in Nat /\ n[6] <= 99
    BY ONLY <1>1, <1>3, <1>7
  <2> SUFFICES ASSUME NEW i \in 1..6 PROVE n[i] \in Nat /\ n[i] <= 99
    OBVIOUS
  <2>2. i = 1 \/ i = 2 \/ i = 3 \/ i = 4 \/ i = 5 \/ i = 6
    OBVIOUS
  <2> QED BY ONLY <2>1, <2>2
<1> HIDE DEF n
<1>9. TwelveOf(n, ((((two(n[1]) \o two(n[2])) \o two(n[3])) \o two(n[4])) \o two(n[5])) \o two(n[6]))
  BY <1>8, ClockTwelve
<1>10. clock_format(d) = ((((two(n[1]) \o two(n[2])) \o two(n[3])) \o two(n[4])) \o two(n[5])) \o two(n[6])
  BY Zenon, <1>7 DEF clock_format
<1>11. TwelveOf(n, read_clock(rtc))
  BY Zenon, <1>6, <1>9, <1>10
<1>12. DOMAIN read_clock(rtc) = 1..12
  BY <1>11 DEF TwelveOf
<1>13. read_clock(rtc) # NoTime
  <2> DEFINE r == read_clock(rtc)
  <2>1. DOMAIN r = 1..12
    BY <1>12
  <2> HIDE DEF r
  <2>2. r # <<>>
    BY <2>1
  <2> QED BY <2>2 DEF NoTime, r
<1> QED BY <1>11, <1>13 DEF n

\* Two times, one a clock's.
LEMMA EarlierShown ==
  ASSUME NEW rtc \in Clocks, Told(rtc), NEW d \in Dates
  PROVE  /\ Earlier(Time(rtc), d) => Before(Shown(rtc), PartsOfDate(d))
         /\ Earlier(d, Time(rtc)) => Before(PartsOfDate(d), Shown(rtc))
<1> DEFINE t == Time(rtc)
           n == Shown(rtc)
           p == PartsOfDate(d)
<1>1. /\ \A i \in 2..6 : t[i] = n[i]
      /\ t[1] = 2000 + n[1] /\ n[1] \in Nat /\ \A i \in 2..6 : n[i] \in Nat
  <2> DEFINE y == rtc.yy
  <2>1. y - 100 \in Nat /\ rtc.mm \in Nat /\ rtc.dd \in Nat /\ rtc.hh \in Nat /\ rtc.mi \in Nat /\ rtc.ss \in Nat /\ y \in Nat
    <3>1. y \in Nat
      BY DEF Clocks, Byte
    <3> QED BY <3>1, ToldNumbers
  <2>2. /\ t = <<1900 + y, rtc.mm, rtc.dd, rtc.hh, rtc.mi, rtc.ss>>
        /\ n = <<y - 100, rtc.mm, rtc.dd, rtc.hh, rtc.mi, rtc.ss>>
    BY DEF Time, Shown
  <2> HIDE DEF t, n, y
  <2>3. /\ t[1] = 1900 + y /\ t[2] = rtc.mm /\ t[3] = rtc.dd /\ t[4] = rtc.hh /\ t[5] = rtc.mi /\ t[6] = rtc.ss
        /\ n[1] = y - 100 /\ n[2] = rtc.mm /\ n[3] = rtc.dd /\ n[4] = rtc.hh /\ n[5] = rtc.mi /\ n[6] = rtc.ss
    BY ONLY <2>2
  <2>4. \A i \in 2..6 : i = 2 \/ i = 3 \/ i = 4 \/ i = 5 \/ i = 6
    OBVIOUS
  <2> QED BY ONLY <2>1, <2>3, <2>4
<1>2. DOMAIN t = 1..6 /\ DOMAIN d = 1..6
  <2>1. Len(d) = 6 /\ d \in Seq(0..2099)
    BY DateFacts DEF Dates
  <2>2. DOMAIN t = 1..6
    BY DEF Time
  <2> QED BY <2>1, <2>2
<1>3. /\ \A i \in 2..6 : d[i] = p[i]
      /\ d[1] = 2000 + p[1] /\ p[1] \in Nat
  <2>1. \A i \in 1..6 : p[i] = Part(d, i)
    BY DEF PartsOfDate
  <2>2. \A i \in 1..6 : Part(d, i) \in Nat /\ (i >= 2 => Part(d, i) = d[i]) /\ (i = 1 => d[1] = 2000 + Part(d, 1))
    BY PartIs
  <2> HIDE DEF p
  <2> QED BY <2>1, <2>2
<1> HIDE DEF t, n, p
<1>4. \A i \in 1..6 : (t[i] < d[i] <=> n[i] < p[i]) /\ (d[i] < t[i] <=> p[i] < n[i]) /\ (t[i] = d[i] <=> n[i] = p[i])
  <2> SUFFICES ASSUME NEW i \in 1..6
               PROVE  (t[i] < d[i] <=> n[i] < p[i]) /\ (d[i] < t[i] <=> p[i] < n[i]) /\ (t[i] = d[i] <=> n[i] = p[i])
    OBVIOUS
  <2>1. CASE i = 1
    BY ONLY <1>1, <1>3, <2>1
  <2>2. CASE i # 1
    <3>1. i \in 2..6
      BY <2>2
    <3> QED BY ONLY <1>1, <1>3, <3>1
  <2> QED BY <2>1, <2>2
<1>5. ASSUME Earlier(t, d) PROVE Before(n, p)
  <2>1. PICK i \in 1..6 : t[i] < d[i] /\ \A j \in 1..i - 1 : t[j] = d[j]
    BY <1>2, <1>5 DEF Earlier
  <2>2. \A j \in 1..i - 1 : n[j] = p[j]
    BY ONLY <1>4, <2>1
  <2> QED BY <1>4, <2>1, <2>2 DEF Before
<1>6. ASSUME Earlier(d, t) PROVE Before(p, n)
  <2>1. PICK i \in 1..6 : d[i] < t[i] /\ \A j \in 1..i - 1 : d[j] = t[j]
    BY <1>2, <1>6 DEF Earlier
  <2>2. \A j \in 1..i - 1 : p[j] = n[j]
    BY ONLY <1>4, <2>1
  <2> QED BY <1>4, <2>1, <2>2 DEF Before
<1> QED BY <1>5, <1>6 DEF t, n, p

\* A certificate whose dates held is in date at a time the clock tells.
LEMMA HeldInDate ==
  ASSUME NEW f \in Seq(Byte), TwoBytes(Len(f)), NEW c, HoldsIssued(f, c), NEW rtc \in Clocks,
         read_clock(rtc) # NoTime => chain_valid_at(f, read_clock(rtc))
  PROVE  InDate(c, rtc)
<1> SUFFICES ASSUME Told(rtc) PROVE ~Earlier(Time(rtc), c.from) /\ ~Earlier(c.till, Time(rtc))
  BY DEF InDate
<1>1. TwelveOf(Shown(rtc), read_clock(rtc)) /\ read_clock(rtc) # NoTime
  BY ClockRead
<1>2. c \in Certs /\ NotAfter(Twelve(c.from), read_clock(rtc)) /\ NotAfter(read_clock(rtc), Twelve(c.till))
  BY <1>1, DatesRead
<1>3. c.from \in Dates /\ c.till \in Dates
  BY <1>2, CertFacts
<1>4. ~Before(Shown(rtc), PartsOfDate(c.from))
  <2>1. TwelveOf(PartsOfDate(c.from), Twelve(c.from))
    BY <1>3, DateTwelve
  <2> QED BY ONLY <1>1, <1>2, <2>1, NotBefore
<1>5. ~Before(PartsOfDate(c.till), Shown(rtc))
  <2>1. TwelveOf(PartsOfDate(c.till), Twelve(c.till))
    BY <1>3, DateTwelve
  <2> QED BY ONLY <1>1, <1>2, <2>1, NotBefore
<1> QED BY <1>3, <1>4, <1>5, EarlierShown

-----------------------------------------------------------------------------
(* Names *)

\* An extension as it is found: its identifier, and what it is said to hold,
\* critical or not.
ExtIs(f, q, x, oid, value) ==
  /\ x.tag = SEQ /\ After(x) = q /\ oid_of(f, x) # Missing
  /\ is_san(f, x) <=> oid = OidSan
  /\ \E p \in Nat, n \in 0..Len(f) :
       ReadAs(f, p, n, AfterBool(f, der_elem(f, After(oid_of(f, x)), After(x)), After(x)), OCTETS, value)

\* How an extension is written.
ExtBody(oid, critical, value) == Short(OID, oid) \o (IF critical THEN Short(BOOL, <<255>>) ELSE <<>>) \o Short(OCTETS, value)

LEMMA SameBytes ==
  ASSUME NEW x \in Seq(Byte), NEW y \in Seq(Byte), Begins(x, y, Len(y))
  PROVE  x = y
<1>1. Len(x) = Len(y) /\ \A i \in 1..Len(y) : x[i] = y[i]
  BY DEF Begins
<1> QED BY ONLY <1>1, x \in Seq(Byte), y \in Seq(Byte)

LEMMA ExtRead ==
  ASSUME NEW f \in Seq(Byte), TwoBytes(Len(f)), NEW p \in Nat, NEW q \in 0..Len(f), NEW form \in 1..3, NEW oid \in Seq(Byte),
         NEW critical \in BOOLEAN, NEW value, Encoded(value), Spans(f, p, q, Extension(form, oid, critical, value))
  PROVE  \E x : ReadAs(f, p, q, x, SEQ, ExtBody(oid, critical, value)) /\ ExtIs(f, q, x, oid, value)
<1> DEFINE crit == IF critical THEN Short(BOOL, <<255>>) ELSE <<>>
           ob == Short(OID, oid)
           vb == Short(OCTETS, value)
<1>1. /\ Encoded(ob) /\ Encoded(crit) /\ Encoded(vb) /\ Encoded(ob \o crit) /\ Encoded((ob \o crit) \o vb)
      /\ Extension(form, oid, critical, value) = Tlv(form, SEQ, (ob \o crit) \o vb)
      /\ ExtBody(oid, critical, value) = (ob \o crit) \o vb
  <2>1. Encoded(ob) /\ Encoded(crit) /\ Encoded(vb) /\ Encoded(ob \o crit) /\ Encoded((ob \o crit) \o vb)
    BY EncExtension
  <2>2. Extension(form, oid, critical, value) = Tlv(form, SEQ, (ob \o crit) \o vb)
    BY Zenon DEF Extension
  <2>3. ExtBody(oid, critical, value) = (ob \o crit) \o vb
    BY Zenon DEF ExtBody
  <2> QED BY <2>1, <2>2, <2>3
<1>2. ob = Tlv(1, OID, oid) /\ vb = Tlv(1, OCTETS, value) /\ (critical => crit = Tlv(1, BOOL, <<255>>)) /\ (~critical => crit = <<>>)
  <2>1. \A tag, s : Short(tag, s) = Tlv(1, tag, s)
    BY DEF Short
  <2> QED BY <2>1
<1>3. SEQ \in Byte /\ OID \in Byte /\ OCTETS \in Byte /\ BOOL \in Byte /\ 1 \in 1..3 /\ Encoded(oid) /\ Encoded(<<255>>)
  <2>1. <<255>> \in Seq(Byte)
    BY EncOne, Numbers
  <2>2. 1 \in 1..3
    OBVIOUS
  <2> QED BY <2>1, <2>2, Tags, EncodedBytes
<1> HIDE DEF crit, ob, vb
<1>4. PICK x : ReadAs(f, p, q, x, SEQ, (ob \o crit) \o vb)
  <2>1. Spans(f, p, q, Tlv(form, SEQ, (ob \o crit) \o vb))
    BY <1>1
  <2> QED BY <1>1, <1>3, <2>1, ReadBack
<1>5. x.tag = SEQ /\ After(x) = q /\ x.off \in Nat /\ Spans(f, x.off, q, (ob \o crit) \o vb) /\ x.off <= q
  <2>1. q \in q..Len(f)
    OBVIOUS
  <2> QED BY <1>4, <2>1, ReadsFacts
<1>6. PICK m2 \in Nat : m2 >= x.off /\ m2 <= q /\ m2 \in 0..Len(f) /\ Spans(f, x.off, m2, ob \o crit) /\ Spans(f, m2, q, vb)
  BY <1>1, <1>5, SpansJoined
<1>7. PICK m1 \in Nat : m1 >= x.off /\ m1 <= m2 /\ m1 \in 0..Len(f) /\ Spans(f, x.off, m1, ob) /\ Spans(f, m1, m2, crit)
  BY <1>1, <1>5, <1>6, SpansJoined
<1>8. PICK o : ReadAs(f, x.off, m1, o, OID, oid)
  BY <1>2, <1>3, <1>5, <1>7, ReadBack
<1>9. /\ der_elem(f, x.off, q) = o /\ o # Missing /\ After(o) = m1 /\ o.tag = OID /\ o.len = Len(oid) /\ o.off \in Nat
      /\ Spans(f, o.off, m1, oid)
  <2>1. q \in m1..Len(f)
    BY <1>6, <1>7
  <2> QED BY <1>5, <1>7, <1>8, <2>1, ReadsFacts
<1>10. oid_of(f, x) = o
  BY <1>5, <1>9 DEF oid_of
<1>11. is_san(f, x) <=> oid = OidSan
  <2>1. OidSan \in Seq(Byte) /\ Len(OidSan) \in Nat
    BY OidBytes
  <2>2. der_oid_is(f, o, OidSan, Len(OidSan)) <=> Begins(oid, OidSan, Len(OidSan))
    <3>1. Len(OidSan) <= Len(OidSan)
      BY <2>1
    <3> QED BY <1>9, <2>1, <3>1, OidTest
  <2>3. Begins(oid, OidSan, Len(OidSan)) => oid = OidSan
    BY <2>1, SameBytes
  <2>4. oid = OidSan => Begins(oid, OidSan, Len(OidSan))
    BY DEF Begins
  <2> QED BY <1>10, <2>2, <2>3, <2>4 DEF is_san
<1>12. PICK v : ReadAs(f, m2, q, v, OCTETS, value)
  BY <1>2, <1>3, <1>6, ReadBack
<1>13. der_elem(f, m2, q) = v /\ v.tag = OCTETS
  <2>1. q \in q..Len(f)
    OBVIOUS
  <2> QED BY <1>6, <1>12, <2>1, ReadsFacts
<1>14. BOOL # OCTETS
  BY DEF BOOL, OCTETS
<1>15. AfterBool(f, der_elem(f, m1, q), q) = v
  <2>1. CASE critical
    <3>1. PICK b : ReadAs(f, m1, m2, b, BOOL, <<255>>)
      BY <1>2, <1>3, <1>6, <1>7, <2>1, ReadBack
    <3>2. der_elem(f, m1, q) = b /\ b.tag = BOOL /\ After(b) = m2
      <4>1. q \in m2..Len(f)
        BY <1>6
      <4> QED BY <1>6, <1>7, <3>1, <4>1, ReadsFacts
    <3> QED BY Zenon, <1>13, <3>2 DEF AfterBool
  <2>2. CASE ~critical
    <3>1. Spans(f, m1, m2, <<>>)
      BY <1>2, <1>7, <2>2
    <3>2. m1 = m2
      <4>1. m1 + Len(<<>>) = m2
        BY <3>1 DEF Spans
      <4>2. Len(<<>>) = 0
        OBVIOUS
      <4> QED BY <4>1, <4>2
    <3> QED BY <1>13, <1>14, <3>2 DEF AfterBool
  <2> QED BY <2>1, <2>2
<1>16. AfterBool(f, der_elem(f, After(oid_of(f, x)), After(x)), After(x)) = v
  BY <1>5, <1>9, <1>10, <1>15
<1>17. ExtIs(f, q, x, oid, value)
  BY <1>5, <1>6, <1>9, <1>10, <1>11, <1>12, <1>16 DEF ExtIs
<1> QED BY <1>1, <1>4, <1>17

\* An extension of a form DER has.
AnExtension(e, oid, value) ==
  \E form \in 1..3, critical \in BOOLEAN :
    oid \in Seq(Byte) /\ Encoded(value) /\ Encoded(e) /\ e = Extension(form, oid, critical, value)

LEMMA AnExtRead ==
  ASSUME NEW f \in Seq(Byte), TwoBytes(Len(f)), NEW p \in Nat, NEW q \in 0..Len(f), NEW e, NEW oid, NEW value,
         AnExtension(e, oid, value), Spans(f, p, q, e)
  PROVE  \E x, s : ReadAs(f, p, q, x, SEQ, s) /\ ExtIs(f, q, x, oid, value)
<1>1. PICK form \in 1..3, critical \in BOOLEAN :
        oid \in Seq(Byte) /\ Encoded(value) /\ e = Extension(form, oid, critical, value)
  BY DEF AnExtension
<1>2. Spans(f, p, q, Extension(form, oid, critical, value))
  BY <1>1
<1>3. PICK x : ReadAs(f, p, q, x, SEQ, ExtBody(oid, critical, value)) /\ ExtIs(f, q, x, oid, value)
  BY <1>1, <1>2, ExtRead
<1> QED BY Zenon, <1>3

\* One extension and no other.
LEMMA OneExt ==
  ASSUME NEW f \in Seq(Byte), TwoBytes(Len(f)), NEW o \in 0..Len(f), NEW q \in 0..Len(f), NEW e, NEW oid, NEW value,
         AnExtension(e, oid, value), Spans(f, o, q, e), NEW i \in DOMAIN Walk(f, o, q)
  PROVE  ExtIs(f, q, Walk(f, o, q)[i], oid, value)
<1> DEFINE w == Walk(f, o, q)
<1>1. o \in Nat /\ q \in q..Len(f)
  OBVIOUS
<1>2. PICK x, s : ReadAs(f, o, q, x, SEQ, s) /\ ExtIs(f, q, x, oid, value)
  BY <1>1, AnExtRead
<1>3. Has(w, 1, x)
  BY <1>1, <1>2, WalkStarts
<1>4. After(x) = q
  BY <1>2 DEF ReadAs
<1>5. 1 + 1 \notin DOMAIN w
  BY <1>3, <1>4, WalkStops
<1>6. w \in Seq(Elem(o, q))
  BY WalkFirst
<1> HIDE DEF w
<1>7. i \in 1..Len(w) /\ Len(w) \in Nat
  BY <1>6 DEF w
<1>8. i = 1
  BY <1>5, <1>6, <1>7
<1> QED BY <1>2, <1>3, <1>8 DEF Has, w

\* Two extensions and no third.
LEMMA TwoExt ==
  ASSUME NEW f \in Seq(Byte), TwoBytes(Len(f)), NEW o \in 0..Len(f), NEW q \in 0..Len(f),
         NEW e1, NEW oid1, NEW value1, AnExtension(e1, oid1, value1),
         NEW e2, NEW oid2, NEW value2, AnExtension(e2, oid2, value2),
         Spans(f, o, q, e1 \o e2), NEW i \in DOMAIN Walk(f, o, q)
  PROVE  \/ \E m \in 0..Len(f) : ExtIs(f, m, Walk(f, o, q)[i], oid1, value1)
         \/ ExtIs(f, q, Walk(f, o, q)[i], oid2, value2)
<1> DEFINE w == Walk(f, o, q)
<1>1. o \in Nat /\ q \in q..Len(f)
  OBVIOUS
<1>2. Encoded(e1) /\ Encoded(e2)
  BY DEF AnExtension
<1>3. PICK m \in Nat : m >= o /\ m <= q /\ m \in 0..Len(f) /\ Spans(f, o, m, e1) /\ Spans(f, m, q, e2)
  BY <1>1, <1>2, SpansJoined
<1>4. PICK x, s : ReadAs(f, o, m, x, SEQ, s) /\ ExtIs(f, m, x, oid1, value1)
  BY <1>1, <1>3, AnExtRead
<1>5. PICK y, r : ReadAs(f, m, q, y, SEQ, r) /\ ExtIs(f, q, y, oid2, value2)
  BY <1>1, <1>3, AnExtRead
<1>6. q \in m..Len(f)
  BY <1>3
<1>7. Has(w, 1, x)
  BY <1>3, <1>4, <1>6, WalkStarts
<1>8. After(x) = m /\ After(y) = q
  BY <1>4, <1>5 DEF ReadAs
<1>9. Has(w, 1 + 1, y)
  BY <1>1, <1>3, <1>5, <1>7, <1>8, WalkGoesOn
<1>10. (1 + 1) + 1 \notin DOMAIN w
  BY <1>8, <1>9, WalkStops
<1>11. w \in Seq(Elem(o, q))
  BY WalkFirst
<1> HIDE DEF w
<1>12. i \in 1..Len(w) /\ Len(w) \in Nat
  BY <1>11 DEF w
<1>13. i = 1 \/ i = 1 + 1
  BY <1>10, <1>11, <1>12
<1>14. CASE i = 1
  BY <1>3, <1>4, <1>7, <1>14 DEF Has, w
<1>15. CASE i = 1 + 1
  BY <1>5, <1>9, <1>15 DEF Has, w
<1> QED BY <1>13, <1>14, <1>15

\* What the extension with the names holds.
SanValue(c) == Tlv(c.form, SEQ, NameList(c.names)[Len(c.names)])

LEMMA TheSan ==
  ASSUME NEW f \in Seq(Byte), TwoBytes(Len(f)), NEW o \in 0..Len(f), NEW q \in 0..Len(f), NEW c \in Certs,
         Spans(f, o, q, ExtAll(c)), NEW i \in DOMAIN Walk(f, o, q), is_san(f, Walk(f, o, q)[i])
  PROVE  c.san # "none" /\ \E m \in 0..Len(f) : ExtIs(f, m, Walk(f, o, q)[i], OidSan, SanValue(c))
<1> DEFINE x == Walk(f, o, q)[i]
           other == Short(SEQ, Short(DNS, <<97>>))
<1>1. OidSan \in Seq(Byte) /\ OidOther \in Seq(Byte) /\ OidSan # OidOther
  BY OidBytes, OidsAssumption
<1>2. AnExtension(SanOf(c), OidSan, SanValue(c))
  <2>1. SanOf(c) = Extension(c.form, OidSan, c.san = "critical", SanValue(c)) /\ (c.san = "critical") \in BOOLEAN
    BY DEF SanOf, SanValue
  <2>2. c.form \in 1..3
    BY CertFacts
  <2>3. Encoded(SanOf(c)) /\ Encoded(SanValue(c))
    BY EncExtensions DEF SanValue
  <2> QED BY <1>1, <2>1, <2>2, <2>3 DEF AnExtension
<1>3. AnExtension(OtherExt, OidOther, other)
  <2>1. OtherExt = Extension(1, OidOther, TRUE, other)
    BY DEF OtherExt
  <2>2. Encoded(other)
    <3>1. Encoded(<<97>>)
      BY EncOne, Numbers
    <3>2. Encoded(Short(DNS, <<97>>))
      BY <3>1, Tags, EncShort
    <3> QED BY <3>2, Tags, EncShort
  <2>3. Encoded(OtherExt) /\ 1 \in 1..3 /\ TRUE \in BOOLEAN
    BY EncExtensions
  <2> HIDE DEF other
  <2> QED BY <1>1, <2>1, <2>2, <2>3 DEF AnExtension
<1> HIDE DEF other
<1>4. \A m : ~ExtIs(f, m, x, OidOther, other)
  BY <1>1 DEF ExtIs
<1>5. CASE c.san = "none"
  <2>1. ExtAll(c) = OtherExt
    BY <1>5 DEF ExtAll
  <2>2. ExtIs(f, q, x, OidOther, other)
    BY <1>3, <2>1, OneExt
  <2> QED BY <1>4, <2>2
<1>6. CASE c.san = "later"
  <2>1. ExtAll(c) = OtherExt \o SanOf(c) /\ c.san # "none"
    BY <1>6 DEF ExtAll
  <2>2. (\E m \in 0..Len(f) : ExtIs(f, m, x, OidOther, other)) \/ ExtIs(f, q, x, OidSan, SanValue(c))
    BY <1>2, <1>3, <2>1, TwoExt
  <2> QED BY <1>4, <2>1, <2>2
<1>7. CASE c.san \notin {"none", "later"}
  <2>1. ExtAll(c) = SanOf(c) \o OtherExt /\ c.san # "none"
    BY <1>7 DEF ExtAll
  <2>2. (\E m \in 0..Len(f) : ExtIs(f, m, x, OidSan, SanValue(c))) \/ ExtIs(f, q, x, OidOther, other)
    BY <1>2, <1>3, <2>1, TwoExt
  <2> QED BY <1>4, <2>1, <2>2
<1> QED BY <1>5, <1>6, <1>7

\* A list's names as far as the k-th, found one after another.
NamedTo(f, o, q, names, k) ==
  \E d : /\ Has(Walk(f, o, q), k + 1, d) /\ After(d) = o + Len(NameList(names)[k])
         /\ k = 0 => d.tag = DNS - 1
         /\ k # 0 => d.tag = DNS /\ d.len = Len(names[k]) /\ Content(f, d) = names[k]

LEMMA ListGrows ==
  ASSUME NEW names \in Seq(Seq(Byte)), NEW k \in Nat, k < Len(names)
  PROVE  /\ NameList(names)[k + 1] = NameList(names)[k] \o Tlv(1, DNS, names[k + 1]) /\ names[k + 1] \in Seq(Byte)
         /\ Encoded(NameList(names)[k]) /\ Encoded(Tlv(1, DNS, names[k + 1]))
<1>1. Len(names) \in Nat /\ k + 1 \in 1..Len(names) /\ k \in 0..Len(names) /\ (k + 1) - 1 = k
  OBVIOUS
<1>2. NameList(names)[k + 1] = NameList(names)[(k + 1) - 1] \o Short(DNS, names[k + 1])
  BY <1>1, NameListIs
<1>3. Short(DNS, names[k + 1]) = Tlv(1, DNS, names[k + 1])
  BY DEF Short
<1>4. names[k + 1] \in Seq(Byte)
  BY <1>1, SeqAt
<1>5. Encoded(NameList(names)[k]) /\ Encoded(Short(DNS, names[k + 1]))
  BY <1>1, EncNames
<1> QED BY <1>1, <1>2, <1>3, <1>4, <1>5

\* A list's beginnings are where it starts.
LEMMA ListSpans ==
  ASSUME NEW f \in Seq(Byte), NEW o \in Nat, NEW q \in 0..Len(f), NEW names \in Seq(Seq(Byte)),
         Spans(f, o, q, NameList(names)[Len(names)])
  PROVE  \A k \in 0..Len(names) : \E m \in 0..q : Spans(f, o, m, NameList(names)[k])
<1> DEFINE n == Len(names)
           T == {j \in Nat : j <= n => \E m \in 0..q : Spans(f, o, m, NameList(names)[n - j])}
<1>1. n \in Nat /\ q \in 0..q /\ Len(f) \in Nat
  OBVIOUS
<1>2. T \in SUBSET Nat /\ 0 \in T
  <2>1. n - 0 = n
    BY <1>1
  <2>2. Spans(f, o, q, NameList(names)[n - 0])
    BY <2>1
  <2> QED BY <1>1, <2>2
<1>3. ASSUME NEW j \in T PROVE j + 1 \in T
  <2> SUFFICES ASSUME j + 1 <= n PROVE \E m \in 0..q : Spans(f, o, m, NameList(names)[n - (j + 1)])
    BY <1>3
  <2>1. PICK k \in Nat : k = n - (j + 1) /\ k + 1 = n - j /\ k < n
    <3>1. j \in Nat /\ n \in Nat
      BY <1>1, <1>3
    <3> HIDE DEF n
    <3> QED BY ONLY <3>1, j + 1 <= n
  <2>2. PICK m \in 0..q : Spans(f, o, m, NameList(names)[k + 1])
    <3>1. j \in Nat /\ j <= n
      BY <1>1, <1>3
    <3> QED BY <1>3, <2>1, <3>1
  <2>3. m \in 0..Len(f)
    BY <1>1
  <2>4. /\ NameList(names)[k + 1] = NameList(names)[k] \o Tlv(1, DNS, names[k + 1])
        /\ Encoded(NameList(names)[k]) /\ Encoded(Tlv(1, DNS, names[k + 1]))
    BY <2>1, ListGrows
  <2>5. Spans(f, o, m, NameList(names)[k] \o Tlv(1, DNS, names[k + 1]))
    BY <2>2, <2>4
  <2>6. PICK p \in Nat : p <= m /\ Spans(f, o, p, NameList(names)[k])
    BY <2>3, <2>4, <2>5, SpansJoined
  <2>7. p \in 0..q
    BY <2>6
  <2> QED BY <2>1, <2>6, <2>7
<1>4. \A j \in Nat : j \in T
  <2> HIDE DEF T
  <2> QED BY <1>2, <1>3, Counted
<1> SUFFICES ASSUME NEW k \in 0..n PROVE \E m \in 0..q : Spans(f, o, m, NameList(names)[k])
  OBVIOUS
<1> HIDE DEF n
<1>5. PICK j \in Nat : j = n - k /\ j <= n /\ n - j = k
  BY <1>1
<1>6. \E m \in 0..q : Spans(f, o, m, NameList(names)[n - j])
  BY <1>4, <1>5
<1> QED BY <1>5, <1>6

\* They are found there, name by name.
LEMMA NamesFound ==
  ASSUME NEW f \in Seq(Byte), TwoBytes(Len(f)), NEW o \in 0..Len(f), NEW q \in 0..Len(f), NEW names \in Seq(Seq(Byte)),
         Spans(f, o, q, NameList(names)[Len(names)])
  PROVE  \A k \in 0..Len(names) : NamedTo(f, o, q, names, k)
<1> DEFINE n == Len(names)
           l == NameList(names)
           T == {k \in Nat : k <= n => NamedTo(f, o, q, names, k)}
<1>1. n \in Nat /\ Len(f) \in Nat /\ o \in Nat /\ q \in Nat
  OBVIOUS
<1>2. \A k \in 0..n : \E m \in 0..q : Spans(f, o, m, l[k])
  BY <1>1, ListSpans
<1>3. 1 \in 1..3 /\ DNS \in Byte /\ DNS - 1 \in Byte
  BY DEF DNS, Byte
<1> HIDE DEF l
<1>4. T \in SUBSET Nat /\ 0 \in T
  <2>1. l[0] = Tlv(1, DNS - 1, <<97>>) /\ Encoded(<<97>>)
    <3>1. l[0] = Short(DNS - 1, <<97>>)
      BY NameListIs DEF l
    <3>2. Encoded(<<97>>)
      BY EncOne, Numbers
    <3> QED BY <3>1, <3>2 DEF Short
  <2>2. PICK m \in 0..q : Spans(f, o, m, l[0])
    BY <1>1, <1>2
  <2>3. m \in 0..Len(f) /\ q \in m..Len(f)
    BY <1>1
  <2>4. PICK d : ReadAs(f, o, m, d, DNS - 1, <<97>>)
    BY <1>1, <1>3, <2>1, <2>2, <2>3, ReadBack
  <2>5. Has(Walk(f, o, q), 1, d)
    BY <2>3, <2>4, WalkStarts
  <2>6. After(d) = m /\ d.tag = DNS - 1
    BY <2>4 DEF ReadAs
  <2>7. m = o + Len(l[0])
    BY <2>2 DEF Spans
  <2>8. NamedTo(f, o, q, names, 0)
    <3>1. 0 + 1 = 1
      OBVIOUS
    <3> QED BY <2>5, <2>6, <2>7, <3>1 DEF NamedTo, l
  <2> QED BY <2>8
<1>5. ASSUME NEW k \in T PROVE k + 1 \in T
  <2> SUFFICES ASSUME k + 1 <= n PROVE NamedTo(f, o, q, names, k + 1)
    BY <1>5
  <2>1. k \in Nat /\ k < n /\ k + 1 \in 0..n /\ k + 1 # 0
    BY <1>1, <1>5
  <2>2. PICK b : Has(Walk(f, o, q), k + 1, b) /\ After(b) = o + Len(l[k])
    <3>1. NamedTo(f, o, q, names, k)
      BY <1>5, <2>1
    <3> QED BY <3>1 DEF NamedTo, l
  <2>3. PICK m \in 0..q : Spans(f, o, m, l[k + 1])
    BY <1>2, <2>1
  <2>4. m \in 0..Len(f) /\ q \in m..Len(f)
    BY <1>1
  <2> DEFINE s == names[k + 1]
  <2>5. l[k + 1] = l[k] \o Tlv(1, DNS, s) /\ s \in Seq(Byte) /\ Encoded(l[k]) /\ Encoded(Tlv(1, DNS, s))
    BY <2>1, ListGrows DEF l
  <2> HIDE DEF s
  <2>6. Spans(f, o, m, l[k] \o Tlv(1, DNS, s))
    BY <2>3, <2>5
  <2>7. PICK p \in Nat : p >= o /\ p <= m /\ p \in 0..Len(f) /\ Spans(f, o, p, l[k]) /\ Spans(f, p, m, Tlv(1, DNS, s))
    BY <1>1, <2>4, <2>5, <2>6, SpansJoined
  <2>8. p = o + Len(l[k]) /\ m = o + Len(l[k + 1])
    BY <2>3, <2>7 DEF Spans
  <2>9. Encoded(s)
    BY <2>5, EncodedBytes
  <2>10. PICK d : ReadAs(f, p, m, d, DNS, s)
    BY <1>3, <2>4, <2>7, <2>9, ReadBack
  <2>11. After(b) = p
    BY <2>2, <2>8
  <2>12. Has(Walk(f, o, q), (k + 1) + 1, d)
    BY <2>2, <2>4, <2>7, <2>10, <2>11, WalkGoesOn
  <2>13. After(d) = m /\ d.tag = DNS /\ d.len = Len(s) /\ Content(f, d) = s
    BY <2>10 DEF ReadAs
  <2> QED BY <2>1, <2>8, <2>12, <2>13 DEF NamedTo, l, s
<1>6. \A k \in Nat : k \in T
  <2> HIDE DEF T
  <2> QED BY <1>4, <1>5, Counted
<1> QED BY <1>1, <1>6

\* A name that is looked at is one of the certificate's.
LEMMA NameIsOne ==
  ASSUME NEW f \in Seq(Byte), TwoBytes(Len(f)), NEW o \in 0..Len(f), NEW q \in 0..Len(f), NEW names \in Seq(Seq(Byte)),
         Spans(f, o, q, NameList(names)[Len(names)]), NEW k \in DOMAIN Walk(f, o, q), Walk(f, o, q)[k].tag = DNS
  PROVE  \E i \in 1..Len(names) : Content(f, Walk(f, o, q)[k]) = names[i] /\ Walk(f, o, q)[k].len = Len(names[i])
<1> DEFINE n == Len(names)
           w == Walk(f, o, q)
<1>1. n \in Nat
  OBVIOUS
<1>2. \A j \in 0..n : NamedTo(f, o, q, names, j)
  BY NamesFound
<1>3. w \in Seq(Elem(o, q))
  BY WalkFirst
<1>4. PICK d : Has(w, n + 1, d) /\ After(d) = o + Len(NameList(names)[n])
  BY <1>1, <1>2 DEF NamedTo
<1>5. After(d) = q
  BY <1>4 DEF Spans
<1>6. (n + 1) + 1 \notin DOMAIN w
  BY <1>4, <1>5, WalkStops
<1>7. k \in Nat /\ k >= 1 /\ k <= n + 1
  <2> HIDE DEF w
  <2>1. DOMAIN w = 1..Len(w) /\ Len(w) \in Nat
    BY <1>3
  <2>2. k \in 1..Len(w)
    BY <2>1 DEF w
  <2>3. ~((n + 1) + 1 <= Len(w))
    BY <1>1, <1>6, <2>1
  <2> QED BY <1>1, <2>1, <2>2, <2>3
<1>8. PICK j \in 0..n : k = j + 1
  <2>1. k - 1 \in 0..n /\ k = (k - 1) + 1
    BY <1>1, <1>7
  <2> QED BY <2>1
<1>9. PICK e : /\ Has(w, j + 1, e)
               /\ j = 0 => e.tag = DNS - 1
               /\ j # 0 => e.tag = DNS /\ e.len = Len(names[j]) /\ Content(f, e) = names[j]
  BY <1>2 DEF NamedTo
<1>10. e = w[k]
  BY <1>8, <1>9 DEF Has
<1>11. j # 0
  <2>1. DNS # DNS - 1
    BY DEF DNS
  <2> QED BY <1>9, <1>10, <2>1
<1> QED BY <1>9, <1>10, <1>11

\* A name's labels with one more byte before them.
DotByte == 46
Longer(b, rest) == IF b = DotByte THEN <<<<>>>> \o rest ELSE <<<<Small(b)>> \o Head(rest)>> \o Tail(rest)

LEMMA LabelsAre ==
  ASSUME NEW name, Len(name) \in Nat
  PROVE  /\ LabelsFrom(name)[Len(name) + 1] = <<<<>>>>
         /\ \A k \in 1..Len(name) : LabelsFrom(name)[k] = Longer(name[k], LabelsFrom(name)[k + 1])
<1> DEFINE n == Len(name)
           none == <<<<>>>>
           D(k) == {q \in 1..n + 1 : q + k > n + 1}
           Body(g, p) == IF p > n THEN none ELSE Longer(name[p], g[p + 1])
           Is(g, k) == g = [p \in D(k) |-> Body(g, p)]
           S == {k \in Nat : \E g : Is(g, k)}
<1>0. n \in Nat
  OBVIOUS
<1>1. 0 \in S
  <2> DEFINE g == [p \in {} |-> <<>>]
  <2>1. D(0) = {}
    BY <1>0
  <2>2. g = [p \in {} |-> Body(g, p)]
    <3> HIDE DEF Body
    <3> QED OBVIOUS
  <2>3. Is(g, 0)
    BY <2>1, <2>2
  <2> HIDE DEF Is, g
  <2> QED BY <2>3
<1>2. ASSUME NEW k \in S PROVE k + 1 \in S
  <2>0. k \in Nat /\ k + 1 \in Nat
    OBVIOUS
  <2>1. PICK g : Is(g, k)
    BY <1>2
  <2> DEFINE h == [p \in D(k + 1) |-> Body(g, p)]
  <2>2. \A p \in D(k) : p \in D(k + 1) /\ h[p] = g[p]
    <3>1. \A p \in D(k) : p \in D(k + 1)
      BY <1>0, <2>0
    <3> HIDE DEF Body, D
    <3> QED BY <2>1, <3>1
  <2>3. \A p \in D(k + 1) : p > n \/ p + 1 \in D(k)
    <3> HIDE DEF n
    <3> QED BY <1>0, <2>0
  <2>4. \A p \in D(k + 1) : Body(h, p) = Body(g, p)
    <3> SUFFICES ASSUME NEW p \in D(k + 1) PROVE Body(h, p) = Body(g, p)
      OBVIOUS
    <3>1. p > n \/ h[p + 1] = g[p + 1]
      <4> HIDE DEF h, D
      <4> QED BY <2>2, <2>3
    <3> HIDE DEF h, D
    <3> QED BY <3>1
  <2>5. Is(h, k + 1)
    <3>1. h = [p \in D(k + 1) |-> Body(g, p)]
      OBVIOUS
    <3> HIDE DEF Body, h, D
    <3>2. [p \in D(k + 1) |-> Body(g, p)] = [p \in D(k + 1) |-> Body(h, p)]
      BY <2>4
    <3> QED BY <3>1, <3>2
  <2> HIDE DEF Is, h
  <2> QED BY <2>0, <2>5
<1>3. \E g : Is(g, n + 1)
  <2>0. S \in SUBSET Nat /\ n + 1 \in Nat
    BY <1>0
  <2> HIDE DEF Is
  <2>1. n + 1 \in S
    <3> HIDE DEF S, n
    <3> QED BY <1>1, <1>2, <2>0, Counted
  <2> QED BY <2>1
<1>4. D(n + 1) = 1..n + 1
  BY <1>0
<1>5. \E g : g = [p \in 1..n + 1 |-> Body(g, p)]
  <2> HIDE DEF D, Body
  <2> QED BY <1>3, <1>4
<1>6. LabelsFrom(name) = CHOOSE g : g = [p \in 1..n + 1 |-> Body(g, p)]
  BY Zenon DEF LabelsFrom, Longer, DotByte
<1> HIDE DEF Body
<1>7. LabelsFrom(name) = [p \in 1..n + 1 |-> Body(LabelsFrom(name), p)]
  BY <1>5, <1>6
<1>8. \A p \in 1..n + 1 : LabelsFrom(name)[p] = Body(LabelsFrom(name), p)
  BY <1>7
<1>9. n + 1 \in 1..n + 1 /\ n + 1 > n /\ \A k \in 1..n : k \in 1..n + 1 /\ ~(k > n)
  BY <1>0
<1> HIDE DEF n, none
<1>10. LabelsFrom(name)[n + 1] = none
  BY <1>8, <1>9 DEF Body
<1>11. \A k \in 1..n : LabelsFrom(name)[k] = Longer(name[k], LabelsFrom(name)[k + 1])
  BY <1>8, <1>9 DEF Body
<1> QED BY <1>10, <1>11 DEF n, none

LabelLists == {r \in Seq(Seq(Byte)) : r # <<>>}

LEMMA SmallIs ==
  ASSUME NEW b \in Byte
  PROVE  Small(b) \in Byte /\ (Small(b) = DotByte <=> b = DotByte)
BY DEF Small, Byte, DotByte

\* A dot begins a label, another byte lengthens the first.
LEMMA LongerIs ==
  ASSUME NEW b \in Byte, NEW r \in LabelLists
  PROVE  /\ Longer(b, r) \in LabelLists
         /\ b = DotByte => /\ Len(Longer(b, r)) = Len(r) + 1 /\ Longer(b, r)[1] = <<>>
                           /\ \A i \in 1..Len(r) : Longer(b, r)[i + 1] = r[i]
         /\ b # DotByte => /\ Len(Longer(b, r)) = Len(r) /\ Longer(b, r)[1] = <<Small(b)>> \o r[1]
                           /\ \A i \in 2..Len(r) : Longer(b, r)[i] = r[i]
<1>1. r \in Seq(Seq(Byte)) /\ Len(r) \in Nat /\ Len(r) >= 1 /\ r[1] \in Seq(Byte) /\ Head(r) = r[1]
  BY SeqAt DEF LabelLists
<1>2. CASE b = DotByte
  <2>1. Longer(b, r) = <<<<>>>> \o r
    BY Zenon, <1>2 DEF Longer
  <2>2. PICK e \in Seq(Byte) : e = <<>>
    BY EncEmpty
  <2>3. /\ <<e>> \o r \in Seq(Seq(Byte)) /\ Len(<<e>> \o r) = Len(r) + 1 /\ <<e>> \o r # <<>> /\ (<<e>> \o r)[1] = e
        /\ \A k \in 1..Len(r) : (<<e>> \o r)[k + 1] = r[k]
    BY <1>1, Prepended
  <2> QED BY <1>2, <2>1, <2>2, <2>3 DEF LabelLists
<1>3. CASE b # DotByte
  <2> DEFINE c == <<Small(b)>> \o Head(r)
             t == Tail(r)
  <2>1. Longer(b, r) = <<c>> \o t
    BY Zenon, <1>3 DEF Longer
  <2>2. c \in Seq(Byte) /\ c = <<Small(b)>> \o r[1]
    <3>1. <<Small(b)>> \in Seq(Byte)
      BY SmallIs, EncOne
    <3>2. <<Small(b)>> \o r[1] \in Seq(Byte)
      BY <1>1, <3>1, Joined
    <3> QED BY <1>1, <3>2
  <2>3. t \in Seq(Seq(Byte)) /\ Len(t) = Len(r) - 1 /\ \A k \in 1..Len(t) : t[k] = r[k + 1]
    BY <1>1
  <2> HIDE DEF c, t
  <2>4. /\ <<c>> \o t \in Seq(Seq(Byte)) /\ Len(<<c>> \o t) = Len(t) + 1 /\ <<c>> \o t # <<>> /\ (<<c>> \o t)[1] = c
        /\ \A k \in 1..Len(t) : (<<c>> \o t)[k + 1] = t[k]
    BY <2>2, <2>3, Prepended
  <2>5. \A i \in 2..Len(r) : (<<c>> \o t)[i] = r[i]
    <3> SUFFICES ASSUME NEW i \in 2..Len(r) PROVE (<<c>> \o t)[i] = r[i]
      OBVIOUS
    <3>1. PICK k \in 1..Len(t) : i = k + 1
      <4>1. i - 1 \in 1..Len(t) /\ i = (i - 1) + 1
        BY <1>1, <2>3
      <4> QED BY <4>1
    <3> QED BY <2>3, <2>4, <3>1
  <2>6. Len(<<c>> \o t) = Len(r)
    BY <1>1, <2>3, <2>4
  <2> QED BY <1>3, <2>1, <2>2, <2>4, <2>5, <2>6 DEF LabelLists
<1> QED BY <1>2, <1>3

\* Names whose ends are the same have the same labels from there on.
SameFrom(a, b, i, j, n) ==
  /\ i \in Nat /\ j \in Nat /\ i >= 1 /\ j >= 1 /\ i + n = Len(a) + 1 /\ j + n = Len(b) + 1
  /\ \A k \in 0..n - 1 : Small(a[i + k]) = Small(b[j + k])

LEMMA LongerSame ==
  ASSUME NEW b \in Byte, NEW c \in Byte, Small(b) = Small(c), NEW r
  PROVE  Longer(b, r) = Longer(c, r)
<1>1. b = DotByte <=> c = DotByte
  BY SmallIs
<1> QED BY Zenon, <1>1 DEF Longer

LEMMA LabelsEqual ==
  ASSUME NEW a \in Seq(Byte), NEW b \in Seq(Byte), NEW i, NEW j, NEW n \in Nat, SameFrom(a, b, i, j, n)
  PROVE  LabelsFrom(a)[i] = LabelsFrom(b)[j]
<1> DEFINE Is(m) == LabelsFrom(a)[(i + n) - m] = LabelsFrom(b)[(j + n) - m]
           T == {m \in Nat : m <= n => Is(m)}
<1>1. /\ i \in Nat /\ j \in Nat /\ i >= 1 /\ j >= 1 /\ i + n = Len(a) + 1 /\ j + n = Len(b) + 1 /\ Len(a) \in Nat /\ Len(b) \in Nat
      /\ \A k \in 0..n - 1 : Small(a[i + k]) = Small(b[j + k])
  BY DEF SameFrom
<1>2. T \in SUBSET Nat /\ 0 \in T
  <2>1. (i + n) - 0 = Len(a) + 1 /\ (j + n) - 0 = Len(b) + 1
    BY <1>1
  <2>2. LabelsFrom(a)[Len(a) + 1] = <<<<>>>> /\ LabelsFrom(b)[Len(b) + 1] = <<<<>>>>
    BY <1>1, LabelsAre
  <2>3. Is(0)
    BY <2>1, <2>2
  <2> HIDE DEF Is
  <2> QED BY <2>3
<1>3. ASSUME NEW m \in T PROVE m + 1 \in T
  <2> SUFFICES ASSUME m + 1 <= n PROVE Is(m + 1)
    BY <1>3
  <2>1. m \in Nat /\ Is(m)
    <3> HIDE DEF Is
    <3>1. m \in Nat
      OBVIOUS
    <3> QED BY <3>1
  <2>2. PICK k \in 0..n - 1 : k = n - (m + 1)
    BY <2>1
  <2>3. PICK p \in 1..Len(a) : p = i + k /\ p = (i + n) - (m + 1) /\ p + 1 = (i + n) - m
    BY <1>1, <2>1, <2>2
  <2>4. PICK q \in 1..Len(b) : q = j + k /\ q = (j + n) - (m + 1) /\ q + 1 = (j + n) - m
    BY <1>1, <2>1, <2>2
  <2>5. Small(a[p]) = Small(b[q])
    BY <1>1, <2>2, <2>3, <2>4
  <2>6. a[p] \in Byte /\ b[q] \in Byte
    BY <2>3, <2>4, SeqAt
  <2>7. LabelsFrom(a)[p + 1] = LabelsFrom(b)[q + 1]
    BY <2>1, <2>3, <2>4
  <2>8. LabelsFrom(a)[p] = Longer(a[p], LabelsFrom(a)[p + 1]) /\ LabelsFrom(b)[q] = Longer(b[q], LabelsFrom(b)[q + 1])
    BY <1>1, LabelsAre
  <2>9. LabelsFrom(a)[p] = LabelsFrom(b)[q]
    BY <2>5, <2>6, <2>7, <2>8, LongerSame
  <2> QED BY <2>3, <2>4, <2>9
<1>4. n \in T
  <2> HIDE DEF T
  <2>1. \A m \in Nat : m \in T
    BY <1>2, <1>3, Counted
  <2> QED BY <2>1
<1>5. Is(n)
  <2> HIDE DEF Is
  <2> QED BY <1>4
<1>6. (i + n) - n = i /\ (j + n) - n = j
  BY <1>1
<1> QED BY <1>5, <1>6

\* A name's labels, from any byte on, are lists of at least one.
LEMMA LabelsType ==
  ASSUME NEW a \in Seq(Byte)
  PROVE  \A i \in 1..Len(a) + 1 : LabelsFrom(a)[i] \in LabelLists
<1> DEFINE n == Len(a) + 1
           T == {m \in Nat : m < n => LabelsFrom(a)[n - m] \in LabelLists}
<1>1. Len(a) \in Nat
  OBVIOUS
<1>2. T \in SUBSET Nat /\ 0 \in T
  <2>1. LabelsFrom(a)[n] = <<<<>>>> /\ n - 0 = n
    BY <1>1, LabelsAre
  <2>2. PICK e \in Seq(Byte) : e = <<>>
    BY EncEmpty
  <2>3. <<e>> \in LabelLists
    BY DEF LabelLists
  <2> HIDE DEF n
  <2> QED BY <2>1, <2>2, <2>3
<1>3. ASSUME NEW m \in T PROVE m + 1 \in T
  <2> SUFFICES ASSUME m + 1 < n PROVE LabelsFrom(a)[n - (m + 1)] \in LabelLists
    BY <1>3
  <2>1. PICK p \in 1..Len(a) : p = n - (m + 1) /\ p + 1 = n - m
    <3>1. m \in Nat
      BY <1>3
    <3>2. PICK l \in Nat : l = Len(a)
      BY <1>1
    <3>3. m + 1 < l + 1
      BY <3>2
    <3>4. (l + 1) - (m + 1) \in 1..l /\ ((l + 1) - (m + 1)) + 1 = (l + 1) - m
      BY ONLY <3>1, <3>2, <3>3
    <3> QED BY <3>2, <3>4
  <2>2. LabelsFrom(a)[p + 1] \in LabelLists
    <3>1. m \in Nat /\ m < n
      BY <1>1, <1>3
    <3>2. LabelsFrom(a)[n - m] \in LabelLists
      BY <1>3, <3>1
    <3> QED BY <2>1, <3>2
  <2>3. LabelsFrom(a)[p] = Longer(a[p], LabelsFrom(a)[p + 1]) /\ a[p] \in Byte
    BY <1>1, LabelsAre, SeqAt
  <2> QED BY <2>1, <2>2, <2>3, LongerIs
<1>4. \A m \in Nat : m \in T
  <2> HIDE DEF T
  <2> QED BY <1>2, <1>3, Counted
<1> SUFFICES ASSUME NEW i \in 1..n PROVE LabelsFrom(a)[i] \in LabelLists
  OBVIOUS
<1>5. n \in Nat
  BY <1>1
<1> HIDE DEF n
<1>6. PICK m \in Nat : m = n - i /\ m < n /\ n - m = i
  BY <1>5
<1> QED BY <1>4, <1>6

\* Labels in the same places but the first.
SameRest(r, s) == Len(r) = Len(s) /\ \A k \in 2..Len(r) : r[k] = s[k]

\* Bytes that are no dot only lengthen the first label.
LEMMA FirstGrows ==
  ASSUME NEW h \in Seq(Byte), NEW i \in 1..Len(h), \A j \in 1..i - 1 : h[j] # DotByte
  PROVE  SameRest(LabelsFrom(h)[1], LabelsFrom(h)[i])
<1> DEFINE T == {m \in Nat : m < i => SameRest(LabelsFrom(h)[i - m], LabelsFrom(h)[i])}
<1>1. Len(h) \in Nat /\ i \in Nat /\ i >= 1
  OBVIOUS
<1>2. T \in SUBSET Nat /\ 0 \in T
  <2>1. SameRest(LabelsFrom(h)[i], LabelsFrom(h)[i])
    BY DEF SameRest
  <2>2. i - 0 = i
    BY <1>1
  <2> QED BY <2>1, <2>2
<1>3. ASSUME NEW m \in T PROVE m + 1 \in T
  <2> SUFFICES ASSUME m + 1 < i PROVE SameRest(LabelsFrom(h)[i - (m + 1)], LabelsFrom(h)[i])
    BY <1>3
  <2>1. m \in Nat /\ SameRest(LabelsFrom(h)[i - m], LabelsFrom(h)[i])
    <3>1. m \in Nat
      OBVIOUS
    <3>2. m < i
      BY <1>1, <3>1
    <3> QED BY <3>1, <3>2
  <2>2. PICK p \in 1..i - 1 : p = i - (m + 1) /\ p + 1 = i - m
    BY <1>1, <2>1
  <2>3. p \in 1..Len(h) /\ p + 1 \in 1..Len(h) + 1
    BY <1>1, <2>2
  <2>4. LabelsFrom(h)[p] = Longer(h[p], LabelsFrom(h)[p + 1]) /\ h[p] \in Byte /\ h[p] # DotByte
    BY <1>1, <2>2, <2>3, LabelsAre, SeqAt
  <2>5. LabelsFrom(h)[p + 1] \in LabelLists
    BY <2>3, LabelsType
  <2> DEFINE r == LabelsFrom(h)[p + 1]
             s == LabelsFrom(h)[i]
  <2>6. SameRest(r, s)
    BY <2>1, <2>2
  <2>7. Len(Longer(h[p], r)) = Len(r) /\ \A k \in 2..Len(r) : Longer(h[p], r)[k] = r[k]
    BY <2>4, <2>5, LongerIs
  <2> HIDE DEF r, s
  <2>8. SameRest(Longer(h[p], r), s)
    BY <2>6, <2>7 DEF SameRest
  <2> QED BY <2>2, <2>4, <2>8 DEF r, s
<1>4. \A m \in Nat : m \in T
  <2> HIDE DEF T
  <2> QED BY <1>2, <1>3, Counted
<1>5. i - 1 \in Nat /\ i - 1 < i /\ i - (i - 1) = 1
  BY <1>1
<1>6. SameRest(LabelsFrom(h)[i - (i - 1)], LabelsFrom(h)[i])
  BY <1>4, <1>5
<1> QED BY <1>5, <1>6

LEMMA SameSmall ==
  ASSUME NEW a, NEW b, SameName(a, b)
  PROVE  Len(a) = Len(b) /\ \A i \in DOMAIN a : Small(a[i]) = Small(b[i])
<1>1. \A x : LowerCase(x) = Small(x)
  BY DEF LowerCase, Small
<1> QED BY <1>1 DEF SameName

\* A name that matches covers the host: label by label the same but for the
\* case of letters, a star for the first label and for no more (dns_matches in
\* src/src/tls/policy.c).
THEOREM MatchCovers ==
  ASSUME NEW name \in Seq(Byte), NEW host \in Seq(Byte), Len(name) <= DNS_CAP, dns_matches(name, host)
  PROVE  Covers(name, host)
<1> DEFINE wild == Len(name) >= 2 /\ name[1] = STAR /\ name[2] = DOT
           n == Labels(name)
           h == Labels(host)
<1>1. Len(name) \in Nat /\ Len(host) \in Nat
  OBVIOUS
<1>2. n = LabelsFrom(name)[1] /\ h = LabelsFrom(host)[1] /\ n \in LabelLists /\ h \in LabelLists
  <2>1. 1 \in 1..Len(name) + 1 /\ 1 \in 1..Len(host) + 1
    BY <1>1
  <2> QED BY <2>1, LabelsType DEF Labels
<1>3. DOT = DotByte /\ STAR # DotByte /\ STAR \in Byte /\ Small(STAR) = STAR /\ DotByte \in Byte
  BY DEF DOT, DotByte, STAR, Small, Byte
<1>4. STAR = 42
  BY DEF STAR
<1>5. CASE wild
  <2>1. PICK i \in DOMAIN host : /\ host[i] = DOT /\ \A j \in 1..i - 1 : host[j] # DOT
                                 /\ SameName(SubSeq(name, 2, Len(name)), SubSeq(host, i, Len(host)))
    BY <1>5 DEF dns_matches
  <2>2. i \in 1..Len(host) /\ i \in Nat
    OBVIOUS
  <2>3. PICK m \in Nat : m = Len(name) - 1 /\ m >= 1
    BY <1>1, <1>5
  <2>4. PICK l \in Nat : l = (Len(host) - i) + 1
    BY <1>1, <2>2
  <2>5. PICK p \in Nat : p = i - 1
    BY <2>2
  <2> DEFINE x == SubSeq(name, 2, Len(name))
             y == SubSeq(host, i, Len(host))
  <2>6. x \in Seq(Byte) /\ Len(x) = m /\ \A k \in 1..m : x[k] = name[1 + k]
    <3>1. 1 + 1 = 2 /\ 1 + m = Len(name) /\ 1 \in Nat /\ 1 + m <= Len(name)
      BY <1>1, <2>3
    <3>2. Cut(name, 1, m) = x
      BY Zenon, <3>1 DEF Cut
    <3>3. Cut(name, 1, m) \in Seq(Byte) /\ Len(Cut(name, 1, m)) = m /\ \A k \in 1..m : Cut(name, 1, m)[k] = name[1 + k]
      BY ONLY name \in Seq(Byte), m \in Nat, <3>1, CutIs
    <3> HIDE DEF x
    <3> QED BY ONLY <3>2, <3>3
  <2>7. y \in Seq(Byte) /\ Len(y) = l /\ \A k \in 1..l : y[k] = host[p + k]
    <3>1. p + 1 = i /\ p + l = Len(host) /\ p + l <= Len(host)
      <4>1. PICK t \in Nat : t = Len(host)
        BY ONLY <1>1
      <4>2. p + 1 = i /\ p + l = t
        BY ONLY <2>2, <2>4, <2>5, <4>1, l \in Nat, p \in Nat, t \in Nat
      <4> QED BY ONLY <4>1, <4>2, t \in Nat
    <3>2. Cut(host, p, l) = y
      BY Zenon, <3>1 DEF Cut
    <3>3. Cut(host, p, l) \in Seq(Byte) /\ Len(Cut(host, p, l)) = l /\ \A k \in 1..l : Cut(host, p, l)[k] = host[p + k]
      BY ONLY host \in Seq(Byte), l \in Nat, p \in Nat, <3>1, CutIs
    <3> HIDE DEF y
    <3> QED BY ONLY <3>2, <3>3
  <2>8. Len(x) = Len(y) /\ \A k \in DOMAIN x : Small(x[k]) = Small(y[k])
    BY <2>1, SameSmall
  <2> HIDE DEF x, y
  <2>9. l = m /\ \A k \in 1..m : Small(name[1 + k]) = Small(host[p + k])
    BY <2>6, <2>7, <2>8
  <2>10. SameFrom(name, host, 2, i, m)
    <3>1. \A k \in 0..m - 1 : Small(name[2 + k]) = Small(host[i + k])
      <4> SUFFICES ASSUME NEW k \in 0..m - 1 PROVE Small(name[2 + k]) = Small(host[i + k])
        OBVIOUS
      <4>1. PICK j \in 1..m : j = k + 1 /\ 1 + j = 2 + k /\ p + j = i + k
        <5>1. k + 1 \in 1..m /\ 1 + (k + 1) = 2 + k /\ p + (k + 1) = i + k
          BY <2>2, <2>3, <2>5
        <5> QED BY ONLY <5>1
      <4>2. Small(name[1 + j]) = Small(host[p + j])
        BY ONLY <2>9, j \in 1..m
      <4> QED BY ONLY <4>1, <4>2
    <3>2. 2 + m = Len(name) + 1 /\ i + m = Len(host) + 1 /\ i >= 1 /\ 2 \in Nat /\ 2 >= 1
      BY <1>1, <2>2, <2>3, <2>4, <2>9
    <3> QED BY <2>2, <3>1, <3>2 DEF SameFrom
  <2> DEFINE r == LabelsFrom(name)[2]
  <2>11. r = LabelsFrom(host)[i]
    BY <2>10, LabelsEqual
  <2>12. r \in LabelLists /\ LabelsFrom(name)[3] \in LabelLists /\ r = Longer(name[2], LabelsFrom(name)[3]) /\ n = Longer(name[1], r)
    <3>1. 2 \in 1..Len(name) + 1 /\ 3 \in 1..Len(name) + 1 /\ 1 \in 1..Len(name) /\ 2 \in 1..Len(name) /\ 2 + 1 = 3 /\ 1 + 1 = 2
      BY <1>1, <2>3
    <3>2. \A k \in 1..Len(name) : LabelsFrom(name)[k] = Longer(name[k], LabelsFrom(name)[k + 1])
      BY <1>1, LabelsAre
    <3>3. LabelsFrom(name)[2] = Longer(name[2], LabelsFrom(name)[2 + 1]) /\ LabelsFrom(name)[1] = Longer(name[1], LabelsFrom(name)[1 + 1])
      BY <3>1, <3>2
    <3> QED BY <1>2, <3>1, <3>3, LabelsType
  <2>13. name[1] = STAR /\ name[2] = DotByte
    BY <1>3, <1>5
  <2> DEFINE q == LabelsFrom(name)[3]
  <2> HIDE DEF r, q, n, h
  <2>14. q \in LabelLists /\ r = Longer(DotByte, q) /\ n = Longer(STAR, r) /\ r \in LabelLists
    BY <2>12, <2>13 DEF q
  <2>15. Len(r) = Len(q) + 1 /\ r[1] = <<>>
    BY ONLY <1>3, <2>14, LongerIs
  <2>16. Len(n) = Len(r) /\ n[1] = <<Small(STAR)>> \o r[1] /\ \A k \in 2..Len(r) : n[k] = r[k]
    BY ONLY <1>3, <2>14, LongerIs
  <2>17. n[1] = <<STAR>>
    <3>1. PICK s \in Seq(Byte) : s = <<STAR>>
      BY <1>3, EncOne
    <3>2. s \o <<>> = s
      BY ONLY s \in Seq(Byte)
    <3> QED BY ONLY <1>3, <2>15, <2>16, <3>1, <3>2
  <2>18. SameRest(h, r)
    <3>1. \A j \in 1..i - 1 : host[j] # DotByte
      BY <1>3, <2>1
    <3> QED BY <1>2, <2>2, <2>11, <3>1, FirstGrows
  <2>19. Len(r) \in Nat /\ Len(r) >= 2 /\ Len(h) = Len(r) /\ \A k \in 2..Len(r) : h[k] = r[k]
    <3>1. Len(q) \in Nat /\ Len(q) >= 1
      BY <2>14 DEF LabelLists
    <3> QED BY <2>15, <2>18, <3>1 DEF SameRest
  <2>20. \A k \in DOMAIN n : n[k] = h[k] \/ (k = 1 /\ n[1] = <<STAR>> /\ Len(n) > 1)
    <3>1. DOMAIN n = 1..Len(r)
      BY <1>2, <2>16 DEF LabelLists
    <3>2. n[1] = <<STAR>> /\ Len(n) > 1
      <4>1. Len(n) = Len(r) /\ Len(r) \in Nat /\ Len(r) >= 2
        BY ONLY Zenon, <2>16, <2>19
      <4>2. Len(n) > 1
        BY ONLY <4>1
      <4> QED BY ONLY Zenon, <2>17, <4>2
    <3>3. ASSUME NEW k \in 1..Len(r), k # 1 PROVE n[k] = h[k]
      <4>1. k \in 2..Len(r)
        BY ONLY <2>19, <3>3
      <4> QED BY ONLY <2>16, <2>19, <4>1
    <3> QED BY ONLY <3>1, <3>2, <3>3
  <2>21. Len(n) = Len(h)
    BY <2>16, <2>19
  <2> QED BY <1>4, <2>20, <2>21 DEF Covers, n, h
<1>6. CASE ~wild
  <2>1. SameName(name, host)
    BY <1>6 DEF dns_matches
  <2>2. Len(name) = Len(host) /\ \A i \in DOMAIN name : Small(name[i]) = Small(host[i])
    BY <2>1, SameSmall
  <2>3. SameFrom(name, host, 1, 1, Len(name))
    <3>1. \A k \in 0..Len(name) - 1 : Small(name[1 + k]) = Small(host[1 + k])
      <4> SUFFICES ASSUME NEW k \in 0..Len(name) - 1 PROVE Small(name[1 + k]) = Small(host[1 + k])
        OBVIOUS
      <4>1. 1 + k \in DOMAIN name
        <5>1. 1 + k \in 1..Len(name)
          BY <1>1
        <5> QED BY ONLY <5>1, name \in Seq(Byte)
      <4> QED BY ONLY <2>2, <4>1
    <3> QED BY <1>1, <2>2, <3>1 DEF SameFrom
  <2>4. n = h
    BY <1>1, <1>2, <2>3, LabelsEqual
  <2> HIDE DEF n, h
  <2> QED BY <2>4 DEF Covers, n, h
<1> QED BY <1>5, <1>6

\* A name among those a list holds that matches is one that covers.
LEMMA ListCovers ==
  ASSUME NEW f \in Seq(Byte), TwoBytes(Len(f)), NEW o \in 0..Len(f), NEW q \in 0..Len(f), NEW names \in Seq(Seq(Byte)),
         Spans(f, o, q, NameList(names)[Len(names)]), NEW host \in Seq(Byte), AnyMatches(f, Walk(f, o, q), host)
  PROVE  \E i \in DOMAIN names : Covers(names[i], host)
<1> DEFINE w == Walk(f, o, q)
<1>1. PICK k \in DOMAIN w : w[k].tag = DNS /\ w[k].len \in 1..DNS_CAP /\ dns_matches(Content(f, w[k]), host)
  BY DEF AnyMatches
<1>2. PICK i \in 1..Len(names) : Content(f, w[k]) = names[i] /\ w[k].len = Len(names[i])
  BY <1>1, NameIsOne
<1> HIDE DEF w
<1>3. names[i] \in Seq(Byte) /\ i \in DOMAIN names
  BY <1>2, SeqAt
<1>4. Len(names[i]) <= DNS_CAP /\ dns_matches(names[i], host)
  <2>1. DNS_CAP \in Nat
    BY SizesAssumption
  <2>2. Len(names[i]) \in 1..DNS_CAP
    BY <1>1, <1>2
  <2> QED BY <1>1, <1>2, <2>1, <2>2
<1>5. Covers(names[i], host)
  BY <1>3, <1>4, MatchCovers
<1> QED BY <1>3, <1>5

\* A value that was read as the extension with the names.
LEMMA SanCovers ==
  ASSUME NEW f \in Seq(Byte), TwoBytes(Len(f)), NEW p \in Nat, NEW n \in 0..Len(f), NEW v, NEW c \in Certs,
         ReadAs(f, p, n, v, OCTETS, SanValue(c)), NEW host \in Seq(Byte), san_matches(f, v, host)
  PROVE  \E i \in DOMAIN c.names : Covers(c.names[i], host)
<1> DEFINE list == der_elem(f, v.off, After(v))
           l == NameList(c.names)[Len(c.names)]
<1>1. AnyMatches(f, Walk(f, list.off, After(list)), host)
  BY DEF san_matches
<1>2. v \in Elem(p, n) /\ After(v) = n /\ Spans(f, v.off, n, SanValue(c))
  BY DEF ReadAs
<1>3. v.off \in Nat /\ n \in n..Len(f)
  BY <1>2, ElemFacts
<1>4. SanValue(c) = Tlv(c.form, SEQ, l) /\ Encoded(l) /\ c.form \in 1..3 /\ SEQ \in Byte /\ c.names \in Seq(Seq(Byte))
  BY EncExtensions, CertFacts, Tags DEF SanValue
<1> HIDE DEF l
<1>5. PICK d : ReadAs(f, v.off, n, d, SEQ, l)
  BY <1>2, <1>3, <1>4, ReadBack
<1>6. list = d
  BY <1>2, <1>3, <1>5 DEF ReadAs
<1>7. d \in Elem(v.off, n) /\ After(d) = n /\ Spans(f, d.off, n, l)
  BY <1>5 DEF ReadAs
<1>8. d.off \in 0..Len(f)
  <2>1. d.off \in Nat /\ d.off <= After(d) /\ n \in Nat
    BY <1>3, <1>7, ElemFacts
  <2> QED BY <1>7, <2>1
<1>9. Spans(f, d.off, n, NameList(c.names)[Len(c.names)])
  BY <1>7 DEF l
<1>10. AnyMatches(f, Walk(f, d.off, n), host)
  BY <1>1, <1>6, <1>7
<1> QED BY <1>4, <1>8, <1>9, <1>10, ListCovers

\* A certificate of this host names it.
LEMMA NamesRead ==
  ASSUME NEW f \in Seq(Byte), TwoBytes(Len(f)), NEW c, HoldsIssued(f, c), NEW host \in Seq(Byte), chain_host_matches(f, host)
  PROVE  Names(c, host)
<1>1. PICK C, t : Outer(f, C, t) /\ Spans(f, C.off, After(t), Tbs(c))
  BY DEF HoldsIssued
<1>2. c \in Certs
  BY IssuedIs DEF HoldsIssued
<1>3. PICK m, d : SignedIs(f, C, t, c, m, d)
  BY <1>1, <1>2, SignedRead
<1> DEFINE e == der_tbs_field(f, TBS_EXTS)
           all == der_elem(f, e.off, After(e))
<1>4. e.tag = EXTENSIONS /\ first_san_matches(f, Walk(f, all.off, After(all)), host)
  BY DEF chain_host_matches
<1>5. c.version /\ ReadAs(f, m[7], After(t), e, EXTENSIONS, Tlv(c.form, SEQ, ExtAll(c)))
  <2>1. Missing.tag # EXTENSIONS
    BY DEF Missing, EXTENSIONS
  <2>2. c.version => ReadAs(f, m[7], After(t), e, EXTENSIONS, Tlv(c.form, SEQ, ExtAll(c)))
    BY <1>2, <1>3, FieldsRead
  <2>3. ~c.version => e = Missing
    BY <1>2, <1>3, FieldsRead
  <2> HIDE DEF e
  <2>4. c.version
    BY <1>4, <2>1, <2>3
  <2> QED BY <2>2, <2>4
<1>6. After(t) \in 0..Len(f) /\ m[7] \in Nat
  BY <1>1, <1>2, <1>3, OuterFacts, KeyOfCert
<1> DEFINE q == After(t)
<1>7. e \in Elem(m[7], q) /\ After(e) = q /\ Spans(f, e.off, q, Tlv(c.form, SEQ, ExtAll(c)))
  <2> HIDE DEF e
  <2> QED BY <1>5 DEF ReadAs
<1>8. e.off \in Nat /\ q \in q..Len(f) /\ q \in 0..Len(f)
  <2> HIDE DEF e
  <2>1. q \in Nat /\ q \in 0..Len(f)
    BY <1>6
  <2>2. e.off \in Nat
    BY <1>6, <1>7, <2>1, ElemFacts
  <2> QED BY <2>1, <2>2
<1> HIDE DEF e, q
<1>9. Encoded(ExtAll(c)) /\ c.form \in 1..3 /\ SEQ \in Byte
  BY <1>2, EncExtensions, CertFacts, Tags
<1>10. PICK a : ReadAs(f, e.off, q, a, SEQ, ExtAll(c))
  BY <1>7, <1>8, <1>9, ReadBack
<1>11. all = a
  BY <1>7, <1>8, <1>10 DEF ReadAs
<1>12. a \in Elem(e.off, q) /\ After(a) = q /\ Spans(f, a.off, q, ExtAll(c))
  BY <1>10 DEF ReadAs
<1>13. a.off \in 0..Len(f)
  <2>1. a.off \in Nat /\ a.off <= After(a) /\ q \in Nat
    BY <1>8, <1>12, ElemFacts
  <2> QED BY <1>8, <1>12, <2>1
<1> DEFINE exts == Walk(f, a.off, q)
<1>14. first_san_matches(f, exts, host)
  BY <1>4, <1>11, <1>12
<1> DEFINE X(i) == AfterBool(f, der_elem(f, After(oid_of(f, exts[i])), After(exts[i])), After(exts[i]))
<1>15. PICK i \in DOMAIN exts : is_san(f, exts[i]) /\ san_matches(f, X(i), host)
  BY <1>14 DEF first_san_matches
<1>16. c.san # "none" /\ \E n \in 0..Len(f) : ExtIs(f, n, exts[i], OidSan, SanValue(c))
  BY <1>2, <1>8, <1>12, <1>13, <1>15, TheSan
<1>17. PICK n \in 0..Len(f) : ExtIs(f, n, exts[i], OidSan, SanValue(c))
  BY <1>16
<1>18. PICK p \in Nat : \E r \in 0..Len(f) : ReadAs(f, p, r, X(i), OCTETS, SanValue(c))
  <2> HIDE DEF exts
  <2> QED BY <1>17 DEF ExtIs
<1>19. PICK r \in 0..Len(f) : ReadAs(f, p, r, X(i), OCTETS, SanValue(c))
  BY <1>18
<1>20. \E j \in DOMAIN c.names : Covers(c.names[j], host)
  <2> HIDE DEF X, exts
  <2> QED BY <1>2, <1>15, <1>19, SanCovers
<1> QED BY <1>5, <1>16, <1>20 DEF Names

-----------------------------------------------------------------------------
(* The answer *)

\* What an accepted store is: certificates cut from it, each named, dated and
\* signed as it has to be.
Accepted(s, host, rtc, certs) ==
  /\ SplitFrom(s, certs) /\ Verified(certs) /\ certs # <<>>
  /\ chain_host_matches(certs[1], host)
  /\ read_clock(rtc) # NoTime => \A i \in DOMAIN certs : chain_valid_at(certs[i], read_clock(rtc))

LEMMA OkIsAccepted ==
  ASSUME NEW s \in Seq(Byte), NEW host \in Seq(Byte), Len(host) \in 1..HostCap, NEW rtc,
         ck_api_chain(s, host, read_clock(rtc)) = "OK"
  PROVE  \E certs : Accepted(s, host, rtc, certs)
<1> DEFINE now == read_clock(rtc)
           n == IF Len(host) < HostCap THEN Len(host) ELSE HostCap
           certs == chain_split(s, CHAIN_MAX)
<1>1. HostCap \in Nat /\ CHAIN_MAX \in Nat
  BY SizesAssumption
<1>2. n = Len(host) /\ Len(host) \in Nat
  BY <1>1
<1>3. SubSeq(host, 1, n) = host
  <2> HIDE DEF n
  <2> QED BY <1>2
<1>4. ck_api_chain(s, host, now) = policy_and_verify(certs, SubSeq(host, 1, n), now)
  BY Zenon DEF ck_api_chain, ck_chain_run
<1> HIDE DEF n, now, certs
<1>5. policy_and_verify(certs, host, now) = "OK"
  BY ONLY <1>3, <1>4, ck_api_chain(s, host, read_clock(rtc)) = "OK" DEF now
<1>6. chain_policy(certs, host, now) = "OK" /\ chain_verify(certs) = "OK"
  <2>1. policy_and_verify(certs, host, now) = Unless(chain_policy(certs, host, now), chain_verify(certs))
    BY Zenon DEF policy_and_verify
  <2> DEFINE x == chain_policy(certs, host, now)
             y == chain_verify(certs)
  <2> HIDE DEF x, y
  <2>2. Unless(x, y) = "OK" => x = "OK" /\ y = "OK"
    BY SMT DEF Unless
  <2> QED BY <1>5, <2>1, <2>2 DEF x, y
<1>7. SplitFrom(s, certs)
  BY <1>1, SplitIs DEF certs
<1>8. Verified(certs)
  BY <1>6, <1>7, VerifySays DEF SplitFrom
<1>9. host # <<>>
  OBVIOUS
<1>10. certs # <<>> /\ chain_host_matches(certs[1], host) /\ (now # NoTime => \A i \in DOMAIN certs : chain_valid_at(certs[i], now))
  BY <1>6, <1>9, PolicySays
<1> QED BY <1>7, <1>8, <1>10 DEF Accepted, now

\* A certificate of an accepted store is a piece of it.
LEMMA PiecesAre ==
  ASSUME NEW s \in Seq(Byte), TwoBytes(Len(s)), NEW certs, SplitFrom(s, certs), NEW i \in 1..Len(certs)
  PROVE  /\ certs[i] \in Seq(Byte) /\ TwoBytes(Len(certs[i])) /\ i \in DOMAIN certs
         /\ \E a, b : Piece(s, a, b, certs[i])
<1>1. certs \in Seq(Seq(Byte)) /\ \E a, b : Piece(s, a, b, certs[i])
  BY DEF SplitFrom
<1>2. PICK a, b : Piece(s, a, b, certs[i])
  BY <1>1
<1>3. certs[i] \in Seq(Byte) /\ Len(certs[i]) <= Len(s)
  BY <1>2, PieceIs
<1>4. TwoBytes(Len(certs[i]))
  <2>1. Len(certs[i]) \in Nat /\ Len(s) \in Nat
    BY <1>3
  <2> QED BY <1>3, <2>1, Bytes16
<1> QED BY <1>1, <1>3, <1>4

\* A certificate behind another's signature was issued, is in date and in the
\* store.
SignedBy(certs, s, rtc, i, c) ==
  /\ HoldsIssued(certs[i], c) /\ HandsKey(certs[i + 1], c)
  /\ c \in Held(s, rtc) /\ c \in Held(certs[i], rtc)

LEMMA LinksAre ==
  ASSUME NEW s \in Seq(Byte), TwoBytes(Len(s)), NEW host, NEW rtc \in Clocks, NEW certs, Accepted(s, host, rtc, certs)
  PROVE  \A i \in 1..Len(certs) - 1 : \E c : SignedBy(certs, s, rtc, i, c)
<1> SUFFICES ASSUME NEW i \in 1..Len(certs) - 1 PROVE \E c : SignedBy(certs, s, rtc, i, c)
  OBVIOUS
<1>1. SplitFrom(s, certs) /\ Verified(certs) /\ certs \in Seq(Seq(Byte))
  BY DEF Accepted, SplitFrom
<1>2. i \in 1..Len(certs)
  BY <1>1
<1>3. certs[i] \in Seq(Byte) /\ TwoBytes(Len(certs[i])) /\ i \in DOMAIN certs
  BY <1>1, <1>2, PiecesAre
<1>4. PICK a, b : Piece(s, a, b, certs[i])
  BY <1>1, <1>2, PiecesAre
<1>5. chain_verify_link(certs[i], chain_parts(certs[i]), certs[i + 1], x509_key_of(certs[i + 1]))
  BY <1>1 DEF Verified
<1>6. PICK c : HoldsIssued(certs[i], c) /\ HandsKey(certs[i + 1], c)
  BY <1>3, <1>5, LinkIs
<1>7. read_clock(rtc) # NoTime => chain_valid_at(certs[i], read_clock(rtc))
  BY <1>3 DEF Accepted
<1>8. InDate(c, rtc)
  BY <1>3, <1>6, <1>7, HeldInDate
<1>9. c \in Held(s, rtc) /\ c \in Held(certs[i], rtc)
  BY <1>4, <1>6, <1>8, HeldInStore
<1> QED BY <1>6, <1>9 DEF SignedBy

\* A store that is one certificate is an anchor's.
LEMMA AnchorAlone ==
  ASSUME NEW s \in Seq(Byte), TwoBytes(Len(s)), NEW host, NEW rtc, NEW certs, Accepted(s, host, rtc, certs), Len(certs) = 1
  PROVE  \E k \in RootKeys, i \in DOMAIN certs[1] : At(certs[1], i, Spki(k))
<1> DEFINE f == certs[1]
           key == x509_key_of(f)
<1>1. SplitFrom(s, certs) /\ 1 \in 1..Len(certs)
  BY DEF Accepted
<1>2. f \in Seq(Byte) /\ TwoBytes(Len(f))
  BY <1>1, PiecesAre
<1>3. key # NoKey /\ roots_index(f, key)
  BY DEF Accepted, Verified
<1> HIDE DEF f
<1>4. PICK k \in RootKeys : \E at \in Nat, q \in Nat : at < q /\ Spans(f, at, q, Spki(k)) /\ KeyRead(f, at, q, k, key)
  BY <1>2, <1>3, AnchorFound
<1>5. PICK at \in Nat, q \in Nat : at < q /\ Spans(f, at, q, Spki(k))
  BY <1>4
<1>6. Spans(f, at, q, Spki(k)) /\ at < q
  BY <1>5
<1>7. k \in Keys
  BY ChainsAssumption
<1>8. Encoded(Spki(k)) /\ Spki(k) \in Seq(Nat)
  BY <1>7, EncSpki DEF Encoded
<1>9. at + Len(Spki(k)) <= Len(f) /\ Len(Spki(k)) \in Nat /\ Len(f) \in Nat
  BY <1>2, <1>6, <1>8 DEF Spans, Found
<1>10. Spki(k) \in Seq(Byte)
  <2>1. TwoBytes(Len(Spki(k)))
    BY <1>2, <1>9, Bytes16
  <2> QED BY <1>8, <2>1 DEF Encoded
<1>11. At(f, at + 1, Spki(k))
  BY <1>2, <1>6, <1>10, SpansAt
<1>12. Len(Spki(k)) >= 1
  <2>1. at + Len(Spki(k)) = q
    BY <1>6 DEF Spans
  <2> QED BY ONLY <1>6, <1>9, <2>1, at \in Nat, q \in Nat
<1>13. at + 1 \in DOMAIN f
  <2>1. at + 1 \in 1..Len(f)
    BY <1>9, <1>12
  <2> QED BY <1>2, <2>1
<1>14. \E i \in DOMAIN f : At(f, i, Spki(k))
  BY <1>11, <1>13
<1> QED BY <1>14 DEF f

\* A longer one's first certificate is signed with a key that is trusted.
LEMMA ChainTrusted ==
  ASSUME NEW s \in Seq(Byte), TwoBytes(Len(s)), NEW host \in Seq(Byte), NEW rtc \in Clocks, NEW certs,
         Accepted(s, host, rtc, certs), Len(certs) # 1
  PROVE  \E c \in Held(certs[1], rtc) : c.by \in Trusted(s, rtc) /\ Names(c, host)
<1>1. SplitFrom(s, certs) /\ Verified(certs) /\ certs \in Seq(Seq(Byte)) /\ certs # <<>> /\ chain_host_matches(certs[1], host)
  BY DEF Accepted, SplitFrom
<1>2. PICK m \in Nat : m = Len(certs) - 1 /\ m >= 1 /\ m + 1 = Len(certs)
  <2>1. PICK n \in Nat : n = Len(certs)
    BY <1>1
  <2>2. n # 0 /\ n # 1
    BY ONLY <1>1, <2>1, Len(certs) # 1
  <2>3. n - 1 \in Nat /\ n - 1 >= 1 /\ (n - 1) + 1 = n
    BY ONLY <2>2, n \in Nat
  <2> QED BY ONLY <2>1, <2>3
<1> DEFINE c == [i \in 1..m |-> CHOOSE x : SignedBy(certs, s, rtc, i, x)]
<1>3. \A i \in 1..m : SignedBy(certs, s, rtc, i, c[i])
  <2> SUFFICES ASSUME NEW i \in 1..m PROVE SignedBy(certs, s, rtc, i, c[i])
    OBVIOUS
  <2>1. \E x : SignedBy(certs, s, rtc, i, x)
    BY <1>2, LinksAre
  <2> QED BY <2>1
<1> HIDE DEF c
<1>4. \A i \in 1..m : /\ HoldsIssued(certs[i], c[i]) /\ HandsKey(certs[i + 1], c[i])
                      /\ c[i] \in Held(s, rtc) /\ c[i] \in Held(certs[i], rtc)
  BY <1>3 DEF SignedBy
<1>5. \A i \in 1..m - 1 : c[i + 1].key = c[i].by
  <2> SUFFICES ASSUME NEW i \in 1..m - 1 PROVE c[i + 1].key = c[i].by
    OBVIOUS
  <2>1. i \in 1..m /\ i + 1 \in 1..m /\ i + 1 \in 1..Len(certs)
    BY <1>2
  <2>2. certs[i + 1] \in Seq(Byte) /\ TwoBytes(Len(certs[i + 1]))
    BY <1>1, <2>1, PiecesAre
  <2>3. HoldsIssued(certs[i + 1], c[i + 1]) /\ HandsKey(certs[i + 1], c[i]) /\ HoldsIssued(certs[i], c[i])
    BY ONLY <1>4, <2>1
  <2>4. c[i] \in Issued
    BY <2>3 DEF HoldsIssued
  <2> QED BY <2>2, <2>3, <2>4, HandedDown
<1>6. c[m].by \in RootKeys
  <2> DEFINE f == certs[m + 1]
  <2>1. m \in 1..m /\ m + 1 \in 1..Len(certs)
    BY <1>2
  <2>2. f \in Seq(Byte) /\ TwoBytes(Len(f))
    BY <1>1, <2>1, PiecesAre
  <2>3. x509_key_of(f) # NoKey /\ roots_index(f, x509_key_of(f))
    BY <1>1, <1>2 DEF Verified
  <2>4. HandsKey(f, c[m]) /\ HoldsIssued(certs[m], c[m])
    BY ONLY <1>4, <2>1
  <2> HIDE DEF f
  <2>5. PICK k \in RootKeys : \E at \in Nat, q \in Nat : KeyRead(f, at, q, k, x509_key_of(f))
    BY <2>2, <2>3, AnchorFound
  <2>6. x509_key_of(f).kind = k.kind /\ (x509_key_of(f).kind = "RSA" => Content(f, x509_key_of(f).n) = Modulus(k))
    BY <2>5 DEF KeyRead
  <2>7. x509_key_of(f).kind = "RSA" /\ Content(f, x509_key_of(f).n) = Modulus(c[m].by)
    BY <2>4 DEF HandsKey
  <2>8. c[m] \in Certs /\ c[m].by.kind = "RSA"
    BY <2>4, IssuedIs DEF HoldsIssued
  <2>9. k \in Keys /\ c[m].by \in Keys
    BY <2>8, ChainsAssumption, CertFacts
  <2>10. k = c[m].by
    BY <2>6, <2>7, <2>8, <2>9, KeysEqual
  <2> QED BY <2>10
<1>7. c[1].by \in Trusted(s, rtc)
  <2>1. \A i \in 1..m : c[i] \in Held(s, rtc)
    BY <1>4
  <2> QED BY <1>2, <1>5, <1>6, <2>1, TrustedDown
<1>8. 1 \in 1..m /\ 1 \in 1..Len(certs)
  BY <1>2
<1>9. c[1] \in Held(certs[1], rtc) /\ HoldsIssued(certs[1], c[1])
  BY ONLY <1>4, <1>8
<1>10. Names(c[1], host)
  <2>1. certs[1] \in Seq(Byte) /\ TwoBytes(Len(certs[1]))
    BY <1>1, <1>8, PiecesAre
  <2> QED BY <1>1, <1>9, <2>1, NamesRead
<1> QED BY <1>7, <1>9, <1>10

\* Whatever bytes come in, and wherever the store cuts them, they are the
\* server's only if some authority said so (OnlyTheIssued, for every chain, every
\* byte of it that comes out wrong and every clock; ck_chain_run in
\* src/src/bank/chain_api.c over chain_policy and chain_verify).
THEOREM ChainsAreIssued == Spec => []OnlyTheIssued
<1>1. AnswerIs => OnlyTheIssued
  <2> DEFINE s == Store(Q)
             first == SubSeq(s, 1, After(der_elem(s, 0, Len(s))))
             Good == \/ \E c \in Held(first, Q.rtc) : c.by \in Trusted(s, Q.rtc) /\ Names(c, Q.host)
                     \/ \E k \in RootKeys, i \in DOMAIN first : At(first, i, Spki(k))
  <2>1. (Answered("chain") /\ A = "OK" => Good) => OnlyTheIssued
    BY Zenon DEF OnlyTheIssued
  <2>2. ASSUME AnswerIs, Answered("chain"), A = "OK" PROVE Good
    <3>1. Q \in Chains /\ ck_api_chain(s, Q.host, read_clock(Q.rtc)) = "OK"
      BY <2>2 DEF AnswerIs, Answered
    <3>2. s \in Seq(Byte) /\ TwoBytes(Len(s))
      BY <3>1, StoreBytes
    <3>3. Q.host \in Seq(Byte) /\ Len(Q.host) \in 1..HostCap /\ Q.rtc \in Clocks
      BY <3>1, QuestionFacts
    <3> HIDE DEF s
    <3>4. PICK certs : Accepted(s, Q.host, Q.rtc, certs)
      BY <3>1, <3>2, <3>3, OkIsAccepted
    <3>5. certs[1] = first
      BY <3>4 DEF Accepted, SplitFrom
    <3> HIDE DEF first
    <3>6. CASE Len(certs) = 1
      BY <3>2, <3>4, <3>5, <3>6, AnchorAlone
    <3>7. CASE Len(certs) # 1
      BY <3>2, <3>3, <3>4, <3>5, <3>7, ChainTrusted
    <3> QED BY <3>6, <3>7
  <2> HIDE DEF Good
  <2> QED BY <2>1, <2>2
<1> QED BY <1>1, AnswersKept, PTL
=============================================================================

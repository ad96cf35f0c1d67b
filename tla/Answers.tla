------------------------------- MODULE Answers -------------------------------
(***************************************************************************)
(* What the program computes, asked and answered: is this chain the        *)
(* server's (Chain, Der), is this signature good (Mp, Pss), what is the    *)
(* shared secret (X25519), what do these bytes say and what does this key  *)
(* or this command send (Lines).  A call has no state but its arguments: a *)
(* step asks one of the questions, a step answers it, and the properties   *)
(* hold each answer against what it is to be, said without the code's      *)
(* bytes, limbs and offsets.                                               *)
(***************************************************************************)
EXTENDS Certificates, Chain, SequencesExt

CONSTANTS
  \* the questions
  Chains,        \* [chain, host, rtc, at, value]
  RootKeys,      \* the anchors'
  Moduli,        \* <<a prime, another, an exponent>>
  Scalars, Points,
  Streams,       \* [messages, cuts]
  Requests,      \* <<tag, text>>
  Commands,      \* [id, gap, chan, word, text, view, views, pass]
  Editings,      \* [input, keys]
  Prompts,       \* [offered, keys, max]
  Lists,         \* [names, views]
  \* the sizes
  LINE_MAX, IRC_PARAMS_MAX, TagCap, InputCap, NameCap, VIEW_MAX, VIEW_NAME_CAP, LOW_NSPASS_CAP

VARIABLES
  asked,     \* a kind of question and the question
  answer     \* what was returned, in a sequence, empty until it is
vars == <<asked, answer>>

\* What the authorities of these chains signed, and the keys the client carries.
Issued == {c \in UNION {ToSet(q.chain) : q \in Chains} : c.by.kind = "RSA" /\ c.alg = "RSA_SHA256"}
Signatures == {Signs(c) : c \in Issued}
Anchors == {Spki(k) : k \in RootKeys}

\* The lengths of a certificate are of two bytes at most, and a build is of
\* this century.
ASSUME SizesAssumption ==
  /\ {CERT_CAP, CHAIN_MAX, HostCap, TimeCap, DNS_CAP, N_CAP, E_CAP, SIG_CAP} \subseteq Nat
  /\ CERT_CAP < 256 * 256 /\ CLOCK_BUILT_YY \in 0..79
ASSUME ChainsAssumption ==
  /\ \A q \in Chains :
       /\ q.chain \in Seq(Certs) /\ q.chain # <<>> /\ q.host \in Seq(Byte) /\ Len(q.host) \in 1..HostCap /\ q.rtc \in Clocks
       /\ q.at \in Nat /\ q.value \in Byte
       /\ \A i \in DOMAIN q.chain : Len(File(q.chain[i])) < 256 * 256
  /\ RootKeys \subseteq Keys
  /\ Signed = Signatures /\ Roots = Anchors

Text == INSTANCE Lines

\* Bytes of one bit: a modulus has eight.
Rsa == INSTANCE Mp WITH ByteBase <- 2, LimbBits <- 2, NewtonSteps <- 2, DoubleCap <- 4, MinBytes <- 4, MaxBytes <- 8,
                        DigestInfo <- <<1>>, HashLen <- 2, MinPadding <- 2
\* Bytes of two bits, and a hash of two bytes that every byte moves.
ToyHash(bytes) ==
  LET s == FoldLeft(LAMBDA acc, b : ((5 * acc) + b + 3) % 16, 1, bytes) IN <<s \div 4, s % 4>>
Padding == INSTANCE Pss WITH ByteBits <- 2, HashLen <- 2, Sha <- ToyHash
\* Two limbs of three bits.  Of the primes below 32 one makes 64 fold to 2 and one to 6.
Field31 == INSTANCE X25519 WITH LimbBase <- 8, Size <- 2, P <- 31, Fold <- 2, InvTop <- 3, InvZeros <- {1},
                                A24 <- 5, LowBits <- 2, TopBit <- 6
Field29 == INSTANCE X25519 WITH LimbBase <- 8, Size <- 2, P <- 29, Fold <- 6, InvTop <- 3, InvZeros <- {2},
                                A24 <- 5, LowBits <- 2, TopBit <- 6

-----------------------------------------------------------------------------
(* Asking and answering *)

Nothing == [kind |-> "nothing"]
Idle == asked = Nothing
Ask(kind, questions) ==
  /\ Idle
  /\ \E q \in questions : asked' = [kind |-> kind, q |-> q]
  /\ UNCHANGED answer
Asked(kind) == asked.kind = kind
Answer(kind, value) == Asked(kind) /\ answer = <<>> /\ answer' = <<value>> /\ UNCHANGED asked
Answered(kind) == Asked(kind) /\ answer # <<>>
Q == asked.q
A == answer[1]

\* The engine hands the certificates over one at a time; a byte may come out
\* other than it was sent.
Altered(bytes, at, value) == IF at \in DOMAIN bytes THEN [bytes EXCEPT ![at] = value] ELSE bytes
Stored(chain) ==
  LET stored[k \in 0..Len(chain)] ==
        IF k = 0 THEN ck_api_cert_reset ELSE ck_api_cert_append(stored[k - 1], File(chain[k]))
  IN  stored
Store(q) == Altered(Stored(q.chain)[Len(q.chain)], q.at, q.value)

AskChain == Ask("chain", Chains)
AnswerChain == Answer("chain", ck_api_chain(Store(Q), Q.host, read_clock(Q.rtc)))

\* The key comes after the subject, where no part of der.c looks.
SpkiField == 5

AskParts == Ask("parts", {q \in Chains : Len(q.chain) = 1 /\ Len(File(q.chain[1])) <= CERT_CAP})
PartsOf(f) ==
  [file |-> f, tbs |-> der_tbs(f), spki |-> der_tbs_field(f, SpkiField), parts |-> chain_parts(f), key |-> x509_key_of(f)]
AnswerParts == Answer("parts", PartsOf(Store(Q)))

\* A signature's bytes and the hash it is over, under a modulus of two primes.
AskSignature ==
  Ask("signature", {[m |-> m, s |-> s, hash |-> <<h \div 2, h % 2>>] : m \in Moduli, s \in 0..255, h \in 0..3})
Bytes(v) == Reverse(Rsa!ToDigits(v, 8, 2))
AnswerSignature ==
  Answer("signature", Rsa!rsa_pkcs1_sha256_verify(Bytes(Q.m[1] * Q.m[2]), Reverse(Rsa!ToDigits(Q.m[3], 4, 2)), Bytes(Q.s), Q.hash))

\* Two numbers multiplied as the machine does and as the tests' host does.
AskMultiplied ==
  Ask("multiplied", {<<m[1] * m[2], a, b>> : m \in Moduli, a \in {(29 * k) % 121 : k \in 0..20}, b \in {(47 * k) % 143 : k \in 0..20}})
AnswerMultiplied ==
  LET c == Rsa!mp_init(Bytes(Q[1]))
      a == Rsa!ToDigits(Q[2], 4, 4)
      b == Rsa!ToDigits(Q[3], 4, 4)
  IN  Answer("multiplied", [mont32 |-> Rsa!mont32(c, a, b), host |-> Rsa!mp_mont_mul_host(c, a, b),
                            back32 |-> Rsa!mont32_reduce(c, a), back |-> Rsa!mp_from_mont_host(c, a)])

\* What a signature opened to, and the transcript's hash.
AskPadding == Ask("padding", {em \in [1..7 -> 0..3] : em[7] = 0 \/ em[1] = em[2]} \X {<<1, 2>>})
AnswerPadding == Answer("padding", Padding!pss_opens(Q[1], Q[2]))

AskSecret == Ask("secret", Scalars \X Points)
AnswerSecret == Answer("secret", Field31!x25519(Q[1], Q[2]))

AskProduct == Ask("product", ({31} \X (0..30) \X (0..30)) \cup ({29} \X (0..28) \X (0..28)))
AnswerProduct ==
  Answer("product", IF Q[1] = 31 THEN Field31!fe_tobytes(Field31!fe_mul(Field31!Fe(Q[2]), Field31!Fe(Q[3])))
                    ELSE Field29!fe_tobytes(Field29!fe_mul(Field29!Fe(Q[2]), Field29!Fe(Q[3]))))

\* A stream of lines, in the deliveries it is cut into.
Rendered(m) ==
  LET part(before, s) == IF s = <<>> THEN <<>> ELSE before \o s[1]
      params == FoldLeft(LAMBDA acc, p : acc \o <<" ">> \o p, <<>>, m.params)
      prefix == IF m.prefix = <<>> THEN <<>> ELSE part(<<":">>, m.prefix) \o part(<<"!">>, m.host) \o <<" ">>
  IN  (IF m.tags = <<>> THEN <<>> ELSE part(<<"@">>, m.tags) \o <<" ">>) \o prefix
      \o m.cmd \o params \o part(<<" ", ":">>, m.trailing)
Stream(q) == FoldLeft(LAMBDA acc, m : acc \o Rendered(m) \o <<"CR", "LF">>, <<>>, q.messages)
Deliveries(s, cuts) ==
  LET ends == {0, Len(s)} \cup {c \in cuts : c < Len(s)}
  IN  [k \in 1..Cardinality(ends) - 1 |->
         LET end == CHOOSE e \in ends : Cardinality({x \in ends : x < e}) = k
             start == CHOOSE b \in ends : Cardinality({x \in ends : x < b}) = k - 1
         IN  SubSeq(s, start + 1, end)]

AskStream == Ask("stream", Streams)
AnswerStream ==
  LET read == FoldLeft(LAMBDA acc, p : LET r == Text!on_bytes(acc.line, p)
                                       IN  [line |-> r.line, lines |-> acc.lines \o r.lines],
                       [line |-> <<>>, lines |-> <<>>], Deliveries(Stream(Q), Q.cuts))
  IN  Answer("stream", [k \in DOMAIN read.lines |-> Text!irc_parse(read.lines[k])])

AskRequest == Ask("request", Requests)
AnswerRequest ==
  Answer("request", Text!irc_ctcp(<<"SOH">> \o Q[1] \o (IF Q[2] = <<>> THEN <<>> ELSE <<" ">> \o Q[2]) \o <<"SOH">>))

\* A command's line as it is typed: spaces between its parts, as many as liked.
Typed(c) ==
  LET part(s) == IF s = <<>> THEN <<>> ELSE c.gap \o s
      named == IF c.id \in {"invite", "i"} THEN part(c.word) \o part(c.chan) ELSE part(c.chan) \o part(c.word)
  IN  IF c.id = "say" THEN c.text ELSE <<"/", c.id>> \o named \o part(c.text)
AskCommand == Ask("command", Commands)
AnswerCommand == Answer("command", Text!typed_line(Typed(Q), Q.view, Q.views, Q.pass))

AskEditing == Ask("editing", Editings)
AnswerEditing == Answer("editing", FoldLeft(Text!Edit, [input |-> Q.input, pos |-> Len(Q.input)], Q.keys).input)

AskPrompt == Ask("prompt", Prompts)
AnswerPrompt ==
  Answer("prompt", [line |-> Text!ui_read_line(Q.offered, Q.keys, Q.max), secret |-> Text!read_secret(Q.keys, Q.max)])

AskList == Ask("list", Lists)
AnswerList == Answer("list", Text!join_all(Q.views, FoldLeft(LAMBDA acc, n : acc \o n \o <<",">>, <<>>, Q.names)))

Forget == answer # <<>> /\ asked' = Nothing /\ answer' = <<>>

Init == Idle /\ answer = <<>>
Next ==
  \/ AskChain \/ AnswerChain \/ AskParts \/ AnswerParts
  \/ AskSignature \/ AnswerSignature \/ AskMultiplied \/ AnswerMultiplied \/ AskPadding \/ AnswerPadding
  \/ AskSecret \/ AnswerSecret \/ AskProduct \/ AnswerProduct
  \/ AskStream \/ AnswerStream \/ AskRequest \/ AnswerRequest
  \/ AskCommand \/ AnswerCommand \/ AskEditing \/ AnswerEditing
  \/ AskPrompt \/ AnswerPrompt \/ AskList \/ AnswerList
  \/ Forget
Spec == Init /\ [][Next]_vars
=============================================================================

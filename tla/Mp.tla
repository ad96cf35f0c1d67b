---------------------------------- MODULE Mp ----------------------------------
(***************************************************************************)
(* The numbers of the RSA signatures (src/src/crypto/mp.c) and the         *)
(* verification of a certificate's (src/src/crypto/pkcs1.c): Montgomery    *)
(* arithmetic on limbs of LimbBits bits, multiplied two limbs at a time.   *)
(* Sixteen bits and bytes of eight in the program; the widths are          *)
(* constants, for the arithmetic does not depend on them.                  *)
(***************************************************************************)
EXTENDS Limbs

CONSTANTS
  ByteBase,      \* 256
  NewtonSteps,   \* 6: from one bit of the inverse to a word's
  DoubleCap,     \* 256, the most doublings that make R squared
  LimbBits,      \* 16
  MinBytes, MaxBytes,   \* 128 and 512 of a modulus
  DigestInfo, HashLen, MinPadding   \* 19 bytes, 32 and 8

LimbBase == ByteBase * ByteBase
WordBase == LimbBase * LimbBase

-----------------------------------------------------------------------------
(* Digits *)

add_n(a, b) == Row(Len(a), LimbBase, 0, LAMBDA k : a[k] + b[k])
sub_n(a, b) == Row(Len(a), LimbBase, 0, LAMBDA k : a[k] - b[k])

mp_add(a, b, m) ==
  LET s == add_n(a, b)
  IN  IF s.carry = 0 /\ Below(s.out, m) THEN s.out ELSE sub_n(s.out, m).out

mp_from_be(be, n) ==
  LET byte(i) == IF i < Len(be) THEN be[Len(be) - i] ELSE 0
  IN  [k \in 1..n |-> byte(2 * (k - 1)) + (ByteBase * byte((2 * k) - 1))]

mp_to_be(x, len) ==
  [j \in 1..len |-> LET i == len - j
                        limb == IF (i \div 2) + 1 \in DOMAIN x THEN x[(i \div 2) + 1] ELSE 0
                    IN  IF i % 2 = 1 THEN limb \div ByteBase ELSE limb % ByteBase]

-----------------------------------------------------------------------------
(* Montgomery multiplication *)

Words(x) == [k \in 1..Len(x) \div 2 |-> x[(2 * k) - 1] + (LimbBase * x[2 * k])]
Halves(w) == [k \in 1..2 * Len(w) |->
                LET d == w[(k + 1) \div 2] IN IF k % 2 = 1 THEN d % LimbBase ELSE d \div LimbBase]

row32(base, a, in, p) == Row(Len(p), base, 0, LAMBDA k : in[k] + (a * p[k]))

\* One digit of a times b added to t.
Accumulate(base, t, ai, b) ==
  LET n == Len(b)
      row == row32(base, ai, t, b)
      acc == t[n + 1] + row.carry
  IN  row.out \o <<acc % base, acc \div base>>

\* A multiple of m added that clears t's lowest digit, and t shifted by it.
Reduce(base, n0, t, m) ==
  LET n == Len(m)
      row == row32(base, (t[1] * n0) % base, t, m)
      acc == t[n + 1] + row.carry
  IN  Tail(row.out) \o <<acc % base, t[n + 2] + (acc \div base), 0>>

\* Mutant: the digit above the modulus is not looked at.
Final_low(base, t, m) ==
  LET low == SubSeq(t, 1, Len(m))
  IN  IF Below(low, m) THEN low ELSE Row(Len(m), base, 0, LAMBDA k : low[k] - m[k]).out

\* The result, once, below the modulus.
Final(base, t, m) ==
  LET low == SubSeq(t, 1, Len(m))
  IN  IF t[Len(m) + 1] = 0 /\ Below(low, m) THEN low
      ELSE Row(Len(m), base, 0, LAMBDA k : low[k] - m[k]).out

mont(base, n0, a, b, m) ==
  Final(base, FoldLeft(LAMBDA t, ai : Reduce(base, n0, Accumulate(base, t, ai, b), m), Zeros(Len(m) + 2), a), m)

mont_reduce(base, n0, a, m) ==
  Final(base, FoldLeft(LAMBDA t, k : Reduce(base, n0, t, m), a \o <<0, 0>>, m), m)

mont32(c, a, b) == Halves(mont(WordBase, c.n0_32, Words(a), Words(b), Words(c.m)))
mont32_reduce(c, a) == Halves(mont_reduce(WordBase, c.n0_32, Words(a), Words(c.m)))

\* The host's, a limb at a time, which the tests run.
mp_mont_mul_host(c, a, b) == mont(LimbBase, c.n0, a, b, c.m)
mp_from_mont_host(c, a) == mont_reduce(LimbBase, c.n0, a, c.m)

-----------------------------------------------------------------------------
(* The modulus's constants *)

InverseOf(m0, base) ==
  FoldLeft(LAMBDA inv, k : (inv * (2 - (m0 * inv))) % base, 1, Indices(NewtonSteps))

\* R is the base to the power of the limbs; R squared is R doubled so many
\* times, and squared, in Montgomery form, so many.
mp_init(be) ==
  LET n == (Len(be) + 1) \div 2
      m == mp_from_be(be, n)
      c == [m |-> m, n0 |-> (-InverseOf(m[1], LimbBase)) % LimbBase,
            n0_32 |-> (-InverseOf(m[1] + (LimbBase * m[2]), WordBase)) % WordBase]
      bits == LimbBits * n
      s == CHOOSE k \in 0..bits : bits \div (2^k) <= DoubleCap /\ \A j \in 0..k - 1 : bits \div (2^j) > DoubleCap
      doubled == FoldLeft(LAMBDA r, k : mp_add(r, r, m), sub_n(Zeros(n), m).out, Indices(bits \div (2^s)))
      rr == FoldLeft(LAMBDA r, k : mont32(c, r, r), doubled, Indices(s))
  IN  [m |-> m, n0 |-> c.n0, n0_32 |-> c.n0_32, rr |-> rr]

\* The bits of an exponent, the highest first.
BitsOf(e) ==
  FlattenSeq([k \in DOMAIN e |-> Reverse(ToDigits(e[k], LimbBits \div 2, 2))])

mp_mont_exp(c, a, e) ==
  FoldLeft(LAMBDA acc, bit :
             LET squared == IF acc.started THEN mont32(c, acc.r, acc.r) ELSE acc.r
             IN  IF bit = 0 THEN [acc EXCEPT !.r = squared]
                 ELSE [started |-> TRUE, r |-> IF acc.started THEN mont32(c, squared, a) ELSE a],
           [started |-> FALSE, r |-> mont32_reduce(c, c.rr)], BitsOf(e)).r

-----------------------------------------------------------------------------
(* pkcs1.c *)

\* 00 01 FF.. 00 DigestInfo hash, and nothing after.
em_is(em, hash) ==
  LET stops == {k \in 3..Len(em) : em[k] # ByteBase - 1}
      i == CHOOSE k \in stops : \A j \in stops : k <= j
  IN  /\ em[1] = 0 /\ em[2] = 1 /\ stops # {}
      /\ i - 3 >= MinPadding /\ em[i] = 0
      /\ SubSeq(em, i + 1, Len(em)) = DigestInfo \o hash

rsa_pkcs1_sha256_verify(n, e, sig, hash) ==
  LET c == mp_init(n)
      s == mp_from_be(sig, Len(c.m))
      m == mp_mont_exp(c, mont32(c, s, c.rr), e)
  IN  /\ Len(n) \in MinBytes..MaxBytes /\ Len(n) % 4 = 0 /\ Len(sig) = Len(n) /\ n[1] >= ByteBase \div 2
      /\ e # <<>> /\ Below(s, c.m)
      /\ em_is(mp_to_be(mont32_reduce(c, m), Len(n)), hash)
=============================================================================

-------------------------------- MODULE X25519 --------------------------------
(***************************************************************************)
(* The key agreement (src/src/crypto/curve25519.c): a field of integers    *)
(* modulo a prime just below a power of two, one bit short of a whole      *)
(* number of limbs, and the Montgomery ladder over it.  The prime is       *)
(* 2^255 - 19 in the program, on sixteen limbs of sixteen bits; its size   *)
(* and the curve are constants, for the code does not depend on them but   *)
(* for the numbers it holds.                                               *)
(***************************************************************************)
EXTENDS Limbs

CONSTANTS
  LimbBase,    \* 2^16
  Size,        \* 16 limbs
  P,           \* the prime, 2^255 - 19
  Fold,        \* what 2^256 is modulo the prime, 38
  InvTop,      \* 253, the bit of P - 2 below its highest
  InvZeros,    \* {2, 4}, the bits of P - 2 that are zero
  A24,         \* 121665
  LowBits,     \* 3, the bits of a scalar that are cleared
  TopBit       \* 254, the one that is set; those above are cleared

Top == LimbBase^Size          \* 2^256
PLimbs == ToDigits(P, Size, LimbBase)
Fe(v) == ToDigits(v, Size, LimbBase)

fe_reduce_once(o) ==
  LET t == Row(Size, LimbBase, 0, LAMBDA k : o[k] - PLimbs[k])
  IN  IF t.carry = 0 THEN t.out ELSE o

fe_add(a, b) == fe_reduce_once(Row(Size, LimbBase, 0, LAMBDA k : a[k] + b[k]).out)

fe_sub(a, b) ==
  LET d == Row(Size, LimbBase, 0, LAMBDA k : a[k] - b[k])
  IN  IF d.carry = 0 THEN d.out ELSE Row(Size, LimbBase, 0, LAMBDA k : d.out[k] + PLimbs[k]).out

\* The product's limbs, each partial product's halves in two columns.
Product(a, b) ==
  LET pairs(s) == {p \in (1..Size) \X (1..Size) : p[1] + p[2] = s}
      column(k) == MapThenSumSet(LAMBDA x : (a[x[1]] * b[x[2]]) % LimbBase, pairs(k + 1))
                 + MapThenSumSet(LAMBDA x : (a[x[1]] * b[x[2]]) \div LimbBase, pairs(k))
  IN  Row(2 * Size, LimbBase, 0, column).out

\* Mutant: the carry of the first fold is dropped.
Folded_once(t) == Row(Size, LimbBase, 0, LAMBDA k : t[k] + (Fold * t[Size + k])).out

\* The high half folded in, and what is carried out of that folded in again; a
\* carry out of the second is dropped.
Folded(t) ==
  LET once == Row(Size, LimbBase, 0, LAMBDA k : t[k] + (Fold * t[Size + k]))
  IN  Row(Size, LimbBase, once.carry * Fold, LAMBDA k : once.out[k]).out

fe_mul(a, b) == fe_reduce_once(fe_reduce_once(Folded(Product(a, b))))
fe_sq(a) == fe_mul(a, a)

\* The top bit of the bytes is not part of the number.
fe_frombytes(n) == fe_reduce_once(Fe(n % (Top \div 2)))
fe_tobytes(a) == Value(a, LimbBase)

\* To the power of P - 2.
fe_inv(i) ==
  FoldLeft(LAMBDA acc, a : Of(LAMBDA c : IF a \in InvZeros THEN fe_sq(c) ELSE fe_mul(fe_sq(c), i), acc),
           i, Reverse([k \in 1..InvTop + 1 |-> k - 1]))

Clamped(scalar) == ((scalar % (2^TopBit)) \div (2^LowBits)) * (2^LowBits) + (2^TopBit)

Swapped(l, r) == IF r = 1 THEN [a |-> l.b, b |-> l.a, c |-> l.d, d |-> l.c] ELSE l

\* The first point doubled, of its sum and difference squared, and the two
\* points added, of their sums and differences multiplied crosswise.
Doubled_and_added(sum2, diff2, da, cb, x) ==
  LET e == fe_sub(sum2, diff2)
  IN  [a |-> fe_mul(sum2, diff2), b |-> fe_sq(fe_add(da, cb)),
       c |-> fe_mul(e, fe_add(fe_mul(e, Fe(A24)), sum2)), d |-> fe_mul(fe_sq(fe_sub(da, cb)), x)]

\* One bit of the ladder: a : c and b : d are two points' coordinates, x their
\* difference's.
Step(l, x) ==
  LET sum == fe_add(l.a, l.c)
      diff == fe_sub(l.a, l.c)
  IN  Doubled_and_added(fe_sq(sum), fe_sq(diff), fe_mul(fe_add(l.b, l.d), diff), fe_mul(fe_sub(l.b, l.d), sum), x)

Ratio(l) == fe_tobytes(fe_mul(l.a, Of(fe_inv, l.c)))

x25519(scalar, point) ==
  LET x == fe_frombytes(point)
  IN  Ratio(FoldLeft(LAMBDA acc, r : Of(LAMBDA v : Swapped(Step(Swapped(v, r), x), r), acc),
                     [a |-> Fe(1), b |-> x, c |-> Fe(0), d |-> Fe(1)], Reverse(ToDigits(Clamped(scalar), TopBit + 1, 2))))
=============================================================================

-------------------------------- MODULE Limbs --------------------------------
(* Numbers as sequences of digits, the lowest first.  *)
EXTENDS Integers, Sequences, SequencesExt

\* F of a value worked out first.  (A chain of needs is deep when each is worked
\* out where the next one asks for it.)
Of(F(_), value) == CHOOSE r \in {F(v) : v \in {value}} : TRUE

Indices(n) == [k \in 1..n |-> k]

\* The one loop of the arithmetic: so many digits from the lowest, what is over
\* carried into the next.  A borrow is a carry below zero.
Row(n, base, carry, Digit(_)) ==
  FoldLeft(LAMBDA acc, k : LET s == Digit(k) + acc.carry
                           IN  [out |-> Append(acc.out, s % base), carry |-> s \div base],
           [out |-> <<>>, carry |-> carry], Indices(n))

Below(a, b) == \E i \in DOMAIN a : a[i] < b[i] /\ \A j \in i + 1..Len(a) : a[j] = b[j]

Zeros(n) == [k \in 1..n |-> 0]

ToDigits(v, n, base) ==
  FoldLeft(LAMBDA acc, k : [out |-> Append(acc.out, acc.left % base), left |-> acc.left \div base],
           [out |-> <<>>, left |-> v], Indices(n)).out

Value(a, base) == FoldRight(LAMBDA d, v : (v * base) + d, a, 0)
=============================================================================

---------------------------- MODULE MarksProofs ----------------------------
(***************************************************************************)
(* The bookmarks and the disk they are on, for every disk, every sound     *)
(* format of it, every file and any number of faults.                      *)
(***************************************************************************)
EXTENDS Marks, FiniteSetTheorems, SequenceTheorems, WellFoundedInduction, TLAPS

-----------------------------------------------------------------------------
(* Numbers and sequences *)

\* A nonempty set of numbers has a lowest.
LEMMA LowestIs ==
  ASSUME NEW S \in SUBSET Nat, S # {}
  PROVE  Lowest(S) \in S /\ \A c \in S : Lowest(S) <= c
<1>1. PICK b \in S : \A c \in S : ~(<<c, b>> \in OpToRel(<, Nat))
  BY NatLessThanWellFounded, WFMin
<1>2. \A c \in S : ~(c < b)
  BY <1>1 DEF OpToRel
<1>3. \A c \in S : b <= c
  BY <1>2
<1> QED BY <1>3 DEF Lowest

\* What holds of 0, and of a number's successor, holds of every number.
LEMMA Counted ==
  ASSUME NEW S \in SUBSET Nat, 0 \in S, \A n \in S : n + 1 \in S
  PROVE  \A n \in Nat : n \in S
<1>1. SUFFICES ASSUME Nat \ S # {} PROVE FALSE
  OBVIOUS
<1> DEFINE m == Lowest(Nat \ S)
<1>2. m \in Nat \ S /\ \A c \in Nat \ S : m <= c
  BY <1>1, LowestIs
<1>3. m # 0
  BY <1>2
<1>4. m - 1 \in Nat /\ m - 1 \in S
  BY <1>2, <1>3
<1>5. (m - 1) + 1 \in S
  BY <1>4
<1> QED BY <1>2, <1>5

\* One put before a sequence.
LEMMA Prepended ==
  ASSUME NEW D, NEW c \in D, NEW q \in Seq(D)
  PROVE  /\ <<c>> \o q \in Seq(D) /\ Len(<<c>> \o q) = Len(q) + 1 /\ <<c>> \o q # <<>>
         /\ (<<c>> \o q)[1] = c
         /\ \A k \in 1..Len(q) : (<<c>> \o q)[k + 1] = q[k]
<1>1. <<c>> \in Seq(D) /\ Len(<<c>>) = 1
  OBVIOUS
<1>2. <<c>> \o q \in Seq(D) /\ Len(<<c>> \o q) = Len(q) + 1
  BY <1>1
<1>3. \A k \in 1..Len(q) : (<<c>> \o q)[k + 1] = q[k]
  BY <1>1
<1> QED BY <1>1, <1>2, <1>3

LEMMA PrependedRange ==
  ASSUME NEW D, NEW c \in D, NEW q \in Seq(D)
  PROVE  Range(<<c>> \o q) = {c} \cup Range(q)
<1> DEFINE w == <<c>> \o q
<1>1. w \in Seq(D) /\ Len(w) = Len(q) + 1 /\ w[1] = c /\ \A j \in 1..Len(q) : w[j + 1] = q[j]
  BY Prepended
<1> HIDE DEF w
<1>2. DOMAIN w = 1..Len(w) /\ DOMAIN q = 1..Len(q) /\ Len(q) \in Nat
  BY <1>1
<1>3. \A j \in DOMAIN w : w[j] \in {c} \cup Range(q)
  <2> SUFFICES ASSUME NEW j \in DOMAIN w, j # 1 PROVE w[j] \in Range(q)
    BY <1>1
  <2>1. j - 1 \in 1..Len(q) /\ (j - 1) + 1 = j
    BY <1>1, <1>2
  <2>2. w[j] = q[j - 1]
    BY <1>1, <2>1
  <2> QED BY <1>2, <2>1, <2>2 DEF Range
<1>4. 1 \in DOMAIN w /\ \A j \in DOMAIN q : j + 1 \in DOMAIN w
  BY <1>1, <1>2
<1>5. {c} \cup Range(q) \subseteq Range(w)
  BY <1>1, <1>2, <1>4 DEF Range
<1>6. Range(w) \subseteq {c} \cup Range(q)
  BY <1>3 DEF Range
<1> QED BY <1>5, <1>6 DEF w

\* A sequence is its first and the others.
LEMMA Split ==
  ASSUME NEW D, NEW s \in Seq(D), s # <<>>
  PROVE  /\ Tail(s) \in Seq(D) /\ Len(Tail(s)) = Len(s) - 1
         /\ \A k \in 1..Len(s) - 1 : Tail(s)[k] = s[k + 1]
         /\ s = <<s[1]>> \o Tail(s)
<1>1. Tail(s) \in Seq(D) /\ Len(Tail(s)) = Len(s) - 1 /\ \A k \in 1..Len(s) - 1 : Tail(s)[k] = s[k + 1]
  OBVIOUS
<1>2. s[1] \in D /\ Len(s) \in Nat /\ Len(s) > 0
  OBVIOUS
<1> DEFINE t == <<s[1]>> \o Tail(s)
<1>3. t \in Seq(D) /\ Len(t) = Len(s) /\ t[1] = s[1] /\ \A k \in 1..Len(s) - 1 : t[k + 1] = s[k + 1]
  BY <1>1, <1>2, Prepended
<1> HIDE DEF t
<1>4. \A k \in 1..Len(s) : t[k] = s[k]
  <2> SUFFICES ASSUME NEW k \in 1..Len(s) PROVE t[k] = s[k]
    OBVIOUS
  <2>1. CASE k = 1
    BY <1>3, <2>1
  <2>2. CASE k # 1
    <3>1. k - 1 \in 1..Len(s) - 1 /\ (k - 1) + 1 = k
      BY <1>2, <2>2
    <3> QED BY <1>3, <3>1
  <2> QED BY <2>1, <2>2
<1>5. s = t
  BY <1>3, <1>4, SeqEqual
<1> QED BY <1>1, <1>5 DEF t

-----------------------------------------------------------------------------
(* Chains *)

\* Blocks that are linked to one another, or to none.
Blocks(blocks) ==
  /\ IsFiniteSet(DOMAIN blocks) /\ DOMAIN blocks \subseteq Nat \ {0}
  /\ \A b \in DOMAIN blocks : blocks[b].next \in {0} \cup DOMAIN blocks

\* s leads along the links from b.
Linked(blocks, b, s) ==
  /\ s \in Seq(DOMAIN blocks) /\ s # <<>> /\ s[1] = b
  /\ \A k \in 1..Len(s) - 1 : blocks[s[k]].next = s[k + 1]

\* ... and to the end.
Whole(blocks, b, s) == Linked(blocks, b, s) /\ blocks[Last(s)].next = 0

\* Walk is what its definition says it is.
LEMMA WalkIs ==
  ASSUME NEW blocks, Blocks(blocks)
  PROVE  Walk(blocks) = [k \in 0..Cardinality(DOMAIN blocks) |->
           [c \in {0} \cup DOMAIN blocks |->
              IF k = 0 \/ c = 0 THEN <<>> ELSE <<c>> \o Walk(blocks)[k - 1][blocks[c].next]]]
<1> DEFINE D == {0} \cup DOMAIN blocks
           Body(g, k) == [c \in D |-> IF k = 0 \/ c = 0 THEN <<>> ELSE <<c>> \o g[k - 1][blocks[c].next]]
           Is(g, n) == g = [k \in 0..n |-> Body(g, k)]
           S == {n \in Nat : \E g : Is(g, n)}
<1>1. 0 \in S
  <2> DEFINE g == [k \in 0..0 |-> [c \in D |-> <<>>]]
  <2>1. g = [k \in 0..0 |-> Body(g, k)]
    <3>1. \A k \in 0..0 : [c \in D |-> <<>>] = Body(g, k)
      OBVIOUS
    <3> HIDE DEF Body
    <3> QED BY <3>1
  <2> QED BY <2>1
<1>2. ASSUME NEW n \in S PROVE n + 1 \in S
  <2>1. PICK g : Is(g, n)
    BY <1>2
  <2> DEFINE h == [k \in 0..n + 1 |-> Body(g, k)]
  <2>2. \A k \in 0..n : h[k] = g[k]
    <3> HIDE DEF Body
    <3> QED BY <2>1
  <2>3. \A k \in 0..n + 1 : Body(h, k) = Body(g, k)
    <3> SUFFICES ASSUME NEW k \in 0..n + 1 PROVE Body(h, k) = Body(g, k)
      OBVIOUS
    <3>1. k = 0 \/ h[k - 1] = g[k - 1]
      <4> HIDE DEF h
      <4> QED BY <2>2
    <3> HIDE DEF h
    <3> QED BY <3>1
  <2>4. Is(h, n + 1)
    <3>1. h = [k \in 0..n + 1 |-> Body(g, k)]
      OBVIOUS
    <3> HIDE DEF Body, h
    <3>2. [k \in 0..n + 1 |-> Body(g, k)] = [k \in 0..n + 1 |-> Body(h, k)]
      BY <2>3
    <3> QED BY <3>1, <3>2
  <2> HIDE DEF Is, h
  <2> QED BY <2>4
<1>3. Cardinality(DOMAIN blocks) \in Nat
  BY FS_CardinalityType DEF Blocks
<1>4. \E g : Is(g, Cardinality(DOMAIN blocks))
  <2> HIDE DEF Is
  <2>1. \A n \in Nat : n \in S
    BY <1>1, <1>2, Counted
  <2> QED BY <2>1, <1>3
<1> QED BY <1>4 DEF Walk

\* The two ways a walk goes on.
LEMMA WalkStep ==
  ASSUME NEW blocks, Blocks(blocks), NEW k \in 0..Cardinality(DOMAIN blocks)
  PROVE  /\ Walk(blocks)[k][0] = <<>>
         /\ \A c \in DOMAIN blocks :
              Walk(blocks)[k][c] = IF k = 0 THEN <<>> ELSE <<c>> \o Walk(blocks)[k - 1][blocks[c].next]
<1>1. Walk(blocks)[k] = [c \in {0} \cup DOMAIN blocks |->
              IF k = 0 \/ c = 0 THEN <<>> ELSE <<c>> \o Walk(blocks)[k - 1][blocks[c].next]]
  <2> DEFINE walk == Walk(blocks)
             Body(j) == [c \in {0} \cup DOMAIN blocks |->
               IF j = 0 \/ c = 0 THEN <<>> ELSE <<c>> \o walk[j - 1][blocks[c].next]]
  <2>1. walk = [j \in 0..Cardinality(DOMAIN blocks) |-> Body(j)]
    BY WalkIs
  <2> HIDE DEF walk, Body
  <2>2. walk[k] = Body(k)
    BY <2>1
  <2> QED BY <2>2 DEF walk, Body
<1>2. \A c \in DOMAIN blocks : c # 0
  BY DEF Blocks
<1> QED BY <1>1, <1>2

\* A walk of one block more.
LEMMA WalkNext ==
  ASSUME NEW blocks, Blocks(blocks), NEW k \in Nat, k + 1 <= Cardinality(DOMAIN blocks)
  PROVE  \A c \in DOMAIN blocks :
           Walk(blocks)[k + 1][c] = <<c>> \o Walk(blocks)[k][blocks[c].next]
<1>1. Cardinality(DOMAIN blocks) \in Nat
  BY FS_CardinalityType DEF Blocks
<1>2. PICK j \in 0..Cardinality(DOMAIN blocks) : j = k + 1 /\ j # 0 /\ j - 1 = k
  BY <1>1
<1>3. \A c \in DOMAIN blocks :
        Walk(blocks)[j][c] = IF j = 0 THEN <<>> ELSE <<c>> \o Walk(blocks)[j - 1][blocks[c].next]
  BY WalkStep
<1> QED BY <1>2, <1>3

\* A walk stays among the blocks.
LEMMA WalkType ==
  ASSUME NEW blocks, Blocks(blocks)
  PROVE  \A k \in 0..Cardinality(DOMAIN blocks) : \A c \in {0} \cup DOMAIN blocks :
           Walk(blocks)[k][c] \in Seq(DOMAIN blocks)
<1> DEFINE most == Cardinality(DOMAIN blocks)
           S == {k \in Nat : k <= most
             => \A c \in {0} \cup DOMAIN blocks : Walk(blocks)[k][c] \in Seq(DOMAIN blocks)}
<1>1. most \in Nat
  BY FS_CardinalityType DEF Blocks
<1> HIDE DEF most
<1>2. 0 \in S
  <2>1. 0 \in 0..most
    BY <1>1
  <2>2. \A c \in {0} \cup DOMAIN blocks : Walk(blocks)[0][c] = <<>>
    <3>1. /\ Walk(blocks)[0][0] = <<>>
          /\ \A c \in DOMAIN blocks :
               Walk(blocks)[0][c] = IF 0 = 0 THEN <<>> ELSE <<c>> \o Walk(blocks)[0 - 1][blocks[c].next]
      BY <2>1, WalkStep DEF most
    <3> QED BY <3>1
  <2>3. <<>> \in Seq(DOMAIN blocks)
    OBVIOUS
  <2> QED BY <2>2, <2>3
<1>3. ASSUME NEW k \in S PROVE k + 1 \in S
  <2> SUFFICES ASSUME k + 1 <= most, NEW c \in {0} \cup DOMAIN blocks
               PROVE  Walk(blocks)[k + 1][c] \in Seq(DOMAIN blocks)
    OBVIOUS
  <2>1. k + 1 \in 0..most /\ k + 1 # 0 /\ (k + 1) - 1 = k
    BY <1>1
  <2>2. CASE c = 0
    <3>1. Walk(blocks)[k + 1][0] = <<>>
      BY <2>1, WalkStep DEF most
    <3>2. <<>> \in Seq(DOMAIN blocks)
      OBVIOUS
    <3> QED BY <2>2, <3>1, <3>2
  <2>3. CASE c \in DOMAIN blocks
    <3>1. blocks[c].next \in {0} \cup DOMAIN blocks
      BY <2>3 DEF Blocks
    <3>2. Walk(blocks)[k][blocks[c].next] \in Seq(DOMAIN blocks)
      <4>1. k <= most
        BY <1>1, <2>1
      <4>2. \A x \in {0} \cup DOMAIN blocks : Walk(blocks)[k][x] \in Seq(DOMAIN blocks)
        BY <4>1
      <4> QED BY <3>1, <4>2
    <3>3. Walk(blocks)[k + 1][c] = <<c>> \o Walk(blocks)[k][blocks[c].next]
      BY <2>3, WalkNext DEF most
    <3> QED BY <2>3, <3>2, <3>3
  <2> QED BY <2>2, <2>3
<1>4. \A k \in Nat : k \in S
  BY <1>2, <1>3, Counted
<1> QED BY <1>1, <1>4 DEF most

\* ... which stays among the blocks.
LEMMA WalkOn ==
  ASSUME NEW blocks, Blocks(blocks), NEW k \in Nat, k + 1 <= Cardinality(DOMAIN blocks),
           NEW c \in DOMAIN blocks
  PROVE  /\ Walk(blocks)[k + 1][c] = <<c>> \o Walk(blocks)[k][blocks[c].next]
         /\ Walk(blocks)[k][blocks[c].next] \in Seq(DOMAIN blocks)
<1>1. Cardinality(DOMAIN blocks) \in Nat
  BY FS_CardinalityType DEF Blocks
<1>2. k \in 0..Cardinality(DOMAIN blocks)
  BY <1>1
<1>3. blocks[c].next \in {0} \cup DOMAIN blocks
  BY DEF Blocks
<1> QED BY <1>2, <1>3, WalkNext, WalkType

\* A walk follows the links.
LEMMA WalkLinked ==
  ASSUME NEW blocks, Blocks(blocks)
  PROVE  \A k \in 1..Cardinality(DOMAIN blocks) : \A c \in DOMAIN blocks :
           Linked(blocks, c, Walk(blocks)[k][c])
<1> DEFINE most == Cardinality(DOMAIN blocks)
           S == {k \in Nat : 0 < k /\ k <= most
             => \A c \in DOMAIN blocks : Linked(blocks, c, Walk(blocks)[k][c])}
<1>1. most \in Nat
  BY FS_CardinalityType DEF Blocks
<1> HIDE DEF most
<1>2. 0 \in S
  OBVIOUS
<1>3. ASSUME NEW k \in S PROVE k + 1 \in S
  <2> SUFFICES ASSUME k + 1 <= most, NEW c \in DOMAIN blocks
               PROVE  Linked(blocks, c, Walk(blocks)[k + 1][c])
    OBVIOUS
  <2> DEFINE next == blocks[c].next
             rest == Walk(blocks)[k][next]
  <2>1. k + 1 \in 0..most /\ k + 1 # 0 /\ (k + 1) - 1 = k /\ k \in 0..most
    BY <1>1
  <2>2. next \in {0} \cup DOMAIN blocks
    BY DEF Blocks
  <2>3. rest \in Seq(DOMAIN blocks)
    BY <2>1, <2>2, WalkType DEF most
  <2>4. Walk(blocks)[k + 1][c] = <<c>> \o rest
    BY WalkNext DEF most
  <2>5. rest = <<>> \/ (rest # <<>> /\ rest[1] = next
          /\ \A j \in 1..Len(rest) - 1 : blocks[rest[j]].next = rest[j + 1])
    <3>1. CASE k = 0 \/ next = 0
      <4>1. Walk(blocks)[k][0] = <<>> /\ (k = 0 => \A x \in DOMAIN blocks : Walk(blocks)[k][x] = <<>>)
        BY <2>1, WalkStep DEF most
      <4> QED BY <2>2, <3>1, <4>1
    <3>2. CASE k # 0 /\ next \in DOMAIN blocks
      <4>1. 0 < k /\ k <= most
        BY <1>1, <2>1, <3>2
      <4>2. \A x \in DOMAIN blocks : Linked(blocks, x, Walk(blocks)[k][x])
        BY <4>1
      <4> QED BY <3>2, <4>2 DEF Linked
    <3> QED BY <2>2, <3>1, <3>2
  <2> HIDE DEF rest, next
  <2> DEFINE s == <<c>> \o rest
  <2>6. /\ s \in Seq(DOMAIN blocks) /\ Len(s) = Len(rest) + 1 /\ s # <<>> /\ s[1] = c
        /\ \A j \in 1..Len(rest) : s[j + 1] = rest[j]
    BY <2>3, Prepended
  <2> HIDE DEF s
  <2>7. \A j \in 1..Len(s) - 1 : blocks[s[j]].next = s[j + 1]
    <3> SUFFICES ASSUME NEW j \in 1..Len(s) - 1 PROVE blocks[s[j]].next = s[j + 1]
      OBVIOUS
    <3>1. Len(rest) \in Nat /\ j \in 1..Len(rest) /\ rest # <<>>
      BY <2>3, <2>6
    <3>2. CASE j = 1
      BY <2>5, <2>6, <3>1, <3>2 DEF next
    <3>3. CASE j # 1
      <4>1. j - 1 \in 1..Len(rest) - 1 /\ j - 1 \in 1..Len(rest) /\ (j - 1) + 1 = j
        BY <3>1, <3>3
      <4>2. s[j] = rest[j - 1] /\ s[j + 1] = rest[j]
        BY <2>6, <3>1, <4>1
      <4> QED BY <2>5, <3>1, <4>1, <4>2
    <3> QED BY <3>2, <3>3
  <2> QED BY <2>4, <2>6, <2>7 DEF Linked, s
<1>4. \A k \in Nat : k \in S
  BY <1>2, <1>3, Counted
<1> QED BY <1>1, <1>4 DEF most

\* What is linked from a block, as far as is walked, is in the walk.
LEMMA WalkReaches ==
  ASSUME NEW blocks, Blocks(blocks)
  PROVE  \A k \in 0..Cardinality(DOMAIN blocks) : \A c, s :
           Linked(blocks, c, s) /\ Len(s) <= k => Range(s) \subseteq Range(Walk(blocks)[k][c])
<1> DEFINE most == Cardinality(DOMAIN blocks)
           Reaches(k, c, s) == Linked(blocks, c, s) /\ Len(s) <= k
             => Range(s) \subseteq Range(Walk(blocks)[k][c])
           S == {k \in Nat : k <= most => \A c, s : Reaches(k, c, s)}
<1>1. most \in Nat
  BY FS_CardinalityType DEF Blocks
<1> HIDE DEF most
<1>2. 0 \in S
  BY DEF Linked
<1>3. ASSUME NEW k \in S PROVE k + 1 \in S
  <2> SUFFICES ASSUME k + 1 <= most, NEW c, NEW s, Linked(blocks, c, s), Len(s) <= k + 1
               PROVE  Range(s) \subseteq Range(Walk(blocks)[k + 1][c])
    OBVIOUS
  <2>1. k + 1 \in 0..most /\ k + 1 # 0 /\ (k + 1) - 1 = k /\ k \in 0..most /\ k <= most
    BY <1>1
  <2>2. c \in DOMAIN blocks /\ s \in Seq(DOMAIN blocks) /\ s # <<>> /\ s[1] = c
    BY DEF Linked
  <2> DEFINE next == blocks[c].next
             rest == Walk(blocks)[k][next]
  <2>3. next \in {0} \cup DOMAIN blocks
    BY <2>2 DEF Blocks
  <2>4. rest \in Seq(DOMAIN blocks)
    BY <2>1, <2>3, WalkType DEF most
  <2>5. Walk(blocks)[k + 1][c] = <<c>> \o rest
    BY <2>2, WalkNext DEF most
  <2>6. \A x \in 1..Len(s) : s[x] \in {c} \cup Range(rest)
    <3> SUFFICES ASSUME NEW x \in 1..Len(s), x # 1 PROVE s[x] \in Range(rest)
      BY <2>2
    <3> DEFINE t == Tail(s)
    <3>1. t \in Seq(DOMAIN blocks) /\ Len(t) = Len(s) - 1 /\ \A j \in 1..Len(s) - 1 : t[j] = s[j + 1]
      BY <2>2, Split
    <3>2. Len(s) \in Nat /\ Len(s) > 1 /\ x - 1 \in 1..Len(s) - 1 /\ (x - 1) + 1 = x
      BY <2>2
    <3>3. s[2] = next
      BY <2>2, <3>2 DEF Linked
    <3>4. Linked(blocks, next, t)
      <4>1. t # <<>> /\ t[1] = next
        <5>1. 1 \in 1..Len(s) - 1 /\ 1 + 1 = 2 /\ Len(t) # 0
          BY <3>1, <3>2
        <5> HIDE DEF t
        <5> QED BY <3>1, <3>3, <5>1
      <4>2. \A j \in 1..Len(t) - 1 : blocks[t[j]].next = t[j + 1]
        <5> SUFFICES ASSUME NEW j \in 1..Len(t) - 1 PROVE blocks[t[j]].next = t[j + 1]
          OBVIOUS
        <5>1. j \in 1..Len(s) - 1 /\ j + 1 \in 1..Len(s) - 1
          BY <3>1, <3>2
        <5>2. t[j] = s[j + 1] /\ t[j + 1] = s[(j + 1) + 1]
          BY <3>1, <5>1
        <5> QED BY <5>1, <5>2 DEF Linked
      <4> HIDE DEF t
      <4> QED BY <3>1, <4>1, <4>2 DEF Linked
    <3>5. Reaches(k, next, t)
      <4> HIDE DEF Reaches
      <4> QED BY <2>1
    <3>6. Len(t) <= k
      BY <3>1, <3>2
    <3>7. Range(t) \subseteq Range(rest)
      BY <3>4, <3>5, <3>6
    <3>8. t[x - 1] = s[x] /\ x - 1 \in 1..Len(t)
      BY <3>1, <3>2
    <3> HIDE DEF t, rest
    <3>9. t[x - 1] \in Range(t)
      BY <3>1, <3>8 DEF Range
    <3> QED BY <3>7, <3>8, <3>9
  <2> HIDE DEF rest
  <2>7. Range(<<c>> \o rest) = {c} \cup Range(rest)
    BY <2>2, <2>4, PrependedRange
  <2>8. Range(s) \subseteq {c} \cup Range(rest)
    BY <2>2, <2>6 DEF Range
  <2> QED BY <2>5, <2>7, <2>8
<1>4. \A k \in Nat : k \in S
  BY <1>2, <1>3, Counted
<1> QED BY <1>1, <1>4 DEF most

\* A chain that ends comes by no block twice: it would go round for ever.
LEMMA EndsOnce ==
  ASSUME NEW blocks, Blocks(blocks), NEW b, NEW s, Whole(blocks, b, s)
  PROVE  IsInjective(s)
<1> SUFFICES ASSUME NEW i \in DOMAIN s, NEW j \in DOMAIN s, i < j, s[i] = s[j] PROVE FALSE
  <2>1. s \in Seq(DOMAIN blocks)
    BY DEF Whole, Linked
  <2>2. \A i, j \in DOMAIN s : i = j \/ i < j \/ j < i
    BY <2>1
  <2> QED BY <2>2 DEF IsInjective
<1>1. s \in Seq(DOMAIN blocks) /\ DOMAIN s = 1..Len(s) /\ Len(s) \in Nat
  BY DEF Whole, Linked
<1>2. \A k \in 1..Len(s) - 1 : blocks[s[k]].next = s[k + 1]
  BY DEF Whole, Linked
<1> DEFINE S == {n \in Nat : j + n <= Len(s) => s[i + n] = s[j + n]}
<1>3. 0 \in S
  BY <1>1
<1>4. ASSUME NEW n \in S PROVE n + 1 \in S
  <2> SUFFICES ASSUME j + (n + 1) <= Len(s) PROVE s[i + (n + 1)] = s[j + (n + 1)]
    OBVIOUS
  <2>1. s[i + n] = s[j + n]
    BY <1>1
  <2>2. i + n \in 1..Len(s) - 1 /\ j + n \in 1..Len(s) - 1 /\ (i + n) + 1 = i + (n + 1)
          /\ (j + n) + 1 = j + (n + 1)
    BY <1>1
  <2> QED BY <1>2, <2>1, <2>2
<1>5. \A n \in Nat : n \in S
  BY <1>3, <1>4, Counted
<1> DEFINE n == Len(s) - j
<1>6. n \in Nat /\ j + n = Len(s) /\ i + n \in 1..Len(s) - 1 /\ (i + n) + 1 \in 1..Len(s)
  BY <1>1
<1> HIDE DEF n
<1>7. s[i + n] = s[Len(s)]
  <2>1. n \in S
    BY <1>5, <1>6
  <2>2. s[i + n] = s[j + n]
    BY <1>6, <2>1
  <2> QED BY <1>6, <2>2
<1>8. blocks[s[Len(s)]].next = s[(i + n) + 1]
  BY <1>2, <1>6, <1>7
<1>9. s[(i + n) + 1] \in DOMAIN blocks
  BY <1>1, <1>6
<1> QED BY <1>8, <1>9 DEF Whole, Last, Blocks

\* What comes by no block twice is no longer than there are blocks.
LEMMA OnceFits ==
  ASSUME NEW D, IsFiniteSet(D), NEW s \in Seq(D), IsInjective(s)
  PROVE  Len(s) \in 0..Cardinality(D)
<1>1. s \in [1..Len(s) -> D] /\ Len(s) \in Nat
  OBVIOUS
<1>2. s \in Injection(1..Len(s), D)
  BY <1>1 DEF Injection
<1>3. Cardinality(1..Len(s)) <= Cardinality(D)
  BY <1>2, FS_Injection
<1>4. Cardinality(1..Len(s)) = Len(s)
  <2>1. 1 \in Int /\ Len(s) \in Int
    BY <1>1
  <2>2. Cardinality(1..Len(s)) = IF 1 > Len(s) THEN 0 ELSE Len(s) - 1 + 1
    BY <2>1, FS_Interval
  <2> QED BY <1>1, <2>2
<1>5. Cardinality(D) \in Nat
  BY FS_CardinalityType
<1> QED BY <1>1, <1>3, <1>4, <1>5

\* What leads to the end is the walk.
LEMMA WalkWhole ==
  ASSUME NEW blocks, Blocks(blocks)
  PROVE  \A k \in 0..Cardinality(DOMAIN blocks) : \A c, s :
           Whole(blocks, c, s) /\ Len(s) <= k => Walk(blocks)[k][c] = s
<1> DEFINE most == Cardinality(DOMAIN blocks)
           Walked(k, c, s) == Whole(blocks, c, s) /\ Len(s) <= k => Walk(blocks)[k][c] = s
           S == {k \in Nat : k <= most => \A c, s : Walked(k, c, s)}
<1>1. most \in Nat
  BY FS_CardinalityType DEF Blocks
<1> HIDE DEF most
<1>2. 0 \in S
  BY DEF Whole, Linked
<1>3. ASSUME NEW k \in S PROVE k + 1 \in S
  <2> SUFFICES ASSUME k + 1 <= most, NEW c, NEW s, Whole(blocks, c, s), Len(s) <= k + 1
               PROVE  Walk(blocks)[k + 1][c] = s
    OBVIOUS
  <2>1. k + 1 \in 0..most /\ k + 1 # 0 /\ (k + 1) - 1 = k /\ k \in 0..most /\ k <= most
    BY <1>1
  <2>2. c \in DOMAIN blocks /\ s \in Seq(DOMAIN blocks) /\ s # <<>> /\ s[1] = c
    BY DEF Whole, Linked
  <2> DEFINE next == blocks[c].next
             rest == Walk(blocks)[k][next]
             t == Tail(s)
  <2>3. Walk(blocks)[k + 1][c] = <<c>> \o rest
    BY <2>2, WalkOn DEF most
  <2>4. t \in Seq(DOMAIN blocks) /\ Len(t) = Len(s) - 1
          /\ (\A j \in 1..Len(s) - 1 : t[j] = s[j + 1]) /\ s = <<c>> \o t
    BY <2>2, Split
  <2>5. Len(s) \in Nat /\ Len(s) > 0
    BY <2>2
  <2>6. rest = t
    <3>1. CASE Len(s) = 1
      <4>1. next = 0
        BY <2>2, <3>1 DEF Whole, Last
      <4>2. rest = <<>>
        BY <2>1, <4>1, WalkStep DEF most
      <4> HIDE DEF rest, t
      <4> QED BY <2>4, <3>1, <4>2
    <3>2. CASE Len(s) > 1
      <4>1. 1 \in 1..Len(s) - 1 /\ 1 + 1 = 2 /\ Len(t) # 0 /\ Len(t) \in 1..Len(s) - 1
              /\ Len(t) + 1 = Len(s)
        BY <2>4, <2>5, <3>2
      <4>2. s[2] = next
        BY <2>2, <4>1 DEF Whole, Linked
      <4> HIDE DEF t
      <4>3. t # <<>> /\ t[1] = next /\ t[Len(t)] = s[Len(s)]
        BY <2>4, <4>1, <4>2
      <4>4. \A j \in 1..Len(t) - 1 : blocks[t[j]].next = t[j + 1]
        <5> SUFFICES ASSUME NEW j \in 1..Len(t) - 1 PROVE blocks[t[j]].next = t[j + 1]
          OBVIOUS
        <5>1. j \in 1..Len(s) - 1 /\ j + 1 \in 1..Len(s) - 1
          BY <2>4, <2>5
        <5>2. t[j] = s[j + 1] /\ t[j + 1] = s[(j + 1) + 1]
          BY <2>4, <5>1
        <5> QED BY <5>1, <5>2 DEF Whole, Linked
      <4>5. Whole(blocks, next, t)
        BY <2>4, <4>3, <4>4 DEF Whole, Linked, Last
      <4>6. Walked(k, next, t)
        <5> HIDE DEF Walked
        <5> QED BY <2>1
      <4>7. Len(t) <= k
        BY <2>4, <2>5
      <4> QED BY <4>5, <4>6, <4>7
    <3>3. Len(s) = 1 \/ Len(s) > 1
      <4>1. \A n \in Nat : n > 0 => n = 1 \/ n > 1
        OBVIOUS
      <4> HIDE DEF rest, t
      <4> QED BY <2>5, <4>1
    <3> QED BY <3>1, <3>2, <3>3
  <2> HIDE DEF rest, t
  <2> QED BY <2>3, <2>4, <2>6
<1>4. \A k \in Nat : k \in S
  BY <1>2, <1>3, Counted
<1> QED BY <1>1, <1>4 DEF most

\* A walk that meets a block meets it whatever is written in that block.
LEMMA WalkMeets ==
  ASSUME NEW blocks, Blocks(blocks), NEW after, Blocks(after), DOMAIN after = DOMAIN blocks,
         NEW t, \A b \in DOMAIN blocks : b # t => after[b] = blocks[b]
  PROVE  \A k \in 0..Cardinality(DOMAIN blocks) : \A c \in DOMAIN blocks :
           t \in Range(Walk(blocks)[k][c]) => t \in Range(Walk(after)[k][c])
<1> DEFINE most == Cardinality(DOMAIN blocks)
           S == {k \in Nat : k <= most => \A c \in DOMAIN blocks :
                   t \in Range(Walk(blocks)[k][c]) => t \in Range(Walk(after)[k][c])}
<1>1. most \in Nat
  BY FS_CardinalityType DEF Blocks
<1>2. most = Cardinality(DOMAIN after)
  OBVIOUS
<1> HIDE DEF most
<1>3. Range(<<>>) = {}
  BY DEF Range
<1>4. 0 \in S
  <2>1. 0 \in 0..most
    BY <1>1
  <2>2. \A c \in DOMAIN blocks : Walk(blocks)[0][c] = <<>>
    BY <2>1, WalkStep DEF most
  <2> QED BY <1>3, <2>2
<1>5. \A c \in DOMAIN blocks : \A q \in Seq(DOMAIN blocks) : Range(<<c>> \o q) = {c} \cup Range(q)
  BY PrependedRange
<1>6. ASSUME NEW k \in S PROVE k + 1 \in S
  <2> SUFFICES ASSUME k + 1 <= most, NEW c \in DOMAIN blocks, t \in Range(Walk(blocks)[k + 1][c])
               PROVE  t \in Range(Walk(after)[k + 1][c])
    OBVIOUS
  <2>1. k + 1 \in 0..most /\ k + 1 # 0 /\ (k + 1) - 1 = k /\ k \in 0..most /\ k <= most
    BY <1>1
  <2> DEFINE rest == Walk(blocks)[k][blocks[c].next]
             more == Walk(after)[k][after[c].next]
  <2>2. blocks[c].next \in {0} \cup DOMAIN blocks /\ after[c].next \in {0} \cup DOMAIN blocks
    BY DEF Blocks
  <2>3. rest \in Seq(DOMAIN blocks)
    BY <2>1, <2>2, WalkType DEF most
  <2>4. more \in Seq(DOMAIN blocks)
    BY <1>2, <2>1, <2>2, WalkType
  <2>5. Walk(blocks)[k + 1][c] = <<c>> \o rest
    BY WalkNext DEF most
  <2>6. Walk(after)[k + 1][c] = <<c>> \o more
    BY <1>2, WalkOn
  <2>7. c = t \/ t \in Range(rest)
    <3> HIDE DEF rest
    <3> QED BY <1>5, <2>3, <2>5
  <2>8. c = t \/ t \in Range(more)
    <3>1. ASSUME c # t PROVE t \in Range(more)
      <4>1. after[c].next = blocks[c].next
        BY <3>1
      <4>2. \A x \in DOMAIN blocks : t \in Range(Walk(blocks)[k][x]) => t \in Range(Walk(after)[k][x])
        BY <2>1
      <4>3. Walk(blocks)[k][0] = <<>>
        BY <2>1, WalkStep DEF most
      <4>4. t \in Range(Walk(blocks)[k][blocks[c].next])
        BY <2>7, <3>1
      <4>5. blocks[c].next \in DOMAIN blocks
        BY <1>3, <2>2, <4>3, <4>4
      <4> QED BY <4>1, <4>2, <4>4, <4>5
    <3> QED BY <3>1
  <2> HIDE DEF more
  <2> QED BY <1>5, <2>4, <2>6, <2>8
<1>7. \A k \in Nat : k \in S
  BY <1>4, <1>6, Counted
<1> QED BY <1>1, <1>7 DEF most

\* What a chain is: linked, and of few enough blocks.
LEMMA ChainLinked ==
  ASSUME NEW blocks, Blocks(blocks), NEW b \in DOMAIN blocks
  PROVE  Linked(blocks, b, Chain(blocks, b))
<1>1. Cardinality(DOMAIN blocks) \in Nat
  BY FS_CardinalityType DEF Blocks
<1>2. Cardinality(DOMAIN blocks) # 0
  BY FS_EmptySet DEF Blocks
<1>3. Cardinality(DOMAIN blocks) \in 1..Cardinality(DOMAIN blocks)
  BY <1>1, <1>2
<1> QED BY <1>3, WalkLinked DEF Chain

LEMMA ChainType ==
  ASSUME NEW blocks, Blocks(blocks), NEW b \in DOMAIN blocks
  PROVE  /\ Chain(blocks, b) \in Seq(DOMAIN blocks) /\ Chain(blocks, b) # <<>>
         /\ Len(Chain(blocks, b)) \in Nat \ {0} /\ DOMAIN Chain(blocks, b) = 1..Len(Chain(blocks, b))
         /\ Last(Chain(blocks, b)) \in Range(Chain(blocks, b))
         /\ b \in Range(Chain(blocks, b)) /\ Range(Chain(blocks, b)) \subseteq DOMAIN blocks
<1> DEFINE s == Chain(blocks, b)
<1>1. s \in Seq(DOMAIN blocks) /\ s # <<>> /\ s[1] = b
  BY ChainLinked DEF Linked
<1> HIDE DEF s
<1>2. Len(s) \in Nat \ {0} /\ DOMAIN s = 1..Len(s)
  BY <1>1
<1>3. 1 \in DOMAIN s /\ Len(s) \in DOMAIN s /\ \A k \in DOMAIN s : s[k] \in DOMAIN blocks
  BY <1>1, <1>2
<1>4. Last(s) \in Range(s) /\ b \in Range(s) /\ Range(s) \subseteq DOMAIN blocks
  BY <1>1, <1>3 DEF Last, Range
<1> QED BY <1>1, <1>2, <1>4 DEF s

\* A chain that comes to its end.
IsWhole(blocks, b) == b \in DOMAIN blocks /\ blocks[Last(Chain(blocks, b))].next = 0

LEMMA ChainWhole ==
  ASSUME NEW blocks, Blocks(blocks), NEW b, IsWhole(blocks, b)
  PROVE  Whole(blocks, b, Chain(blocks, b)) /\ IsInjective(Chain(blocks, b))
<1>1. Whole(blocks, b, Chain(blocks, b))
  BY ChainLinked DEF IsWhole, Whole
<1> QED BY <1>1, EndsOnce

\* What leads to the end is the chain.
LEMMA WholeChain ==
  ASSUME NEW blocks, Blocks(blocks), NEW b, NEW s, Whole(blocks, b, s)
  PROVE  Chain(blocks, b) = s /\ IsWhole(blocks, b) /\ IsInjective(s)
<1>1. IsInjective(s)
  BY EndsOnce
<1>2. s \in Seq(DOMAIN blocks) /\ s # <<>> /\ s[1] = b
  BY DEF Whole, Linked
<1>3. Len(s) <= Cardinality(DOMAIN blocks)
  BY <1>1, <1>2, OnceFits DEF Blocks
<1>4. Cardinality(DOMAIN blocks) \in 0..Cardinality(DOMAIN blocks)
  BY FS_CardinalityType DEF Blocks
<1>5. Chain(blocks, b) = s
  BY <1>3, <1>4, WalkWhole DEF Chain
<1>6. b \in DOMAIN blocks
  BY <1>2
<1> QED BY <1>1, <1>5, <1>6 DEF IsWhole, Whole

\* A chain stays what it is while nothing is written in its blocks.
LEMMA ChainStays ==
  ASSUME NEW blocks, Blocks(blocks), NEW after, Blocks(after), DOMAIN after = DOMAIN blocks,
         NEW b, IsWhole(blocks, b),
         \A c \in Range(Chain(blocks, b)) : after[c] = blocks[c]
  PROVE  Chain(after, b) = Chain(blocks, b) /\ IsWhole(after, b)
<1> DEFINE s == Chain(blocks, b)
<1>1. Whole(blocks, b, s)
  BY ChainWhole
<1>2. s \in Seq(DOMAIN blocks) /\ s # <<>> /\ \A k \in 1..Len(s) : s[k] \in Range(s)
  BY <1>1 DEF Whole, Linked, Range
<1>3. \A c \in Range(s) : after[c] = blocks[c]
  OBVIOUS
<1> HIDE DEF s
<1>4. Len(s) \in Nat \ {0} /\ Len(s) \in 1..Len(s) /\ \A k \in 1..Len(s) - 1 : k \in 1..Len(s)
  BY <1>2
<1>5. \A k \in 1..Len(s) : after[s[k]] = blocks[s[k]]
  BY <1>2, <1>3
<1>6. Whole(after, b, s)
  BY <1>1, <1>2, <1>4, <1>5 DEF Whole, Linked, Last
<1> QED BY <1>6, WholeChain DEF s

-----------------------------------------------------------------------------
(* The directory and the files *)

\* What is on the disk is blocks linked to blocks.
LEMMA DataBlocks ==
  ASSUME NEW d \in [Data -> DataBlock]
  PROVE  Blocks(d) /\ DOMAIN d = Data
<1>1. IsFiniteSet(Data) /\ Data \subseteq Nat \ {0}
  <2>1. Data \in SUBSET Block /\ IsFiniteSet(Block) /\ Block \subseteq Nat \ {0}
    BY DiskAssumption DEF Block
  <2> QED BY <2>1, FS_Subset
<1>2. \A b \in Data : d[b] \in DataBlock
  OBVIOUS
<1>3. \A b \in Data : d[b].next \in {0} \cup Data
  BY <1>2 DEF DataBlock
<1> QED BY <1>1, <1>3 DEF Blocks

LEMMA DirBlocks ==
  ASSUME NEW d \in [DirTrack -> DirBlock]
  PROVE  Blocks(d) /\ DOMAIN d = DirTrack
<1>1. IsFiniteSet(DirTrack) /\ DirTrack \subseteq Nat \ {0}
  <2>1. DirTrack \in SUBSET Block /\ IsFiniteSet(Block) /\ Block \subseteq Nat \ {0}
    BY DiskAssumption DEF Block
  <2> QED BY <2>1, FS_Subset
<1>2. \A b \in DirTrack : d[b] \in DirBlock
  OBVIOUS
<1>3. \A b \in DirTrack : d[b].next \in {0} \cup DirTrack
  BY <1>2 DEF DirBlock
<1> QED BY <1>1, <1>3 DEF Blocks

\* The types of the disk itself.
DiskOK == data \in [Data -> DataBlock] /\ dir \in [DirTrack -> DirBlock] /\ map \in Maps

LEMMA DirsType ==
  ASSUME DiskOK
  PROVE  /\ Dirs \in Seq(DirTrack) /\ Dirs # <<>> /\ Len(Dirs) \in Nat \ {0} /\ DOMAIN Dirs = 1..Len(Dirs)
         /\ Last(Dirs) \in Range(Dirs) /\ DirFirst \in Range(Dirs) /\ Range(Dirs) \subseteq DirTrack
<1>1. Blocks(dir) /\ DOMAIN dir = DirTrack
  BY DirBlocks DEF DiskOK
<1>2. DirFirst \in DOMAIN dir
  BY <1>1, DiskAssumption
<1> QED BY <1>1, <1>2, ChainType DEF Dirs

\* A place of the directory's, and the entry in it.
LEMMA EntryType ==
  ASSUME DiskOK, NEW p \in DirTrack \X (1..Slots)
  PROVE  /\ p[1] \in DirTrack /\ p[2] \in 1..Slots /\ p = <<p[1], p[2]>>
         /\ Entry(p) \in [name : Name, first : Data] \cup {Empty}
         /\ Entry(p).name # NoName => Entry(p).name \in Name /\ Entry(p).first \in Data
         /\ Entry(p).name = NoName => Entry(p) = Empty
<1>1. p[1] \in DirTrack /\ p[2] \in 1..Slots /\ p = <<p[1], p[2]>>
  OBVIOUS
<1>2. dir[p[1]] \in DirBlock
  BY <1>1 DEF DiskOK
<1>3. dir[p[1]].slots \in [1..Slots -> [name : Name, first : Data] \cup {Empty}]
  BY <1>2 DEF DirBlock
<1>4. Entry(p) \in [name : Name, first : Data] \cup {Empty}
  BY <1>1, <1>3 DEF Entry
<1>5. Empty.name = NoName
  BY DEF Empty
<1>6. \A e \in [name : Name, first : Data] : e.name \in Name /\ e.first \in Data
  OBVIOUS
<1> QED BY <1>1, <1>4, <1>5, <1>6, DiskAssumption

LEMMA ListingType ==
  ASSUME DiskOK
  PROVE  /\ Listing \subseteq DirTrack \X (1..Slots)
         /\ \A p \in Listing : p[1] \in Range(Dirs) /\ p[2] \in 1..Slots /\ p = <<p[1], p[2]>>
         /\ Files \subseteq Listing /\ \A n : Places(n) \subseteq Listing
<1>1. Range(Dirs) \subseteq DirTrack
  BY DirsType
<1> QED BY <1>1 DEF Listing, Files, Places

\* The blocks of a file are data blocks.
LEMMA FileType ==
  ASSUME DiskOK, NEW p \in Files
  PROVE  /\ Entry(p).name \in Name /\ Entry(p).first \in Data
         /\ BlocksAt(p) \subseteq Data /\ BlocksAt(p) # {} /\ BlocksAt(p) \cap DirTrack = {}
<1>1. p \in DirTrack \X (1..Slots) /\ Entry(p).name # NoName
  BY ListingType DEF Files
<1>2. Entry(p).name \in Name /\ Entry(p).first \in Data
  BY <1>1, EntryType
<1>3. Blocks(data) /\ DOMAIN data = Data
  BY DataBlocks DEF DiskOK
<1>4. BlocksAt(p) \subseteq Data /\ Entry(p).first \in BlocksAt(p)
  BY <1>2, <1>3, ChainType DEF BlocksAt
<1> QED BY <1>2, <1>4, DiskAssumption

\* What is in use, without the union.
LEMMA UsedIs ==
  \A b : b \in UsedBlocks <=> b \in Range(Dirs) \/ \E p \in Files : b \in BlocksAt(p)
BY DEF UsedBlocks

\* No two places are each before the other.
LEMMA BeforeOnce ==
  ASSUME DiskOK, NEW p \in Listing, NEW q \in Listing, Before(p, q)
  PROVE  ~Before(q, p)
<1>1. DOMAIN Dirs = 1..Len(Dirs) /\ Len(Dirs) \in Nat
  BY DirsType
<1>2. p[2] \in Nat /\ q[2] \in Nat
  <2>1. p[2] \in 1..Slots /\ q[2] \in 1..Slots /\ Slots \in Nat
    BY ListingType, DiskAssumption
  <2> QED BY <2>1
<1>3. CASE p[1] = q[1] /\ p[2] < q[2]
  <2>1. ~(q[2] < p[2])
    BY <1>2, <1>3
  <2>2. \A k \in DOMAIN Dirs : k \in 1..k
    BY <1>1
  <2> QED BY <1>3, <2>1, <2>2 DEF Before
<1>4. CASE \E k \in DOMAIN Dirs : Dirs[k] = p[1] /\ \A j \in 1..k : Dirs[j] # q[1]
  <2>1. PICK k \in DOMAIN Dirs : Dirs[k] = p[1] /\ \A j \in 1..k : Dirs[j] # q[1]
    BY <1>4
  <2>2. k \in 1..k
    BY <1>1
  <2>3. p[1] # q[1]
    BY <2>1, <2>2
  <2>4. ASSUME NEW i \in DOMAIN Dirs, Dirs[i] = q[1], \A j \in 1..i : Dirs[j] # p[1] PROVE FALSE
    <3>1. i \notin 1..k /\ k \notin 1..i
      BY <2>1, <2>4
    <3> QED BY <1>1, <3>1
  <2> QED BY <2>3, <2>4 DEF Before
<1> QED BY <1>3, <1>4 DEF Before

\* Of any places one is first.
LEMMA ForemostIn ==
  ASSUME DiskOK, NEW S \in SUBSET Listing, S # {}
  PROVE  Foremost(S) \in S /\ \A q \in S : q # Foremost(S) => Before(Foremost(S), q)
<1>1. DOMAIN Dirs = 1..Len(Dirs) /\ Len(Dirs) \in Nat /\ Slots \in Nat
  BY DirsType, DiskAssumption
<1>2. \A q \in S : q[1] \in Range(Dirs) /\ q[2] \in 1..Slots /\ q = <<q[1], q[2]>>
  BY ListingType
<1> DEFINE K == {k \in DOMAIN Dirs : \E p \in S : p[1] = Dirs[k]}
           k == Lowest(K)
           E == {e \in 1..Slots : <<Dirs[k], e>> \in S}
           e == Lowest(E)
<1>3. k \in K /\ \A j \in K : k <= j
  <2>1. K \in SUBSET Nat
    BY <1>1
  <2>2. K # {}
    BY <1>2 DEF Range
  <2> HIDE DEF K
  <2> QED BY <2>1, <2>2, LowestIs
<1>4. e \in E /\ \A j \in E : e <= j
  <2>1. E \in SUBSET Nat
    BY <1>1
  <2>2. E # {}
    <3>1. PICK p \in S : p[1] = Dirs[k]
      BY <1>3
    <3> HIDE DEF k
    <3> QED BY <1>2, <3>1
  <2> HIDE DEF E
  <2> QED BY <2>1, <2>2, LowestIs
<1>5. k \in 1..Len(Dirs)
  BY <1>1, <1>3
<1> HIDE DEF k, e
<1> DEFINE p == <<Dirs[k], e>>
<1>6. p \in S
  BY <1>4
<1>7. ASSUME NEW q \in S, q # p PROVE Before(p, q)
  <2>1. CASE q[1] = Dirs[k]
    <3>1. q[2] \in E
      BY <1>2, <2>1
    <3>2. e <= q[2] /\ e # q[2] /\ e \in Nat /\ q[2] \in Nat
      BY <1>1, <1>2, <1>4, <1>7, <2>1, <3>1
    <3> QED BY <2>1, <3>2 DEF Before
  <2>2. CASE q[1] # Dirs[k]
    <3>1. \A j \in 1..k : Dirs[j] # q[1]
      <4> SUFFICES ASSUME NEW j \in 1..k, Dirs[j] = q[1] PROVE FALSE
        OBVIOUS
      <4>1. j \in DOMAIN Dirs
        BY <1>1, <1>5
      <4>2. j \in K
        BY <4>1
      <4>3. j = k
        BY <1>1, <1>3, <1>5, <4>2
      <4> QED BY <2>2, <4>3
    <3> QED BY <1>1, <1>5, <3>1 DEF Before
  <2> QED BY <2>1, <2>2
<1> HIDE DEF p
<1> QED BY <1>6, <1>7, Zenon DEF Foremost

LEMMA ForemostIs ==
  DiskOK => \A S \in SUBSET Listing : \A p \in S :
              (\A q \in S : q # p => Before(p, q)) => Foremost(S) = p
BY ForemostIn, BeforeOnce

LEMMA ForemostIsNext ==
  (DiskOK => \A S \in SUBSET Listing : \A p \in S :
               (\A q \in S : q # p => Before(p, q)) => Foremost(S) = p)'
BY ForemostIs, PTL

-----------------------------------------------------------------------------
(* What a write does to the files *)

\* Every chain comes to its end, and no block is in two files.
Tidy ==
  /\ IsWhole(dir, DirFirst)
  /\ \A p \in Files : IsWhole(data, Entry(p).first)
  /\ \A p, q \in Files : p # q => BlocksAt(p) \cap BlocksAt(q) = {}

\* The directory as it was.
LEMMA SameDir ==
  ASSUME dir' = dir
  PROVE  /\ Dirs' = Dirs /\ Listing' = Listing /\ Files' = Files
         /\ \A p : Entry(p)' = Entry(p)
         /\ \A n : Places(n)' = Places(n)
BY DEF Dirs, Listing, Files, Entry, Places

\* A file whose blocks and whose place in the directory's order stay what they
\* are holds what it held.
LEMMA HeldStays ==
  ASSUME DiskOK, DiskOK', NEW b \in Data, IsWhole(data, b),
           \A c \in Range(Chain(data, b)) : data'[c] = data[c]
  PROVE  Chain(data, b)' = Chain(data, b) /\ IsWhole(data, b)'
           /\ Held(Chain(data, b))' = Held(Chain(data, b))
<1>1. Blocks(data) /\ DOMAIN data = Data /\ Blocks(data') /\ DOMAIN data' = Data
  BY DataBlocks DEF DiskOK
<1>2. Chain(data', b) = Chain(data, b) /\ IsWhole(data', b)
  BY <1>1, ChainStays
<1> DEFINE s == Chain(data, b)
<1>3. \A k \in DOMAIN s : data'[s[k]].holds = data[s[k]].holds
  BY DEF Range
<1> HIDE DEF s
<1>4. [k \in DOMAIN s |-> data'[s[k]].holds] = [k \in DOMAIN s |-> data[s[k]].holds]
  BY <1>3
<1>5. Held(s) = [k \in DOMAIN s |-> data[s[k]].holds]
        /\ Held(Chain(data, b))' = [k \in DOMAIN s |-> data'[s[k]].holds]
  BY <1>2 DEF Held, s
<1> QED BY <1>2, <1>4, <1>5 DEF s

\* Two disks on which name n is found in the same places, met in the same order,
\* and leads to blocks that hold the same.
LEMMA ContentsStay ==
  ASSUME DiskOK, DiskOK', Tidy, NEW n \in Name,
         Places(n)' = Places(n),
         \A p, q \in Places(n) : Before(p, q) => Before(p, q)',
         \A p \in Places(n) : Entry(p)' = Entry(p) /\ \A c \in BlocksAt(p) : data'[c] = data[c]
  PROVE  Contents(n)' = Contents(n)
<1>1. CASE Places(n) = {}
  BY <1>1 DEF Contents
<1>2. CASE Places(n) # {}
  <2>1. PICK p \in Places(n) : p = Foremost(Places(n)) /\ \A q \in Places(n) : q # p => Before(p, q)
    BY <1>2, ListingType, ForemostIn
  <2>2. PICK S : S = Places(n)
    OBVIOUS
  <2>3. Foremost(S)' = p
    <3>1. \A R \in SUBSET Listing' : \A r \in R :
              (\A q \in R : q # r => Before(r, q)') => Foremost(R)' = r
      BY ForemostIsNext
    <3>2. S \subseteq Listing'
      BY <2>2 DEF Places
    <3>3. \A q \in S : q # p => Before(p, q)'
      BY <2>1, <2>2
    <3> QED BY <2>1, <2>2, <3>1, <3>2, <3>3
  <2>4. p \in Files /\ Places(n)' = S /\ Places(n)' # {}
    BY <1>2, <2>1, <2>2, DiskAssumption DEF Places, Files
  <2>5. PICK b \in Data : b = Entry(p).first /\ IsWhole(data, b)
    BY <2>4, FileType DEF Tidy
  <2>6. Entry(p)' = Entry(p) /\ \A c \in Range(Chain(data, b)) : data'[c] = data[c]
    BY <2>1, <2>5 DEF BlocksAt
  <2>7. Held(Chain(data, b))' = Held(Chain(data, b))
    BY <2>5, <2>6, HeldStays
  <2>8. Contents(n) = Held(Chain(data, b))
    BY <1>2, <2>1, <2>5 DEF Contents
  <2>9. Contents(n)' = Held(Chain(data, b))'
    <3>1. Foremost(Places(n))' = p
      BY <2>3, <2>4
    <3>2. (Entry(Foremost(Places(n))).first)' = b
      BY <2>5, <2>6, <3>1
    <3> QED BY <2>4, <3>2 DEF Contents
  <2> QED BY <2>7, <2>8, <2>9
<1> QED BY <1>1, <1>2

\* A file whose entry and blocks are not written is where it was.
LEMMA FileStays ==
  ASSUME DiskOK, DiskOK', Tidy, NEW p \in Files, Entry(p)' = Entry(p),
         \A c \in BlocksAt(p) : data'[c] = data[c]
  PROVE  BlocksAt(p)' = BlocksAt(p) /\ IsWhole(data, Entry(p).first)'
<1>1. PICK b \in Data : b = Entry(p).first /\ IsWhole(data, b)
  BY FileType DEF Tidy
<1>2. Chain(data, b)' = Chain(data, b) /\ IsWhole(data, b)'
  BY <1>1, HeldStays DEF BlocksAt
<1>3. (Entry(p).first)' = b
  BY <1>1
<1> QED BY <1>1, <1>2, <1>3 DEF BlocksAt

\* Nothing but a block that is in no file is written.
LEMMA Untouched ==
  ASSUME DiskOK, DiskOK', Tidy, dir' = dir, \A p \in Files : \A c \in BlocksAt(p) : data'[c] = data[c]
  PROVE  /\ Tidy' /\ UsedBlocks' = UsedBlocks
         /\ \A p \in Files : BlocksAt(p)' = BlocksAt(p)
         /\ \A n \in Name : Contents(n)' = Contents(n)
<1>1. Dirs' = Dirs /\ Listing' = Listing /\ Files' = Files /\ (\A p : Entry(p)' = Entry(p))
        /\ \A n : Places(n)' = Places(n)
  BY SameDir
<1>2. \A p \in Files : BlocksAt(p)' = BlocksAt(p) /\ IsWhole(data, Entry(p).first)'
  BY <1>1, FileStays
<1>3. IsWhole(dir, DirFirst)'
  BY DEF Tidy, IsWhole
<1>4. Tidy'
  BY <1>1, <1>2, <1>3 DEF Tidy
<1>5. UsedBlocks' = UsedBlocks
  <2>1. {BlocksAt(p) : p \in Files}' = {BlocksAt(p) : p \in Files}
    BY <1>1, <1>2
  <2> QED BY <1>1, <2>1 DEF UsedBlocks
<1>6. \A p, q : Before(p, q)' = Before(p, q)
  BY <1>1 DEF Before
<1>7. ASSUME NEW n \in Name PROVE Contents(n)' = Contents(n)
  <2>1. \A p \in Places(n) : p \in Files
    BY DiskAssumption DEF Places, Files
  <2> QED BY <1>1, <1>6, <2>1, ContentsStay
<1> QED BY <1>2, <1>4, <1>5, <1>7

\* A free block is linked to the end of the directory.
LEMMA Extended ==
  ASSUME DiskOK, DiskOK', Tidy, data' = data, NEW t \in DirTrack, t \notin Range(Dirs), dir[t] = EmptyDir,
         dir' = [dir EXCEPT ![Last(Dirs)] = [dir[Last(Dirs)] EXCEPT !.next = t]]
  PROVE  /\ Tidy' /\ UsedBlocks' = UsedBlocks \cup {t} /\ Range(Dirs)' = Range(Dirs) \cup {t}
         /\ Files' = Files /\ \A p \in Files : BlocksAt(p)' = BlocksAt(p)
         /\ \A d \in DirTrack \ Range(Dirs) : dir'[d] = dir[d]
         /\ \A n \in Name : Contents(n)' = Contents(n) /\ Places(n)' = Places(n)
<1>1. Blocks(dir) /\ DOMAIN dir = DirTrack /\ Blocks(dir') /\ DOMAIN dir' = DirTrack
  BY DirBlocks DEF DiskOK
<1>2. PICK s : s = Dirs
  OBVIOUS
<1>3. Whole(dir, DirFirst, s) /\ IsInjective(s)
  BY <1>1, <1>2, ChainWhole DEF Tidy, Dirs
<1>4. s \in Seq(DirTrack) /\ s # <<>> /\ Len(s) \in Nat \ {0} /\ DOMAIN s = 1..Len(s) /\ s[1] = DirFirst
  BY <1>1, <1>2, <1>3, DirsType DEF Whole, Linked
<1>5. Last(Dirs) = s[Len(s)] /\ s[Len(s)] \in DirTrack
  BY <1>2, <1>4 DEF Last
<1>6. \A d \in DirTrack : d # s[Len(s)] => dir'[d] = dir[d]
  BY <1>5
<1>7. dir'[s[Len(s)]].next = t /\ dir'[s[Len(s)]].slots = dir[s[Len(s)]].slots
  <2>1. dir[s[Len(s)]] \in DirBlock
    BY <1>5 DEF DiskOK
  <2>2. dir'[s[Len(s)]] = [dir[s[Len(s)]] EXCEPT !.next = t]
    BY <1>1, <1>5
  <2> QED BY <2>1, <2>2 DEF DirBlock
<1>8. \A k \in 1..Len(s) : s[k] \in Range(Dirs)
  BY <1>2, <1>4 DEF Range
<1>9. dir'[t] = dir[t] /\ dir[t].next = 0 /\ dir[t].slots = [i \in 1..Slots |-> Empty]
  BY <1>4, <1>6, <1>8 DEF EmptyDir
<1> DEFINE u == Append(s, t)
<1>10. u \in Seq(DirTrack) /\ Len(u) = Len(s) + 1 /\ u[Len(u)] = t
         /\ (\A k \in 1..Len(s) : u[k] = s[k]) /\ DOMAIN u = 1..Len(u)
  BY <1>4
<1> HIDE DEF u
<1>11. Whole(dir', DirFirst, u)
  <2>1. u # <<>> /\ u[1] = DirFirst
    BY <1>4, <1>10
  <2>2. \A k \in 1..Len(u) - 1 : dir'[u[k]].next = u[k + 1]
    <3> SUFFICES ASSUME NEW k \in 1..Len(s) PROVE dir'[u[k]].next = u[k + 1]
      BY <1>4, <1>10
    <3>1. CASE k = Len(s)
      BY <1>4, <1>7, <1>10, <3>1
    <3>2. CASE k # Len(s)
      <4>1. k \in 1..Len(s) - 1 /\ k + 1 \in 1..Len(s) /\ Len(s) \in DOMAIN s
        BY <1>4, <3>2
      <4>2. s[k] # s[Len(s)] /\ s[k] \in DirTrack
        BY <1>3, <1>4, <3>2, <4>1 DEF IsInjective
      <4>3. dir'[s[k]].next = s[k + 1]
        BY <1>3, <1>6, <4>1, <4>2 DEF Whole, Linked
      <4> QED BY <1>10, <4>1, <4>3
    <3> QED BY <3>1, <3>2
  <2>3. dir'[Last(u)].next = 0
    BY <1>9, <1>10 DEF Last
  <2> QED BY <1>1, <1>10, <2>1, <2>2, <2>3 DEF Whole, Linked
<1>12. Dirs' = u /\ IsWhole(dir, DirFirst)'
  BY <1>1, <1>11, WholeChain DEF Dirs
<1>13. Range(Dirs)' = Range(Dirs) \cup {t}
  <2>1. Range(u) = Range(s) \cup {t}
    <3>1. \A k \in 1..Len(u) : k = Len(u) \/ k \in 1..Len(s)
      BY <1>4, <1>10
    <3>2. \A k \in 1..Len(s) : k \in 1..Len(u)
      BY <1>4, <1>10
    <3>3. Len(u) \in 1..Len(u)
      BY <1>4, <1>10
    <3>4. Range(u) \subseteq Range(s) \cup {t}
      BY <1>4, <1>10, <3>1 DEF Range
    <3>5. Range(s) \subseteq Range(u)
      BY <1>4, <1>10, <3>2 DEF Range
    <3>6. t \in Range(u)
      BY <1>10, <3>3 DEF Range
    <3> QED BY <3>4, <3>5, <3>6
  <2> QED BY <1>2, <1>12, <2>1
<1>14. \A p \in DirTrack \X (1..Slots) : Entry(p)' = Entry(p)
  <2> SUFFICES ASSUME NEW p \in DirTrack \X (1..Slots) PROVE Entry(p)' = Entry(p)
    OBVIOUS
  <2>1. dir'[p[1]].slots = dir[p[1]].slots
    BY <1>6, <1>7
  <2> QED BY <2>1 DEF Entry
<1>15. \A i \in 1..Slots : Entry(<<t, i>>) = Empty
  BY <1>9 DEF Entry
<1>16. \A p \in Listing' : p \in DirTrack \X (1..Slots) /\ (p \in Listing \/ Entry(p) = Empty)
  <2>1. Range(Dirs) \subseteq DirTrack
    BY DirsType
  <2> QED BY <1>13, <1>15, <2>1 DEF Listing
<1>17. Listing \subseteq Listing'
  BY <1>13 DEF Listing
<1>18. \A n \in Name : Places(n)' = Places(n)
  <2>1. \A n \in Name : n # Empty.name
    BY DiskAssumption DEF Empty
  <2> QED BY <1>14, <1>16, <1>17, <2>1, ListingType DEF Places
<1>19. Files' = Files
  <2>1. Empty.name = NoName
    BY DEF Empty
  <2> QED BY <1>14, <1>16, <1>17, <2>1, ListingType DEF Files
<1>20. \A p \in Files : Entry(p)' = Entry(p)
  BY <1>14, ListingType
<1>21. \A p \in Files : BlocksAt(p)' = BlocksAt(p) /\ IsWhole(data, Entry(p).first)'
  BY <1>20, FileStays
<1>22. Tidy'
  BY <1>12, <1>19, <1>21 DEF Tidy
<1>23. UsedBlocks' = UsedBlocks \cup {t}
  <2>1. {BlocksAt(p) : p \in Files}' = {BlocksAt(p) : p \in Files}
    BY <1>19, <1>21
  <2> QED BY <1>13, <2>1 DEF UsedBlocks
<1>24. \A p, q : Before(p, q) => Before(p, q)'
  <2> SUFFICES ASSUME NEW p, NEW q, Before(p, q) PROVE Before(p, q)'
    OBVIOUS
  <2>1. \A k \in DOMAIN Dirs : k \in DOMAIN u /\ u[k] = Dirs[k] /\ \A j \in 1..k : j \in 1..Len(s)
    BY <1>2, <1>4, <1>10
  <2>2. \A k \in DOMAIN Dirs : \A j \in 1..k : u[j] = Dirs[j]
    BY <1>2, <1>10, <2>1
  <2> QED BY <1>12, <2>1, <2>2 DEF Before
<1>25. ASSUME NEW n \in Name PROVE Contents(n)' = Contents(n)
  <2>1. \A p \in Places(n) : p \in Files
    BY DiskAssumption DEF Places, Files
  <2> QED BY <1>18, <1>20, <1>24, <2>1, ContentsStay
<1> QED BY <1>4, <1>5, <1>6, <1>8, <1>13, <1>18, <1>19, <1>21, <1>22, <1>23, <1>25

\* One entry of the directory is written.
LEMMA SlotWritten ==
  ASSUME DiskOK, DiskOK', IsWhole(dir, DirFirst), target \in Listing, NEW x,
         dir' = [dir EXCEPT ![target[1]] = InSlot(x)]
  PROVE  /\ Dirs' = Dirs /\ Listing' = Listing /\ IsWhole(dir, DirFirst)'
         /\ \A p \in DirTrack \X (1..Slots) : p # target => Entry(p)' = Entry(p)
         /\ \A p : p = target => Entry(p)' = x
         /\ \A p, q : Before(p, q)' = Before(p, q)
         /\ \A d \in DirTrack \ Range(Dirs) : dir'[d] = dir[d]
<1>1. Blocks(dir) /\ DOMAIN dir = DirTrack /\ Blocks(dir') /\ DOMAIN dir' = DirTrack
  BY DirBlocks DEF DiskOK
<1>2. PICK d \in DirTrack, e \in 1..Slots : target = <<d, e>> /\ d \in Range(Dirs)
  BY ListingType
<1>3. dir[d] \in DirBlock
  BY DEF DiskOK
<1>4. dir'[d] = [dir[d] EXCEPT !.slots[e] = x]
  BY <1>1, <1>2 DEF InSlot
<1>5. dir'[d].next = dir[d].next /\ dir'[d].slots[e] = x /\ \A i \in 1..Slots : i # e
        => dir'[d].slots[i] = dir[d].slots[i]
  <2>1. PICK r \in DirBlock : r = dir[d]
    BY <1>3
  <2>2. r.slots \in [1..Slots -> [name : Name, first : Data] \cup {Empty}]
    BY DEF DirBlock
  <2>3. DOMAIN r.slots = 1..Slots
    BY <2>2
  <2>4. dir'[d].next = r.next /\ dir'[d].slots = [r.slots EXCEPT ![e] = x]
    <3>1. dir'[d] = [r EXCEPT !.slots = [r.slots EXCEPT ![e] = x]]
      BY <1>4, <2>1
    <3> QED BY <3>1 DEF DirBlock
  <2>5. \A i \in 1..Slots : [r.slots EXCEPT ![e] = x][i] = IF i = e THEN x ELSE r.slots[i]
    BY <2>3
  <2> QED BY <2>1, <2>4, <2>5
<1>6. \A c \in DirTrack : c # d => dir'[c] = dir[c]
  BY <1>1, <1>2
<1>7. \A c \in DirTrack : dir'[c].next = dir[c].next
  BY <1>5, <1>6
<1>8. PICK s : s = Dirs
  OBVIOUS
<1>9. Whole(dir, DirFirst, s)
  BY <1>1, <1>8, ChainWhole DEF Dirs
<1>10. s \in Seq(DirTrack) /\ Len(s) \in Nat \ {0} /\ \A k \in 1..Len(s) : s[k] \in DirTrack
  BY <1>8, DirsType
<1>11. Whole(dir', DirFirst, s)
  BY <1>1, <1>7, <1>9, <1>10 DEF Whole, Linked, Last
<1>12. Dirs' = Dirs /\ IsWhole(dir, DirFirst)'
  BY <1>1, <1>8, <1>11, WholeChain DEF Dirs
<1>13. Listing' = Listing
  BY <1>12 DEF Listing
<1>14. \A p \in DirTrack \X (1..Slots) : p # target => Entry(p)' = Entry(p)
  <2> SUFFICES ASSUME NEW p \in DirTrack \X (1..Slots), p # target PROVE Entry(p)' = Entry(p)
    OBVIOUS
  <2>1. CASE p[1] = d
    BY <1>2, <1>5, <2>1 DEF Entry
  <2>2. CASE p[1] # d
    BY <1>6, <2>2 DEF Entry
  <2> QED BY <2>1, <2>2
<1>15. \A p : p = target => Entry(p)' = x
  BY <1>2, <1>5 DEF Entry
<1>16. \A p, q : Before(p, q)' = Before(p, q)
  BY <1>12 DEF Before
<1> QED BY <1>2, <1>6, <1>12, <1>13, <1>14, <1>15, <1>16

\* A file's entry is written in an empty slot, its blocks being in no other.
LEMMA Entered ==
  ASSUME DiskOK, DiskOK', Tidy, data' = data, target \in Listing, Entry(target) = Empty,
         NEW n \in Name, NEW b \in Data, IsWhole(data, b), Range(Chain(data, b)) \cap UsedBlocks = {},
         dir' = [dir EXCEPT ![target[1]] = InSlot([name |-> n, first |-> b])]
  PROVE  /\ Tidy' /\ UsedBlocks' = UsedBlocks \cup Range(Chain(data, b))
         /\ Files' = Files \cup {target}
         /\ \A m \in Name \ {n} : Contents(m)' = Contents(m)
<1> DEFINE x == [name |-> n, first |-> b]
<1>1. /\ Dirs' = Dirs /\ Listing' = Listing /\ IsWhole(dir, DirFirst)'
      /\ \A p \in DirTrack \X (1..Slots) : p # target => Entry(p)' = Entry(p)
      /\ \A p : p = target => Entry(p)' = x
      /\ \A p, q : Before(p, q)' = Before(p, q)
  BY SlotWritten DEF Tidy
<1>2. x.name = n /\ x.first = b /\ n # NoName /\ Empty.name = NoName
  BY DiskAssumption DEF Empty
<1> HIDE DEF x
<1>3. PICK t \in Listing : t = target
  OBVIOUS
<1>4. Entry(t) = Empty /\ Entry(t)' = x /\ \A p \in Listing : p # t => Entry(p)' = Entry(p)
  <2>1. \A p \in Listing : p \in DirTrack \X (1..Slots)
    BY ListingType
  <2> QED BY <1>1, <1>3, <2>1
<1>5. Files' = Files \cup {t} /\ t \notin Files
  BY <1>1, <1>2, <1>4 DEF Files
<1>6. \A m \in Name \ {n} : Places(m)' = Places(m) /\ t \notin Places(m)
  <2>1. \A m \in Name : m # NoName
    BY DiskAssumption
  <2> QED BY <1>1, <1>2, <1>4, <2>1 DEF Places
<1>7. \A p \in Files : Entry(p)' = Entry(p)
  BY <1>4, <1>5, ListingType
<1>8. \A p \in Files : BlocksAt(p)' = BlocksAt(p) /\ IsWhole(data, Entry(p).first)'
  BY <1>7, FileStays
<1>9. BlocksAt(t)' = Range(Chain(data, b)) /\ IsWhole(data, Entry(t).first)'
  BY <1>2, <1>4 DEF BlocksAt, IsWhole
<1>10. \A p \in Files : BlocksAt(p) \cap Range(Chain(data, b)) = {}
  BY UsedIs
<1>11. Tidy'
  <2>1. \A p \in Files' : IsWhole(data, Entry(p).first)'
    BY <1>5, <1>8, <1>9
  <2>2. \A p, q \in Files' : p # q => BlocksAt(p)' \cap BlocksAt(q)' = {}
    <3> SUFFICES ASSUME NEW p \in Files \cup {t}, NEW q \in Files \cup {t}, p # q
                 PROVE  BlocksAt(p)' \cap BlocksAt(q)' = {}
      BY <1>5
    <3>1. CASE p \in Files /\ q \in Files
      BY <1>8, <3>1 DEF Tidy
    <3>2. CASE p = t /\ q \in Files
      BY <1>8, <1>9, <1>10, <3>2
    <3>3. CASE p \in Files /\ q = t
      BY <1>8, <1>9, <1>10, <3>3
    <3> QED BY <3>1, <3>2, <3>3
  <2> QED BY <1>1, <2>1, <2>2 DEF Tidy
<1>12. UsedBlocks' = UsedBlocks \cup Range(Chain(data, b))
  <2>1. (\A c : c \in UsedBlocks <=> c \in Range(Dirs) \/ \E p \in Files : c \in BlocksAt(p))'
    BY DEF UsedBlocks
  <2>2. \A c : c \in UsedBlocks' <=> c \in Range(Dirs) \/ \E p \in Files \cup {t} : c \in BlocksAt(p)'
    BY <1>1, <1>5, <2>1
  <2>3. \A c : c \in UsedBlocks' <=> c \in UsedBlocks \/ c \in Range(Chain(data, b))
    BY <1>8, <1>9, <2>2, UsedIs
  <2> QED BY <2>3
<1>13. ASSUME NEW m \in Name \ {n} PROVE Contents(m)' = Contents(m)
  <2>1. \A p \in Places(m) : p \in Files
    BY DiskAssumption DEF Places, Files
  <2> QED BY <1>1, <1>6, <1>7, <2>1, ContentsStay
<1> QED BY <1>3, <1>5, <1>11, <1>12, <1>13

\* A file's entry is cleared.
LEMMA Cleared ==
  ASSUME DiskOK, DiskOK', Tidy, data' = data, target \in Files,
         dir' = [dir EXCEPT ![target[1]] = InSlot(Empty)]
  PROVE  /\ Tidy' /\ UsedBlocks' = UsedBlocks \ BlocksAt(target)
         /\ Files' = Files \ {target}
         /\ \A m \in Name \ {Entry(target).name} : Contents(m)' = Contents(m)
<1>1. PICK t \in Files : t = target
  OBVIOUS
<1>2. t \in Listing
  BY ListingType
<1>3. /\ Dirs' = Dirs /\ Listing' = Listing /\ IsWhole(dir, DirFirst)'
      /\ \A p \in DirTrack \X (1..Slots) : p # target => Entry(p)' = Entry(p)
      /\ \A p : p = target => Entry(p)' = Empty
      /\ \A p, q : Before(p, q)' = Before(p, q)
  BY <1>1, <1>2, SlotWritten DEF Tidy
<1>4. Entry(t)' = Empty /\ \A p \in Listing : p # t => Entry(p)' = Entry(p)
  <2>1. \A p \in Listing : p \in DirTrack \X (1..Slots)
    BY ListingType
  <2> QED BY <1>1, <1>3, <2>1
<1>5. Empty.name = NoName
  BY DEF Empty
<1>6. Files' = Files \ {t}
  BY <1>3, <1>4, <1>5 DEF Files
<1>7. \A p \in Files \ {t} : Entry(p)' = Entry(p) /\ BlocksAt(p)' = BlocksAt(p)
        /\ IsWhole(data, Entry(p).first)'
  <2>1. \A p \in Files \ {t} : Entry(p)' = Entry(p)
    BY <1>4, ListingType
  <2> QED BY <2>1, FileStays
<1>8. Tidy'
  BY <1>3, <1>6, <1>7 DEF Tidy
<1>9. UsedBlocks' = UsedBlocks \ BlocksAt(t)
  <2>1. (\A c : c \in UsedBlocks <=> c \in Range(Dirs) \/ \E p \in Files : c \in BlocksAt(p))'
    BY DEF UsedBlocks
  <2>2. \A c : c \in UsedBlocks' <=> c \in Range(Dirs) \/ \E p \in Files \ {t} : c \in BlocksAt(p)
    BY <1>3, <1>6, <1>7, <2>1
  <2>3. Range(Dirs) \cap BlocksAt(t) = {}
    BY DirsType, FileType
  <2>4. \A p \in Files \ {t} : BlocksAt(p) \cap BlocksAt(t) = {}
    BY DEF Tidy
  <2>5. \A c : c \in UsedBlocks' <=> c \in UsedBlocks /\ c \notin BlocksAt(t)
    BY <2>2, <2>3, <2>4, UsedIs
  <2> QED BY <2>5
<1>10. ASSUME NEW m \in Name \ {Entry(t).name} PROVE Contents(m)' = Contents(m)
  <2>1. \A p \in Places(m) : p \in Files \ {t}
    BY DiskAssumption DEF Places, Files
  <2>2. Places(m)' = Places(m)
    <3>1. m # NoName
      BY DiskAssumption
    <3> QED BY <1>2, <1>3, <1>4, <1>5, <3>1 DEF Places
  <2> QED BY <1>3, <1>7, <2>1, <2>2, ContentsStay
<1> QED BY <1>1, <1>6, <1>8, <1>9, <1>10

-----------------------------------------------------------------------------
(* The invariant *)

\* No format of the disk has lost a block.
Exact ==
  \A f \in Formats :
    LET dirs == Chain(f.dir, DirFirst)
        files == {p \in Range(dirs) \X (1..Slots) : f.dir[p[1]].slots[p[2]].name # NoName}
    IN  f.map[1] \cup f.map[2] =
          Block \ (Range(dirs) \cup UNION {Range(Chain(f.data,
            f.dir[p[1]].slots[p[2]].first)) : p \in files})

\* A new file has its last block; the map is being written; a file was made.
Closed == at \in {"slot", "link", "newdir", "entry"}
Mapping == at \in {"bam1", "bam2"}
Done == at = "idle" /\ doing = "create" /\ ret = "OK"

\* Blocks in no file, and those of the directory's track empty.
Clear(S) == S \cap UsedBlocks = {} /\ \A d \in S \cap DirTrack : dir[d] = EmptyDir

\* Blocks of the file being made and of none else.
New(S) ==
  /\ S \cap bam = {}
  /\ ~torn => S \cap UsedBlocks = {}
  /\ Exact /\ faults = 0 => Block \ UsedBlocks = bam \cup S \cup (IF at = "link" THEN {target[1]} ELSE {})

\* The file being filled is in the blocks s, of which the last is to be written.
FillingBy(s) ==
  /\ Linked(data, first, s) /\ cur = Last(s) /\ IsInjective(s) /\ New(Range(s))
  /\ Len(s) = Len(put) + 1 /\ \A k \in 1..Len(put) : data[s[k]].holds = put[k]

\* What was put is in the chain from b.
Placed(b) == IsWhole(data, b) /\ Held(Chain(data, b)) = put

\* How far the operation has come.
Made ==
  /\ at # "idle" \/ Done => name = Cfg
  /\ at = "filling" => doing = "create" /\ \E s \in Seq(Data) : FillingBy(s)
  /\ Closed => doing = "create" /\ Placed(first) /\ New(Range(Chain(data, first)))
  /\ at = "link" => target[1] \in DirTrack /\ target[2] = 1 /\ IsWhole(dir, DirFirst)
  /\ at = "newdir" => target[1] \in Range(Dirs) /\ target[2] = 1
  /\ at = "entry" => target \in Listing /\ Entry(target) = Empty
  /\ (doing = "create" /\ Mapping) \/ Done => target \in Places(Cfg) /\ Placed(Entry(target).first)
  /\ at = "clear" => doing = "delete" /\ target \in Places(Cfg)

\* Which blocks are free on the disk and in memory, and that they can be given
\* away: on the disk not while a new file is in the directory or is about to be
\* and the map does not have it.
Unmapped == at \in {"newdir", "entry"} \/ (doing = "create" /\ Mapping)
Safe ==
  /\ ~Unmapped => Clear(FreeBlocks)
  /\ at \in {"newdir", "entry", "bam1", "bam2"} => Clear(bam)
  /\ at \in {"filling", "slot", "link"} => bam \subseteq FreeBlocks
  /\ at = "clear" => bam \subseteq FreeBlocks \cup BlocksAt(target)
  /\ doing = "create" /\ at = "bam2" => map[1] = SavedIn(1)
  /\ at = "link" => target[1] \in FreeBlocks \ bam
  /\ at = "newdir" => dir[target[1]] = EmptyDir

\* ... and if nothing went wrong, that they are all there are.
Complete ==
  /\ ~(at \in {"newdir", "entry"} \/ Mapping) => FreeBlocks = Block \ UsedBlocks
  /\ Mapping => bam = Block \ UsedBlocks
  /\ at = "clear" => bam = FreeBlocks \cup BlocksAt(target)
  /\ at = "bam2" => map[1] = SavedIn(1)

DiskInv ==
  /\ TypeOK
  /\ Made
  /\ ~torn => Tidy /\ Safe
  /\ Exact /\ faults = 0 => Complete
  /\ faults = 0 => ~torn

\* What a step keeps: all this, and the other files.
OthersStay == ~torn => \A n \in Name \ {Cfg} : Contents(n)' = Contents(n)

-----------------------------------------------------------------------------
(* The steps of the driver *)

\* A free data block is found where there is one.
LEMMA Found ==
  ASSUME NEW S \in SUBSET Block
  PROVE  ~Full(S) => bam_find(S) \in S /\ bam_find(S) \in Data
<1>1. S \cap Data \in SUBSET Nat
  BY DiskAssumption
<1>2. S \cap Data # {} => Lowest(S \cap Data) \in S \cap Data
  BY <1>1, LowestIs
<1> QED BY <1>2 DEF Full, bam_find

\* No block of a file's or of the directory changes.
LEMMA SameFiles ==
  ASSUME data' = data, dir' = dir
  PROVE  /\ Dirs' = Dirs /\ Listing' = Listing /\ Files' = Files
         /\ (\A p : Entry(p)' = Entry(p) /\ BlocksAt(p)' = BlocksAt(p)) /\ (\A n : Places(n)' = Places(n))
         /\ UsedBlocks' = UsedBlocks /\ (\A S : Clear(S)' <=> Clear(S)) /\ (Tidy' <=> Tidy)
         /\ (\A n : Contents(n)' = Contents(n))
<1>1. Dirs' = Dirs /\ Listing' = Listing /\ Files' = Files /\ (\A p : Entry(p)' = Entry(p))
        /\ (\A n : Places(n)' = Places(n))
  BY SameDir
<1>2. \A p : BlocksAt(p)' = BlocksAt(p)
  BY <1>1 DEF BlocksAt
<1>3. UsedBlocks' = UsedBlocks
  BY <1>1, <1>2 DEF UsedBlocks
<1>4. \A S : Clear(S)' <=> Clear(S)
  BY <1>3 DEF Clear
<1>5. Tidy' <=> Tidy
  BY <1>1, <1>2 DEF Tidy, IsWhole
<1>6. \A n : Contents(n)' = Contents(n)
  <2>1. \A p, q : Before(p, q)' = Before(p, q)
    BY <1>1 DEF Before
  <2>2. \A S : Foremost(S)' = Foremost(S)
    BY <2>1 DEF Foremost
  <2>3. \A c : Held(c)' = Held(c)
    BY DEF Held
  <2> QED BY <1>1, <2>2, <2>3 DEF Contents
<1> QED BY <1>1, <1>2, <1>3, <1>4, <1>5, <1>6

\* Nothing on the disk changes.
LEMMA SameDisk ==
  ASSUME data' = data, dir' = dir, map' = map
  PROVE  /\ Dirs' = Dirs /\ Listing' = Listing /\ Files' = Files
         /\ (\A p : Entry(p)' = Entry(p) /\ BlocksAt(p)' = BlocksAt(p)) /\ (\A n : Places(n)' = Places(n))
         /\ UsedBlocks' = UsedBlocks /\ (\A S : Clear(S)' <=> Clear(S)) /\ (Tidy' <=> Tidy)
         /\ (\A n : Contents(n)' = Contents(n))
         /\ FreeBlocks' = FreeBlocks
BY SameFiles DEF FreeBlocks

\* An operation ends that made no file.
LEMMA Ended ==
  ASSUME DiskInv, TypeOK', at' = "idle", ~Done',
         ~torn' => Tidy' /\ Clear(FreeBlocks)',
         Exact /\ faults' = 0 => FreeBlocks' = Block \ UsedBlocks',
         faults' = 0 => ~torn'
  PROVE  DiskInv'
<1>1. Made'
  BY DEF Made, Closed, Mapping
<1>2. Tidy' /\ Clear(FreeBlocks)' => (Tidy /\ Safe)'
  BY DEF Safe
<1>3. FreeBlocks' = Block \ UsedBlocks' => Complete'
  BY DEF Complete, Mapping
<1> QED BY <1>1, <1>2, <1>3 DEF DiskInv

\* At rest with nothing written: an operation refused, a read that failed, a
\* loss of power.
LEMMA Rest ==
  ASSUME DiskInv, data' = data, dir' = dir, map' = map, TypeOK',
         at' = "idle", ~Done', torn' = torn, ~Unmapped \/ torn,
         (faults' = faults /\ ~(at \in {"newdir", "entry"} \/ Mapping)) \/ faults' = faults + 1
  PROVE  DiskInv' /\ OthersStay
<1>1. /\ (\A S : Clear(S)' <=> Clear(S)) /\ (Tidy' <=> Tidy) /\ FreeBlocks' = FreeBlocks
      /\ UsedBlocks' = UsedBlocks /\ \A n : Contents(n)' = Contents(n)
  BY SameDisk
<1>2. Clear(FreeBlocks)' <=> Clear(FreeBlocks)
  BY <1>1 DEF Clear
<1>3. ~torn' => Tidy' /\ Clear(FreeBlocks)'
  BY <1>1, <1>2 DEF DiskInv, Safe
<1>4. faults \in Nat /\ (faults' = 0 => faults = 0 /\ ~(at \in {"newdir", "entry"} \/ Mapping))
  <2>1. faults \in Nat
    BY DiskAssumption DEF DiskInv, TypeOK
  <2> QED BY <2>1
<1>5. Exact /\ faults' = 0 => FreeBlocks' = Block \ UsedBlocks'
  BY <1>1, <1>4 DEF DiskInv, Complete
<1>6. faults' = 0 => ~torn'
  BY <1>4 DEF DiskInv
<1>7. DiskInv'
  BY <1>3, <1>5, <1>6, Ended
<1> QED BY <1>1, <1>7 DEF OthersStay

LEMMA CreateStep ==
  ASSUME DiskInv, cbmdos_create(Cfg)
  PROVE  DiskInv' /\ OthersStay
<1>1. TypeOK /\ data' = data /\ dir' = dir /\ map' = map /\ target' = target /\ at = "idle"
        /\ name' = Cfg /\ doing' = "create" /\ put' = <<>>
  BY DEF cbmdos_create, DiskInv, disk
<1>2. DiskOK /\ bam_load \in SUBSET Block /\ bam_load = FreeBlocks
  BY <1>1 DEF TypeOK, DiskOK, Maps, Block, Data, bam_load, FreeBlocks
<1>3. torn' = torn /\ (faults' = faults \/ (faults' = faults + 1 /\ faults < MaxFaults))
  BY <1>1 DEF cbmdos_create, Fine, Trouble, TypeOK
<1>4. faults' \in 0..MaxFaults /\ torn' \in BOOLEAN /\ Cfg \in Name /\ <<>> \in Seq(Item)
  BY <1>1, <1>3, DiskAssumption, MarksAssumption DEF TypeOK
<1>5. ~Mapping /\ ~Unmapped /\ at \notin {"newdir", "entry"}
  BY <1>1 DEF Mapping, Unmapped
<1>6. CASE /\ at' = "idle" /\ ret' \in {"EXISTS", "IO", "FULL"}
           /\ bam' \in {bam, bam_load} /\ UNCHANGED <<first, cur>>
  <2>1. TypeOK'
    BY <1>1, <1>2, <1>4, <1>6 DEF TypeOK
  <2>2. ~Done'
    BY <1>6 DEF Done
  <2> QED BY <1>1, <1>3, <1>5, <1>6, <2>1, <2>2, Rest
<1>7. CASE /\ ~Full(bam_load) /\ bam' = bam_alloc(bam_load, bam_find(bam_load))
           /\ first' = bam_find(bam_load) /\ cur' = first' /\ Goto("filling")
  <2>1. PICK f \in Data : f = bam_find(bam_load) /\ f \in FreeBlocks
    BY <1>2, <1>7, Found
  <2>2. bam' = FreeBlocks \ {f} /\ first' = f /\ cur' = f /\ at' = "filling" /\ ret' = ret
    BY <1>2, <1>7, <2>1 DEF bam_alloc, Goto
  <2>3. TypeOK'
    BY <1>1, <1>2, <1>4, <2>1, <2>2 DEF TypeOK
  <2>4. /\ (\A S : Clear(S)' <=> Clear(S)) /\ (Tidy' <=> Tidy) /\ FreeBlocks' = FreeBlocks
        /\ UsedBlocks' = UsedBlocks /\ \A n : Contents(n)' = Contents(n)
    BY <1>1, SameDisk
  <2>5. ~torn => Tidy /\ Clear(FreeBlocks)
    BY <1>5 DEF DiskInv, Safe
  <2>6. ~torn => Tidy' /\ Clear(FreeBlocks)'
    BY <2>4, <2>5 DEF Clear
  <2>7. ~torn' => Tidy' /\ Safe'
    BY <1>1, <1>3, <2>2, <2>4, <2>6 DEF Safe
  <2>8. faults' = 0 => faults = 0
    BY <1>1, <1>3, DiskAssumption DEF TypeOK
  <2>9. Exact /\ faults' = 0 => FreeBlocks = Block \ UsedBlocks
    BY <1>1, <1>5, <2>8 DEF DiskInv, Complete
  <2>10. Exact /\ faults' = 0 => Complete'
    BY <2>2, <2>4, <2>9 DEF Complete, Mapping
  <2> DEFINE s == <<f>>
  <2>11. s \in Seq(Data) /\ Len(s) = 1 /\ s # <<>> /\ s[1] = f /\ Last(s) = f /\ DOMAIN s = 1..1
           /\ Range(s) = {f}
    BY DEF Last, Range
  <2> HIDE DEF s
  <2>12. New(Range(s))'
    BY <1>3, <2>1, <2>2, <2>4, <2>5, <2>9, <2>11 DEF New, Clear
  <2>13. Linked(data', f, s) /\ IsInjective(s)
    <3>1. DOMAIN data' = Data
      BY <1>1 DEF TypeOK
    <3> QED BY <2>11, <3>1 DEF Linked, IsInjective
  <2>14. Len(put') = 0
    BY <1>1
  <2>15. FillingBy(s)'
    BY <2>2, <2>11, <2>12, <2>13, <2>14 DEF FillingBy
  <2>16. Made'
    BY <1>1, <2>2, <2>11, <2>15 DEF Made, Closed, Mapping, Done
  <2>17. faults' = 0 => ~torn'
    BY <1>3, <2>8 DEF DiskInv
  <2> QED BY <2>3, <2>4, <2>7, <2>10, <2>16, <2>17 DEF DiskInv, OthersStay
<1> QED BY <1>6, <1>7 DEF cbmdos_create, Return

\* The last block of the file being filled is written and linked to a free one.
Grown(blocks, s, after, u, b, x) ==
  /\ u \in Seq(Data) /\ Linked(after, s[1], u) /\ IsInjective(u)
  /\ Last(u) = b /\ Len(u) = Len(s) + 1 /\ Range(u) = Range(s) \cup {b}
  /\ \A k \in 1..Len(s) - 1 : u[k] = s[k] /\ after[s[k]] = blocks[s[k]]
  /\ u[Len(s)] = s[Len(s)] /\ after[s[Len(s)]].holds = x

LEMMA Longer ==
  ASSUME NEW blocks, DOMAIN blocks = Data, NEW s \in Seq(Data), Linked(blocks, s[1], s), IsInjective(s),
         NEW b \in Data \ Range(s), NEW x, NEW last, last = Last(s),
         NEW after, DOMAIN after = Data, after[last].next = b, after[last].holds = x,
         \A c \in Data : c # last => after[c] = blocks[c]
  PROVE  \E u : Grown(blocks, s, after, u, b, x)
<1> DEFINE v == Append(s, b)
<1>1. PICK u : u = v
  OBVIOUS
<1>2. s # <<>> /\ Len(s) \in Nat \ {0} /\ DOMAIN s = 1..Len(s) /\ DOMAIN blocks = Data
        /\ DOMAIN after = Data
  BY DEF Linked
<1>3. last = s[Len(s)] /\ Len(s) \in DOMAIN s /\ s[Len(s)] \in Data
  BY <1>2 DEF Last
<1>4. u \in Seq(Data) /\ Len(u) = Len(s) + 1 /\ u[Len(u)] = b
        /\ (\A k \in 1..Len(s) : u[k] = s[k]) /\ DOMAIN u = 1..Len(u)
  BY <1>2, <1>1
<1>5. \A n \in Nat \ {0} : \A k \in 1..n : k # n => k \in 1..n - 1 /\ k + 1 \in 1..n
  OBVIOUS
<1>6. \A n \in Nat \ {0} : \A k \in 1..n - 1 : k \in 1..n /\ k # n
  OBVIOUS
<1>7. \A k \in 1..Len(s) - 1 : k \in DOMAIN s /\ s[k] \in Data /\ s[k] # s[Len(s)]
  <2> SUFFICES ASSUME NEW k \in 1..Len(s) - 1 PROVE k \in DOMAIN s /\ s[k] \in Data /\ s[k] # s[Len(s)]
    OBVIOUS
  <2>1. k \in DOMAIN s /\ k # Len(s)
    BY <1>2, <1>6, Zenon
  <2> QED BY <1>3, <2>1 DEF IsInjective
<1>8. \A k \in 1..Len(s) - 1 : after[s[k]] = blocks[s[k]]
  BY <1>2, <1>3, <1>7
<1>9. after[s[Len(s)]].next = b /\ after[s[Len(s)]].holds = x
  BY <1>2, <1>3
<1>10. u # <<>> /\ u[1] = s[1]
  BY <1>2, <1>4
<1>11. \A k \in 1..Len(u) - 1 : after[u[k]].next = u[k + 1]
  <2> SUFFICES ASSUME NEW k \in 1..Len(s) PROVE after[u[k]].next = u[k + 1]
    BY <1>2, <1>4
  <2>1. CASE k = Len(s)
    BY <1>2, <1>4, <1>9, <2>1
  <2>2. CASE k # Len(s)
    <3>1. k \in 1..Len(s) - 1 /\ k + 1 \in 1..Len(s)
      BY <1>5, <1>2, <2>2, Zenon
    <3> QED BY <1>4, <1>8, <3>1 DEF Linked
  <2> QED BY <2>1, <2>2
<1>12. Linked(after, s[1], u)
  BY <1>2, <1>4, <1>10, <1>11 DEF Linked
<1>13. \A k \in DOMAIN u : k = Len(u) \/ k \in DOMAIN s
  BY <1>2, <1>4
<1>14. \A k \in DOMAIN s : k \in DOMAIN u /\ k # Len(u) /\ u[k] = s[k] /\ s[k] # b
  BY <1>2, <1>4 DEF Range
<1>15. IsInjective(u)
  BY <1>4, <1>13, <1>14 DEF IsInjective
<1>16. Range(u) = Range(s) \cup {b}
  <2>1. Len(u) \in DOMAIN u
    BY <1>2, <1>4
  <2>2. Range(u) \subseteq Range(s) \cup {b}
    BY <1>4, <1>13, <1>14 DEF Range
  <2>3. Range(s) \subseteq Range(u)
    BY <1>14 DEF Range
  <2>4. b \in Range(u)
    BY <1>4, <2>1 DEF Range
  <2> QED BY <2>2, <2>3, <2>4
<1>17. Last(u) = b
  BY <1>4 DEF Last
<1>18. u[Len(s)] = s[Len(s)] /\ \A k \in 1..Len(s) - 1 : u[k] = s[k]
  BY <1>2, <1>3, <1>4, <1>6, Zenon
<1> QED BY <1>4, <1>8, <1>9, <1>12, <1>15, <1>16, <1>17, <1>18 DEF Grown

\* What the file being filled is made of.
LEMMA Filled ==
  ASSUME DiskInv, at = "filling"
  PROVE  \E s \in Seq(Data) : FillingBy(s) /\ s[1] = first /\ cur \in Data /\ cur \in Range(s)
<1>1. PICK s \in Seq(Data) : FillingBy(s)
  BY DEF DiskInv, Made
<1>2. s # <<>> /\ s[1] = first /\ Last(s) = cur
  BY <1>1 DEF FillingBy, Linked
<1>3. Len(s) \in DOMAIN s /\ s[Len(s)] \in Data
  BY <1>2
<1> QED BY <1>1, <1>2, <1>3 DEF Last, Range

\* A write to a block in no file.
LEMMA BlockWritten ==
  ASSUME DiskInv, TypeOK', at = "filling", NEW block,
           data' \in {data, [data EXCEPT ![cur] = block]}, dir' = dir, map' = map
  PROVE  /\ OthersStay
         /\ ~torn => Tidy' /\ UsedBlocks' = UsedBlocks
         /\ FreeBlocks' = FreeBlocks
<1>1. PICK s \in Seq(Data) : FillingBy(s) /\ cur \in Range(s)
  BY Filled
<1>2. DiskOK /\ DiskOK'
  BY DEF DiskInv, TypeOK, DiskOK
<1>3. ASSUME ~torn
      PROVE  Tidy' /\ UsedBlocks' = UsedBlocks /\ \A n \in Name : Contents(n)' = Contents(n)
  <2>1. Tidy /\ cur \notin UsedBlocks
    BY <1>1, <1>3 DEF DiskInv, FillingBy, New
  <2>2. \A p \in Files : \A c \in BlocksAt(p) : c # cur /\ c \in Data
    BY <1>2, <2>1, UsedIs, FileType
  <2>3. \A c \in Data : c # cur => data'[c] = data[c]
    BY <1>2 DEF DiskOK
  <2>4. \A p \in Files : \A c \in BlocksAt(p) : data'[c] = data[c]
    BY <2>2, <2>3
  <2> QED BY <1>2, <2>1, <2>4, Untouched
<1> QED BY <1>3 DEF OthersStay, FreeBlocks

\* A write to a block of the new file that fails.
LEMMA WriteFailed ==
  ASSUME DiskInv, TypeOK', at = "filling", NEW block, write_data_fails(cur, block), Return("IO"),
           dir' = dir, map' = map
  PROVE  DiskInv' /\ OthersStay
<1>1. data' \in {data, [data EXCEPT ![cur] = block]}
  BY DEF write_data_fails
<1>2. OthersStay /\ (~torn => Tidy' /\ UsedBlocks' = UsedBlocks) /\ FreeBlocks' = FreeBlocks
  BY <1>1, BlockWritten
<1>3. torn' = torn /\ faults' # 0 /\ at' = "idle" /\ ret' = "IO"
  <2>1. torn \in BOOLEAN /\ faults \in Nat
    BY DiskAssumption DEF DiskInv, TypeOK
  <2> QED BY <2>1 DEF write_data_fails, Trouble, Return
<1>4. ~torn => Clear(FreeBlocks)
  BY DEF DiskInv, Safe, Unmapped, Mapping
<1>5. ~torn' => Tidy' /\ Clear(FreeBlocks)'
  BY <1>2, <1>3, <1>4 DEF Clear
<1>6. ~Done'
  BY <1>3 DEF Done
<1> QED BY <1>2, <1>3, <1>5, <1>6, Ended

LEMMA PutStep ==
  ASSUME DiskInv, NEW x \in Item, cbmdos_put(x)
  PROVE  DiskInv' /\ OthersStay
<1>1. TypeOK /\ dir' = dir /\ map' = map /\ target' = target /\ at = "filling" /\ name' = name
        /\ doing' = doing /\ first' = first /\ put' = Append(put, x)
  BY DEF cbmdos_put, DiskInv
<1>2. bam \in SUBSET Block /\ faults \in Nat /\ torn \in BOOLEAN
  BY <1>1, DiskAssumption DEF TypeOK
<1>3. ~Mapping /\ ~Unmapped /\ ~Closed /\ at \notin {"newdir", "entry"}
  BY <1>1 DEF Mapping, Unmapped, Closed
<1>4. put' \in Seq(Item) /\ Len(put') = Len(put) + 1 /\ put'[Len(put) + 1] = x
        /\ \A k \in 1..Len(put) : put'[k] = put[k]
  BY <1>1 DEF TypeOK
<1>5. CASE Full(bam) /\ Fine /\ Return("FULL") /\ UNCHANGED <<data, bam, cur>>
  <2>1. TypeOK'
    BY <1>1, <1>4, <1>5 DEF TypeOK, Fine, Return
  <2>2. ~Done' /\ at' = "idle" /\ torn' = torn /\ faults' = faults
    BY <1>5 DEF Done, Return, Fine
  <2> QED BY <1>1, <1>3, <1>5, <2>1, <2>2, Rest
<1>6. ASSUME ~Full(bam), NEW next, next = bam_find(bam), NEW block,
               block = [next |-> next, holds |-> x], bam' = bam_alloc(bam, next),
             \/ write_data(cur, block) /\ cur' = next /\ UNCHANGED <<at, ret>>
             \/ write_data_fails(cur, block) /\ Return("IO") /\ UNCHANGED cur
      PROVE  DiskInv' /\ OthersStay
  <2>1. next \in bam /\ next \in Data
    BY <1>2, <1>6, Found
  <2>2. data' \in {data, [data EXCEPT ![cur] = block]} /\ block \in DataBlock
    BY <1>6, <2>1 DEF write_data, write_data_fails, DataBlock
  <2>3. data' \in [Data -> DataBlock]
    <3>1. data \in [Data -> DataBlock]
      BY <1>1 DEF TypeOK
    <3> QED BY <2>2, <3>1
  <2>4. faults' \in 0..MaxFaults /\ torn' \in BOOLEAN
    BY <1>1, <1>6, DiskAssumption DEF write_data, write_data_fails, Fine, Trouble, TypeOK
  <2>5. at' \in {"filling", "idle"} /\ ret' \in {ret, "IO"} /\ cur' \in {0} \cup Data
          /\ bam' \in SUBSET Block
    BY <1>1, <1>2, <1>6, <2>1 DEF Return, bam_alloc, TypeOK
  <2>6. TypeOK'
    BY <1>1, <1>4, <2>3, <2>4, <2>5 DEF TypeOK
  <2>7. CASE write_data_fails(cur, block) /\ Return("IO")
    BY <1>1, <2>6, <2>7, WriteFailed
  <2>8. CASE write_data(cur, block) /\ cur' = next /\ UNCHANGED <<at, ret>>
    <3>1. OthersStay /\ (~torn => Tidy' /\ UsedBlocks' = UsedBlocks) /\ FreeBlocks' = FreeBlocks
      BY <1>1, <2>2, <2>6, BlockWritten
    <3>2. data' = [data EXCEPT ![cur] = block] /\ torn' = torn /\ faults' = faults
            /\ at' = "filling" /\ bam' = bam \ {next} /\ cur' = next
      BY <1>1, <1>6, <2>8 DEF write_data, Fine, bam_alloc
    <3>3. PICK s \in Seq(Data) : FillingBy(s) /\ s[1] = first
      BY <1>1, Filled
    <3>4. PICK d \in [Data -> DataBlock] : d = data
      BY <1>1 DEF TypeOK
    <3>5. PICK f : f = first
      OBVIOUS
    <3>6. Linked(d, s[1], s) /\ Last(s) = cur /\ IsInjective(s) /\ New(Range(s)) /\ Len(s) = Len(put) + 1
      BY <3>3, <3>4 DEF FillingBy
    <3>7. next \notin Range(s)
      BY <2>1, <3>6 DEF New
    <3>8. \E u : Grown(d, s, data', u, next, x)
      <4>1. cur \in Data /\ DOMAIN data' = Data /\ DOMAIN d = Data
        BY <1>1, <2>3, Filled
      <4>2. next \in Data \ Range(s) /\ data'[cur].next = next /\ data'[cur].holds = x
              /\ \A c \in Data : c # cur => data'[c] = d[c]
        BY <1>6, <2>1, <3>2, <3>4, <3>7, <4>1
      <4>3. cur = Last(s)
        BY <3>6
      <4> QED BY <3>6, <4>1, <4>2, <4>3, Longer
    <3>9. PICK u : Grown(d, s, data', u, next, x)
      BY <3>8
    <3>10. New(Range(u))'
      <4>1. PICK S : S = Range(s)
        OBVIOUS
      <4>2. Range(u) = S \cup {next} /\ New(S)
        BY <3>6, <3>9, <4>1 DEF Grown
      <4>3. ~torn => S \cap UsedBlocks = {} /\ bam \cap UsedBlocks = {}
        BY <1>1, <1>3, <4>2 DEF New, DiskInv, Safe, Clear
      <4>4. Exact /\ faults = 0 => Block \ UsedBlocks = bam \cup S /\ ~torn
        BY <1>1, <4>2 DEF New, DiskInv
      <4> QED BY <2>1, <3>1, <3>2, <4>2, <4>3, <4>4 DEF New
    <3>11. \A k \in 1..Len(put') : data'[u[k]].holds = put'[k]
      <4> SUFFICES ASSUME NEW k \in 1..Len(put') PROVE data'[u[k]].holds = put'[k]
        OBVIOUS
      <4>1. Len(put) \in Nat
        BY <1>1 DEF TypeOK
      <4>2. CASE k = Len(put) + 1
        BY <1>4, <3>6, <3>9, <4>2 DEF Grown
      <4>3. CASE k # Len(put) + 1
        <5>1. k \in 1..Len(put) /\ k \in 1..Len(s) - 1
          BY <1>4, <3>6, <4>1, <4>3
        <5> QED BY <1>4, <3>3, <3>4, <3>9, <5>1 DEF FillingBy, Grown
      <4> QED BY <4>2, <4>3
    <3>12. FillingBy(u)'
      BY <1>1, <1>4, <3>2, <3>3, <3>6, <3>10, <3>11, <3>9 DEF FillingBy, Grown
    <3>13. Made'
      BY <1>1, <3>2, <3>12, <3>9 DEF Grown, DiskInv, Made, Closed, Mapping, Done
    <3>14. ~torn' => Tidy' /\ Safe'
      <4>1. ASSUME ~torn PROVE Clear(FreeBlocks) /\ bam \subseteq FreeBlocks
        BY <1>1, <1>3, <4>1 DEF DiskInv, Safe
      <4> QED BY <1>1, <3>1, <3>2, <4>1 DEF Safe, Clear
    <3>15. Exact /\ faults' = 0 => Complete'
      BY <1>1, <1>3, <3>1, <3>2 DEF DiskInv, Complete, Mapping
    <3> QED BY <2>6, <3>1, <3>2, <3>13, <3>14, <3>15 DEF DiskInv
  <2> QED BY <1>6, <2>7, <2>8
<1>7. CASE ~Full(bam)
  BY <1>5, <1>6, <1>7 DEF cbmdos_put
<1>8. CASE Full(bam)
  BY <1>5, <1>8 DEF cbmdos_put
<1> QED BY <1>7, <1>8

LEMMA CloseStep ==
  ASSUME DiskInv, NEW x \in Item, cbmdos_close(x)
  PROVE  DiskInv' /\ OthersStay
<1>1. TypeOK /\ dir' = dir /\ map' = map /\ target' = target /\ at = "filling" /\ name' = name
        /\ doing' = doing /\ first' = first /\ cur' = cur /\ bam' = bam /\ put' = Append(put, x)
  BY DEF cbmdos_close, DiskInv
<1>2. ~Mapping /\ ~Unmapped /\ ~Closed /\ at \notin {"newdir", "entry"}
  BY <1>1 DEF Mapping, Unmapped, Closed
<1>3. put' \in Seq(Item) /\ Len(put') = Len(put) + 1 /\ put'[Len(put) + 1] = x
        /\ Len(put) \in Nat /\ \A k \in 1..Len(put) : put'[k] = put[k]
  BY <1>1 DEF TypeOK
<1>4. PICK block : /\ block = [next |-> 0, holds |-> x]
                   /\ \/ write_data(cur, block) /\ Goto("slot")
                      \/ write_data_fails(cur, block) /\ Return("IO")
  BY DEF cbmdos_close
<1>5. data' \in {data, [data EXCEPT ![cur] = block]} /\ block \in DataBlock
  BY <1>4 DEF write_data, write_data_fails, DataBlock
<1>6. data' \in [Data -> DataBlock]
  <2>1. data \in [Data -> DataBlock]
    BY <1>1 DEF TypeOK
  <2> QED BY <1>5, <2>1
<1>7. faults' \in 0..MaxFaults /\ torn' \in BOOLEAN
  BY <1>1, <1>4, DiskAssumption DEF write_data, write_data_fails, Fine, Trouble, TypeOK
<1>8. at' \in {"slot", "idle"} /\ ret' \in {ret, "IO"}
  BY <1>4 DEF Return, Goto
<1>9. TypeOK'
  BY <1>1, <1>3, <1>6, <1>7, <1>8 DEF TypeOK
<1>10. CASE write_data_fails(cur, block) /\ Return("IO")
  BY <1>1, <1>9, <1>10, WriteFailed
<1>11. CASE write_data(cur, block) /\ Goto("slot")
  <2>1. OthersStay /\ (~torn => Tidy' /\ UsedBlocks' = UsedBlocks) /\ FreeBlocks' = FreeBlocks
    BY <1>1, <1>5, <1>9, BlockWritten
  <2>2. data' = [data EXCEPT ![cur] = block] /\ torn' = torn /\ faults' = faults /\ at' = "slot"
    BY <1>11 DEF write_data, Fine, Goto
  <2>3. PICK s \in Seq(Data) : FillingBy(s) /\ s[1] = first /\ cur \in Data
    BY <1>1, Filled
  <2>4. PICK d \in [Data -> DataBlock] : d = data
    BY <1>1 DEF TypeOK
  <2>5. Linked(d, s[1], s) /\ Last(s) = cur /\ IsInjective(s) /\ New(Range(s))
          /\ Len(s) = Len(put) + 1 /\ \A k \in 1..Len(put) : d[s[k]].holds = put[k]
    BY <2>3, <2>4 DEF FillingBy
  <2>6. Len(s) \in Nat \ {0} /\ s # <<>> /\ DOMAIN s = 1..Len(s) /\ s[Len(s)] = cur
    BY <2>5 DEF Linked, Last
  <2>7. data'[cur].next = 0 /\ data'[cur].holds = x
          /\ (\A c \in Data : c # cur => data'[c] = d[c]) /\ DOMAIN data' = Data /\ DOMAIN d = Data
    BY <1>1, <1>4, <1>6, <2>2, <2>3, <2>4
  <2>8. ASSUME NEW k \in 1..Len(put) PROVE k \in 1..Len(s) - 1 /\ k \in DOMAIN s /\ data'[s[k]] = d[s[k]]
    <3>1. k \in 1..Len(s) - 1 /\ k \in DOMAIN s /\ Len(s) \in DOMAIN s /\ k # Len(s) /\ s[k] \in Data
      BY <1>3, <2>5, <2>6
    <3>2. s[k] # cur
      BY <2>5, <2>6, <3>1 DEF IsInjective
    <3> QED BY <2>7, <3>1, <3>2
  <2>9. Linked(data', s[1], s)
    <3>1. Len(s) - 1 = Len(put)
      BY <1>3, <2>5
    <3> QED BY <2>5, <2>7, <2>8, <3>1 DEF Linked
  <2>10. Whole(data', first, s)
    BY <2>3, <2>5, <2>7, <2>9 DEF Whole
  <2>11. Blocks(data')
    BY <1>6, DataBlocks
  <2>12. Chain(data', first) = s /\ IsWhole(data', first)
    BY <2>10, <2>11, WholeChain
  <2>13. Held(s)' = put'
    <3>1. Held(s)' = [k \in DOMAIN s |-> data'[s[k]].holds]
      BY DEF Held
    <3>2. DOMAIN s = 1..Len(put')
      BY <1>3, <2>5, <2>6
    <3>3. \A k \in 1..Len(put') : data'[s[k]].holds = put'[k]
      <4> SUFFICES ASSUME NEW k \in 1..Len(put') PROVE data'[s[k]].holds = put'[k]
        OBVIOUS
      <4>1. CASE k \in 1..Len(put)
        BY <1>3, <2>5, <2>8, <4>1
      <4>2. CASE k = Len(put) + 1
        BY <1>3, <2>5, <2>6, <2>7, <4>2
      <4> QED BY <1>3, <4>1, <4>2
    <3>4. PICK q : q = put'
      OBVIOUS
    <3>5. q \in Seq(Item) /\ DOMAIN s = 1..Len(q) /\ \A k \in 1..Len(q) : data'[s[k]].holds = q[k]
      BY <1>3, <3>2, <3>3, <3>4
    <3>6. q = [k \in 1..Len(q) |-> q[k]]
      BY <3>5
    <3> QED BY <3>1, <3>4, <3>5, <3>6
  <2>14. Placed(first)'
    BY <1>1, <2>12, <2>13 DEF Placed
  <2>15. New(Range(Chain(data, first)))'
    <3>1. PICK S : S = Range(s)
      OBVIOUS
    <3>2. New(S)
      BY <2>5, <3>1
    <3>3. New(S)'
      BY <1>1, <2>1, <2>2, <3>2 DEF New, DiskInv
    <3>4. Chain(data, first)' = s
      BY <1>1, <2>12
    <3> QED BY <3>1, <3>3, <3>4
  <2>16. name = Cfg /\ doing = "create"
    BY <1>1 DEF DiskInv, Made
  <2>17. Made'
    BY <1>1, <2>2, <2>14, <2>15, <2>16 DEF Made, Closed, Mapping, Done
  <2>18. ~torn' => Tidy' /\ Safe'
    <3>1. ASSUME ~torn PROVE Clear(FreeBlocks) /\ bam \subseteq FreeBlocks
      BY <1>1, <1>2, <3>1 DEF DiskInv, Safe
    <3> QED BY <1>1, <2>1, <2>2, <3>1 DEF Safe, Clear
  <2>19. Exact /\ faults' = 0 => Complete'
    BY <1>1, <1>2, <2>1, <2>2 DEF DiskInv, Complete, Mapping
  <2> QED BY <1>9, <2>1, <2>2, <2>17, <2>18, <2>19 DEF DiskInv
<1> QED BY <1>4, <1>10, <1>11

LEMMA FindSlotStep ==
  ASSUME DiskInv, dir_find_slot
  PROVE  DiskInv' /\ OthersStay
<1>1. /\ TypeOK /\ DiskOK /\ data' = data /\ dir' = dir /\ map' = map /\ at = "slot"
      /\ name' = name /\ doing' = doing /\ first' = first /\ cur' = cur /\ put' = put
  BY DEF dir_find_slot, DiskInv, disk, file, TypeOK, DiskOK
<1>2. bam \in SUBSET Block /\ faults \in Nat /\ torn \in BOOLEAN /\ Slots \in Nat \ {0}
  BY <1>1, DiskAssumption DEF TypeOK
<1>3. ~Mapping /\ ~Unmapped /\ Closed /\ at \notin {"newdir", "entry"}
  BY <1>1 DEF Mapping, Unmapped, Closed
<1>4. /\ (\A S : Clear(S)' <=> Clear(S)) /\ (Tidy' <=> Tidy) /\ FreeBlocks' = FreeBlocks
           /\ UsedBlocks' = UsedBlocks
      /\ (\A n : Contents(n)' = Contents(n)) /\ Listing' = Listing /\ (\A p : Entry(p)' = Entry(p))
  BY <1>1, SameDisk
<1>5. PICK S : S = Range(Chain(data, first)) /\ Chain(data, first)' = Chain(data, first)
  BY <1>1
<1>6. name = Cfg /\ doing = "create" /\ Placed(first) /\ New(S)
  BY <1>1, <1>3, <1>5 DEF DiskInv, Made
<1>7. Placed(first)'
  BY <1>1, <1>6 DEF Placed, Held
<1>8. ~torn => Tidy /\ Clear(FreeBlocks) /\ bam \subseteq FreeBlocks
  BY <1>1, <1>3 DEF DiskInv, Safe
<1>9. Exact /\ faults = 0 => FreeBlocks = Block \ UsedBlocks /\ Block \ UsedBlocks = bam \cup S
  BY <1>1, <1>3, <1>6 DEF DiskInv, Complete, New
<1>10. CASE Return("DIRFULL") /\ UNCHANGED <<bam, target>> /\ (Fine \/ Trouble("read"))
  <2>1. torn' = torn /\ (faults' = faults \/ faults' = faults + 1) /\ faults' \in 0..MaxFaults
    BY <1>1, <1>10, DiskAssumption DEF Fine, Trouble, TypeOK
  <2>2. TypeOK'
    BY <1>1, <1>10, <2>1 DEF TypeOK, Return
  <2>3. ~Done' /\ at' = "idle"
    BY <1>10 DEF Done, Return
  <2> QED BY <1>1, <1>3, <2>1, <2>2, <2>3, Rest
<1>11. CASE FreeSlots # {} /\ Fine /\ target' = Foremost(FreeSlots) /\ Goto("entry") /\ UNCHANGED bam
  <2>1. PICK p \in Listing : p = Foremost(FreeSlots) /\ Entry(p) = Empty
    <3>1. FreeSlots \in SUBSET Listing /\ \A q \in FreeSlots : Entry(q).name = NoName
      BY DEF FreeSlots, Places
    <3>2. Foremost(FreeSlots) \in FreeSlots
      BY <1>1, <1>11, <3>1, ForemostIn
    <3>3. \A q \in FreeSlots : Entry(q) = Empty
      BY <1>1, <3>1, EntryType, ListingType
    <3> QED BY <3>1, <3>2, <3>3
  <2>2. target' = p /\ at' = "entry" /\ bam' = bam /\ ret' = ret /\ faults' = faults /\ torn' = torn
    BY <1>11, <2>1 DEF Goto, Fine
  <2>3. p \in DirTrack \X (1..Slots)
    BY <1>1, <2>1, ListingType
  <2>4. TypeOK'
    BY <1>1, <2>2, <2>3 DEF TypeOK
  <2>5. New(S)'
    BY <1>1, <1>4, <1>6, <2>2 DEF New
  <2>6. Made'
    BY <1>1, <1>4, <1>5, <1>6, <1>7, <2>1, <2>2, <2>5 DEF Made, Closed, Mapping, Done
  <2>7. ~torn' => Tidy' /\ Safe'
    <3>1. ASSUME ~torn PROVE Clear(bam)'
      BY <1>1, <1>8, <2>2, <3>1, <1>4 DEF Clear
    <3> QED BY <1>4, <1>8, <2>2, <3>1 DEF Safe, Unmapped
  <2>8. Exact /\ faults' = 0 => Complete'
    BY <2>2 DEF Complete, Mapping
  <2> QED BY <1>4, <2>2, <2>4, <2>6, <2>7, <2>8 DEF DiskInv, OthersStay
<1>12. CASE /\ Ends /\ Fine /\ bam \cap DirTrack # {}
            /\ target' = <<Lowest(bam \cap DirTrack), 1>>
            /\ bam' = bam_alloc(bam, target'[1]) /\ Goto("link")
  <2>1. PICK t \in DirTrack : t = Lowest(bam \cap DirTrack) /\ t \in bam
    <3>1. bam \cap DirTrack \in SUBSET Nat
      BY <1>2, DiskAssumption
    <3>2. Lowest(bam \cap DirTrack) \in bam \cap DirTrack
      BY <1>12, <3>1, LowestIs
    <3> QED BY <3>2
  <2>2. target' = <<t, 1>> /\ bam' = bam \ {t} /\ at' = "link" /\ ret' = ret /\ faults' = faults
          /\ torn' = torn
    BY <1>12, <2>1 DEF Goto, Fine, bam_alloc
  <2>3. TypeOK'
    BY <1>1, <1>2, <2>2 DEF TypeOK
  <2>4. S \cap DirTrack = {}
    <3>1. Blocks(data) /\ DOMAIN data = Data
      BY <1>1, DataBlocks DEF DiskOK
    <3>2. S \subseteq Data
      BY <1>5, <1>6, <3>1, ChainType DEF Placed, IsWhole
    <3> QED BY <3>2, DiskAssumption
  <2>5. New(S)'
    BY <1>1, <1>4, <1>6, <1>9, <2>1, <2>2, <2>4 DEF New
  <2>6. IsWhole(dir, DirFirst)'
    <3>1. DOMAIN dir = DirTrack
      BY <1>1, DirBlocks DEF DiskOK
    <3> QED BY <1>1, <1>12, <3>1, DiskAssumption DEF IsWhole, Ends, Dirs
  <2>7. Made'
    BY <1>1, <1>4, <1>5, <1>6, <1>7, <2>1, <2>2, <2>5, <2>6 DEF Made, Closed, Mapping, Done
  <2>8. ~torn' => Tidy' /\ Safe'
    <3>1. ASSUME ~torn PROVE Clear(FreeBlocks)'
      BY <1>4, <1>8, <3>1 DEF Clear
    <3> QED BY <1>4, <1>8, <2>1, <2>2, <3>1 DEF Safe, Unmapped
  <2>9. Exact /\ faults' = 0 => Complete'
    BY <1>4, <1>9, <2>2 DEF Complete, Mapping
  <2> QED BY <1>4, <2>2, <2>3, <2>7, <2>8, <2>9 DEF DiskInv, OthersStay
<1> QED BY <1>10, <1>11, <1>12 DEF dir_find_slot

\* A block linked to the end of a chain is in it, even one that was.
LEMMA LinkReaches ==
  ASSUME NEW blocks, Blocks(blocks), NEW after, Blocks(after), DOMAIN after = DOMAIN blocks,
         NEW b, IsWhole(blocks, b), NEW last, last = Last(Chain(blocks, b)), NEW t \in DOMAIN blocks,
         after[last].next = t, \A c \in DOMAIN blocks : c # last => after[c] = blocks[c]
  PROVE  t \in Range(Chain(after, b))
<1>1. PICK s : s = Chain(blocks, b)
  OBVIOUS
<1>2. Whole(blocks, b, s) /\ IsInjective(s)
  BY <1>1, ChainWhole
<1>3. s \in Seq(DOMAIN blocks) /\ s # <<>> /\ s[1] = b /\ Len(s) \in Nat \ {0}
        /\ DOMAIN s = 1..Len(s) /\ last = s[Len(s)]
  BY <1>1, <1>2 DEF Whole, Linked, Last
<1>4. ASSUME NEW k \in 1..Len(s) - 1
      PROVE  k \in DOMAIN s /\ k + 1 \in DOMAIN s /\ after[s[k]].next = s[k + 1]
  <2>1. k \in DOMAIN s /\ k + 1 \in DOMAIN s /\ Len(s) \in DOMAIN s /\ k # Len(s)
          /\ s[k] \in DOMAIN blocks
    <3>1. PICK n \in Nat \ {0} : n = Len(s) /\ k \in 1..n - 1 /\ DOMAIN s = 1..n
      BY <1>3
    <3>2. k \in 1..n /\ k + 1 \in 1..n /\ n \in 1..n /\ k # n
      BY <3>1
    <3>3. \A j \in 1..Len(s) : s[j] \in DOMAIN blocks
      BY <1>3
    <3> QED BY <3>1, <3>2, <3>3
  <2>2. s[k] # last
    BY <1>2, <1>3, <2>1 DEF IsInjective
  <2> QED BY <1>2, <2>1, <2>2 DEF Whole, Linked
<1>5. Cardinality(DOMAIN after) \in 0..Cardinality(DOMAIN after)
  BY FS_CardinalityType DEF Blocks
<1>6. \A u : Linked(after, b, u) /\ IsInjective(u) /\ t \in Range(u) => t \in Range(Chain(after, b))
  <2> SUFFICES ASSUME NEW u, Linked(after, b, u), IsInjective(u), t \in Range(u)
                        PROVE t \in Range(Chain(after, b))
    OBVIOUS
  <2>1. u \in Seq(DOMAIN after)
    BY DEF Linked
  <2>2. Len(u) <= Cardinality(DOMAIN after)
    BY <2>1, OnceFits DEF Blocks
  <2> QED BY <1>5, <2>2, WalkReaches DEF Chain
<1>7. CASE t \in Range(s)
  <2>1. Linked(after, b, s)
    BY <1>3, <1>4 DEF Linked
  <2> QED BY <1>2, <1>6, <1>7, <2>1
<1>8. CASE t \notin Range(s)
  <2>1. PICK u : u = Append(s, t)
    OBVIOUS
  <2>2. u \in Seq(DOMAIN blocks) /\ Len(u) = Len(s) + 1 /\ u[Len(u)] = t
          /\ (\A k \in 1..Len(s) : u[k] = s[k]) /\ DOMAIN u = 1..Len(u) /\ u # <<>>
    BY <1>3, <2>1
  <2>3. \A k \in 1..Len(u) - 1 : after[u[k]].next = u[k + 1]
    <3> SUFFICES ASSUME NEW k \in 1..Len(s) PROVE after[u[k]].next = u[k + 1]
      BY <1>3, <2>2
    <3>1. CASE k = Len(s)
      BY <1>3, <2>2, <3>1
    <3>2. CASE k # Len(s)
      <4>1. k \in 1..Len(s) - 1 /\ k + 1 \in 1..Len(s)
        BY <1>3, <3>2
      <4> QED BY <1>4, <2>2, <4>1
    <3> QED BY <3>1, <3>2
  <2>4. u[1] = b
    BY <1>3, <2>2
  <2>5. Linked(after, b, u)
    BY <2>2, <2>3, <2>4 DEF Linked
  <2>6. \A k \in DOMAIN u : k = Len(u) \/ k \in DOMAIN s
    BY <1>3, <2>2
  <2>7. \A k \in DOMAIN s : u[k] = s[k] /\ s[k] # t
    BY <1>3, <1>8, <2>2 DEF Range
  <2>8. IsInjective(u)
    BY <1>2, <2>2, <2>6, <2>7 DEF IsInjective
  <2>9. Len(u) \in DOMAIN u
    BY <1>3, <2>2
  <2>10. t \in Range(u)
    BY <2>2, <2>9 DEF Range
  <2> QED BY <1>6, <2>5, <2>8, <2>10
<1> QED BY <1>7, <1>8

\* What a write of a block of the directory leaves alone.
LEMMA DirWrite ==
  ASSUME DiskInv, NEW b, NEW block, NEW where, NEW err, write_dir(b, block, where, err),
         where \in {"newdir", "entry", "bam1"}, err \in {"DIRFULL", "IO"}, b \in DirTrack
           => block \in DirBlock
  PROVE  /\ TypeOK /\ TypeOK' /\ DiskOK /\ DiskOK' /\ data' = data /\ map' = map /\ bam' = bam
              /\ doing' = doing
         /\ name' = name /\ first' = first /\ cur' = cur /\ put' = put /\ target' = target
         /\ FreeBlocks' = FreeBlocks
         /\ \/ dir' = [dir EXCEPT ![b] = block] /\ at' = where /\ ret' = ret /\ faults' = faults
                 /\ torn' = torn
            \/ /\ dir' \in {dir, [dir EXCEPT ![b] = block]} /\ at' = "idle" /\ ret' = err /\ faults' # 0
               /\ torn' <=> torn
                    \/ (doing = "create" /\ at \in {"link", "newdir", "entry", "bam1", "bam2"})
<1>1. TypeOK /\ data' = data /\ map' = map /\ bam' = bam /\ doing' = doing /\ name' = name
        /\ first' = first /\ cur' = cur /\ put' = put /\ target' = target
  BY DEF write_dir, DiskInv, file
<1>2. /\ \/ dir' = [dir EXCEPT ![b] = block] /\ at' = where /\ ret' = ret /\ faults' = faults
              /\ torn' = torn
         \/ /\ dir' \in {dir, [dir EXCEPT ![b] = block]} /\ at' = "idle" /\ ret' = err
                 /\ faults' = faults + 1
            /\ torn' = (torn \/ (doing = "create" /\ at \in {"link", "newdir", "entry", "bam1", "bam2"}))
      /\ faults' \in 0..MaxFaults
  BY <1>1, DiskAssumption DEF write_dir, Fine, Trouble, Goto, Return, TypeOK
<1>3. faults + 1 # 0
  BY <1>1, DiskAssumption DEF TypeOK
<1>4. torn' \in BOOLEAN
  <2>1. torn \in BOOLEAN
    BY <1>1 DEF TypeOK
  <2> QED BY <1>2, <2>1, Zenon
<1>5. dir' \in [DirTrack -> DirBlock]
  <2>1. dir \in [DirTrack -> DirBlock]
    BY <1>1 DEF TypeOK
  <2> QED BY <1>2, <2>1
<1>6. at' \in {"idle", "newdir", "entry", "bam1"} /\ ret' \in {ret, "DIRFULL", "IO"}
  BY <1>2
<1>7. TypeOK'
  BY <1>1, <1>2, <1>5, <1>6, <1>4 DEF TypeOK
<1> QED BY <1>1, <1>2, <1>3, <1>7 DEF TypeOK, DiskOK, FreeBlocks

LEMMA LinkStep ==
  ASSUME DiskInv, LinkDir
  PROVE  DiskInv' /\ OthersStay
<1>1. PICK t \in DirTrack : target[1] = t
  BY DEF LinkDir, DiskInv, Made
<1>2. /\ at = "link" /\ target[2] = 1 /\ IsWhole(dir, DirFirst) /\ name = Cfg /\ doing = "create"
           /\ Placed(first)
      /\ New(Range(Chain(data, first)))
  BY DEF LinkDir, DiskInv, Made, Closed
<1>3. PICK last, block : /\ last = Last(Dirs) /\ block = [dir[last] EXCEPT !.next = t]
                         /\ write_dir(last, block, "newdir", "DIRFULL")
  BY <1>1 DEF LinkDir
<1>4. last \in DirTrack => block \in DirBlock
  <2>1. dir \in [DirTrack -> DirBlock]
    BY DEF DiskInv, TypeOK
  <2> QED BY <1>3, <2>1 DEF DirBlock
<1>5. /\ TypeOK /\ TypeOK' /\ DiskOK /\ DiskOK' /\ data' = data /\ map' = map /\ bam' = bam
           /\ doing' = doing
      /\ name' = name /\ first' = first /\ cur' = cur /\ put' = put /\ target' = target
      /\ FreeBlocks' = FreeBlocks
      /\ \/ dir' = [dir EXCEPT ![last] = block] /\ at' = "newdir" /\ ret' = ret
              /\ faults' = faults /\ torn' = torn
         \/ dir' \in {dir, [dir EXCEPT ![last] = block]} /\ at' = "idle" /\ ret' = "DIRFULL"
              /\ faults' # 0 /\ torn'
  BY <1>2, <1>3, <1>4, DirWrite
<1>6. ASSUME ~torn PROVE Tidy /\ t \in FreeBlocks \ bam /\ Clear(FreeBlocks)
               /\ bam \subseteq FreeBlocks /\ t \notin Range(Dirs) /\ dir[t] = EmptyDir
  <2>1. Tidy /\ Safe
    BY <1>6 DEF DiskInv
  <2>2. t \in FreeBlocks \ bam /\ Clear(FreeBlocks) /\ bam \subseteq FreeBlocks
    BY <1>1, <1>2, <2>1 DEF Safe, Unmapped, Mapping
  <2> QED BY <2>1, <2>2, UsedIs DEF Clear
<1>7. ASSUME ~torn, dir' = [dir EXCEPT ![last] = block]
      PROVE  /\ Tidy' /\ UsedBlocks' = UsedBlocks \cup {t}
             /\ \A d \in DirTrack \ Range(Dirs) : dir'[d] = dir[d]
             /\ \A n \in Name : Contents(n)' = Contents(n)
  BY <1>3, <1>5, <1>6, <1>7, Extended
<1>8. OthersStay
  <2>1. dir' = dir => \A n : Contents(n)' = Contents(n)
    BY <1>5, SameDisk
  <2> QED BY <1>5, <1>7, <2>1 DEF OthersStay
<1>9. CASE at' = "idle" /\ ret' = "DIRFULL" /\ faults' # 0 /\ torn'
  <2>1. ~Done'
    BY <1>9 DEF Done
  <2> QED BY <1>5, <1>8, <1>9, <2>1, Ended
<1>10. CASE dir' = [dir EXCEPT ![last] = block] /\ at' = "newdir" /\ ret' = ret
              /\ faults' = faults /\ torn' = torn
  <2>1. t \in Range(Dirs)'
    <3>1. Blocks(dir) /\ DOMAIN dir = DirTrack /\ Blocks(dir') /\ DOMAIN dir' = DirTrack
      BY <1>5, DirBlocks DEF DiskOK
    <3>2. last \in DirTrack /\ dir[last] \in DirBlock
      BY <1>3, <1>5, DirsType DEF DiskOK
    <3>3. block.next = t
      BY <1>3, <3>2 DEF DirBlock
    <3>4. dir'[last].next = t /\ \A c \in DirTrack : c # last => dir'[c] = dir[c]
      BY <1>10, <3>1, <3>2, <3>3
    <3>5. t \in Range(Chain(dir', DirFirst))
      BY <1>2, <1>3, <3>1, <3>4, LinkReaches DEF Dirs
    <3> QED BY <3>5 DEF Dirs
  <2>2. PICK S : S = Range(Chain(data, first)) /\ Chain(data, first)' = Chain(data, first)
    BY <1>5
  <2>3. S \cap DirTrack = {}
    <3>1. Blocks(data) /\ DOMAIN data = Data
      BY <1>5, DataBlocks DEF DiskOK
    <3>2. S \subseteq Data
      BY <1>2, <2>2, <3>1, ChainType DEF Placed, IsWhole
    <3> QED BY <3>2, DiskAssumption
  <2>4. New(S)'
    <3>1. New(S)
      BY <1>2, <2>2
    <3>2. faults = 0 => ~torn
      BY DEF DiskInv
    <3> QED BY <1>1, <1>2, <1>5, <1>6, <1>7, <1>10, <2>3, <3>1, <3>2 DEF New
  <2>5. Placed(first)'
    BY <1>2, <1>5 DEF Placed, Held
  <2>6. Made'
    BY <1>1, <1>2, <1>5, <1>10, <2>1, <2>2, <2>4, <2>5 DEF Made, Closed, Mapping, Done
  <2>7. ~torn' => Tidy' /\ Safe'
    <3> SUFFICES ASSUME ~torn PROVE Tidy' /\ Safe'
      BY <1>10
    <3>1. Clear(bam)'
      <4>1. bam \cap (UsedBlocks \cup {t}) = {}
              /\ \A d \in bam \cap DirTrack : d \notin Range(Dirs) /\ dir[d] = EmptyDir
        BY <1>6, UsedIs DEF Clear
      <4> QED BY <1>5, <1>7, <1>10, <4>1 DEF Clear
    <3>2. dir'[t] = EmptyDir
      BY <1>6, <1>7, <1>10
    <3> QED BY <1>1, <1>5, <1>7, <1>10, <3>1, <3>2 DEF Safe, Unmapped
  <2>8. Exact /\ faults' = 0 => Complete'
    BY <1>10 DEF Complete, Mapping
  <2> QED BY <1>5, <1>8, <1>10, <2>6, <2>7, <2>8 DEF DiskInv
<1> QED BY <1>5, <1>9, <1>10

\* A block of the directory stays one whatever is written in it.
LEMMA DirMeets ==
  ASSUME DiskOK, DiskOK', NEW t \in Range(Dirs), \A d \in DirTrack : d # t => dir'[d] = dir[d]
  PROVE  t \in Range(Dirs)'
<1>1. Blocks(dir) /\ DOMAIN dir = DirTrack /\ Blocks(dir') /\ DOMAIN dir' = DirTrack
  BY DirBlocks DEF DiskOK
<1>2. Cardinality(DOMAIN dir) \in 0..Cardinality(DOMAIN dir)
  BY <1>1, FS_CardinalityType DEF Blocks
<1>3. t \in Range(Walk(dir)[Cardinality(DOMAIN dir)][DirFirst])
  BY DEF Dirs, Chain
<1>4. t \in Range(Walk(dir')[Cardinality(DOMAIN dir)][DirFirst])
  BY <1>1, <1>2, <1>3, DiskAssumption, WalkMeets
<1> QED BY <1>1, <1>4 DEF Dirs, Chain

LEMMA NewDirStep ==
  ASSUME DiskInv, NewDir
  PROVE  DiskInv' /\ OthersStay
<1>1. PICK t \in Range(Dirs) : target[1] = t
  BY DEF NewDir, DiskInv, Made
<1>2. /\ at = "newdir" /\ target[2] = 1 /\ name = Cfg /\ doing = "create" /\ Placed(first)
      /\ New(Range(Chain(data, first)))
  BY DEF NewDir, DiskInv, Made, Closed
<1>3. EmptyDir \in DirBlock
  BY DEF EmptyDir, DirBlock
<1>4. /\ TypeOK /\ TypeOK' /\ DiskOK /\ DiskOK' /\ data' = data /\ map' = map /\ bam' = bam
           /\ doing' = doing
      /\ name' = name /\ first' = first /\ cur' = cur /\ put' = put /\ target' = target
      /\ FreeBlocks' = FreeBlocks
      /\ \/ dir' = [dir EXCEPT ![t] = EmptyDir] /\ at' = "entry" /\ ret' = ret
              /\ faults' = faults /\ torn' = torn
         \/ dir' \in {dir, [dir EXCEPT ![t] = EmptyDir]} /\ at' = "idle" /\ ret' = "DIRFULL"
              /\ faults' # 0 /\ torn'
  <2>1. write_dir(t, EmptyDir, "entry", "DIRFULL")
    BY <1>1 DEF NewDir
  <2> QED BY <1>2, <1>3, <2>1, DirWrite
<1>5. t \in DirTrack
  BY <1>4, DirsType
<1>6. ASSUME ~torn PROVE Tidy /\ Clear(bam) /\ dir' = dir
  <2>1. Tidy /\ Clear(bam) /\ dir[t] = EmptyDir
    BY <1>1, <1>2, <1>6 DEF DiskInv, Safe
  <2> QED BY <1>4, <1>5, <2>1 DEF DiskOK
<1>7. ASSUME ~torn
      PROVE  /\ (\A S : Clear(S)' <=> Clear(S)) /\ (Tidy' <=> Tidy) /\ UsedBlocks' = UsedBlocks
             /\ \A n : Contents(n)' = Contents(n)
  BY <1>4, <1>6, <1>7, SameDisk
<1>8. OthersStay
  BY <1>7 DEF OthersStay
<1>9. CASE at' = "idle" /\ ret' = "DIRFULL" /\ faults' # 0 /\ torn'
  <2>1. ~Done'
    BY <1>9 DEF Done
  <2> QED BY <1>4, <1>8, <1>9, <2>1, Ended
<1>10. CASE dir' = [dir EXCEPT ![t] = EmptyDir] /\ at' = "entry" /\ ret' = ret
              /\ faults' = faults /\ torn' = torn
  <2>1. target = <<t, 1>> /\ 1 \in 1..Slots
    <3>1. target \in {<<0, 0>>} \cup (DirTrack \X (1..Slots)) /\ t # 0
      BY <1>4, <1>5, DiskAssumption DEF TypeOK, Block
    <3> QED BY <1>1, <1>2, <3>1, DiskAssumption
  <2>2. dir'[t] = EmptyDir /\ \A d \in DirTrack : d # t => dir'[d] = dir[d]
    BY <1>4, <1>5, <1>10 DEF DiskOK
  <2>3. t \in Range(Dirs)'
    BY <1>4, <2>2, DirMeets
  <2>4. target \in Listing' /\ Entry(target)' = Empty
    <3>1. target' = <<t, 1>> /\ <<t, 1>> \in Listing'
      BY <1>4, <2>1, <2>3 DEF Listing
    <3>2. dir'[t].slots[1] = Empty
      BY <2>1, <2>2 DEF EmptyDir
    <3>3. Entry(target)' = dir'[t].slots[1]
      BY <3>1 DEF Entry
    <3> QED BY <1>4, <3>1, <3>2, <3>3
  <2>5. PICK S : S = Range(Chain(data, first)) /\ Chain(data, first)' = Chain(data, first)
    BY <1>4
  <2>6. New(S)'
    <3>1. New(S)
      BY <1>2, <2>5
    <3>2. faults = 0 => ~torn
      BY DEF DiskInv
    <3> QED BY <1>2, <1>4, <1>7, <1>10, <3>1, <3>2 DEF New
  <2>7. Placed(first)'
    BY <1>2, <1>4 DEF Placed, Held
  <2>8. Made'
    BY <1>2, <1>4, <1>10, <2>4, <2>5, <2>6, <2>7 DEF Made, Closed, Mapping, Done
  <2>9. ~torn' => Tidy' /\ Safe'
    <3>1. ASSUME ~torn PROVE Tidy' /\ Clear(bam)'
      BY <1>4, <1>6, <1>7, <3>1 DEF Clear
    <3> QED BY <1>10, <3>1 DEF Safe, Unmapped
  <2>10. Exact /\ faults' = 0 => Complete'
    BY <1>10 DEF Complete, Mapping
  <2> QED BY <1>4, <1>8, <1>10, <2>8, <2>9, <2>10 DEF DiskInv
<1> QED BY <1>4, <1>9, <1>10

\* The block of an entry, with another entry.
LEMMA SlotType ==
  ASSUME DiskOK, NEW p \in DirTrack \X (1..Slots), p = target,
           NEW e \in [name : Name, first : Data] \cup {Empty}
  PROVE  InSlot(e) \in DirBlock /\ InSlot(e).slots[target[2]] = e
<1>1. p[1] \in DirTrack /\ p[2] \in 1..Slots
  OBVIOUS
<1>2. PICK r \in DirBlock : r = dir[p[1]]
  BY <1>1 DEF DiskOK
<1>3. r.slots \in [1..Slots -> [name : Name, first : Data] \cup {Empty}] /\ r.next \in {0} \cup DirTrack
  BY DEF DirBlock
<1>4. [r.slots EXCEPT ![p[2]] = e] \in [1..Slots -> [name : Name, first : Data] \cup {Empty}]
        /\ [r.slots EXCEPT ![p[2]] = e][p[2]] = e
  BY <1>1, <1>3
<1>5. InSlot(e) = [r EXCEPT !.slots = [r.slots EXCEPT ![p[2]] = e]]
  BY <1>2 DEF InSlot
<1>6. PICK q : q = [r.slots EXCEPT ![p[2]] = e]
  OBVIOUS
<1>7. [r EXCEPT !.slots = q] \in DirBlock /\ [r EXCEPT !.slots = q].slots = q
  BY <1>3, <1>4, <1>6 DEF DirBlock
<1> QED BY <1>4, <1>5, <1>6, <1>7

LEMMA EntryStep ==
  ASSUME DiskInv, WriteEntry
  PROVE  DiskInv' /\ OthersStay
<1>1. /\ at = "entry" /\ name = Cfg /\ doing = "create" /\ Placed(first) /\ New(Range(Chain(data, first)))
      /\ target \in Listing /\ Entry(target) = Empty /\ DiskOK
  BY DEF WriteEntry, DiskInv, Made, Closed, TypeOK, DiskOK
<1>2. PICK p \in Listing : p = target /\ p \in DirTrack \X (1..Slots) /\ p[1] \in Range(Dirs)
  BY <1>1, ListingType
<1>3. PICK b \in Data : b = first
  <2>1. DOMAIN data = Data
    BY <1>1 DEF DiskOK
  <2> QED BY <1>1, <2>1 DEF Placed, IsWhole
<1>4. PICK e, block : e = [name |-> Cfg, first |-> b] /\ block = InSlot(e)
             /\ write_dir(p[1], block, "bam1", "IO")
  BY <1>1, <1>2, <1>3 DEF WriteEntry
<1>5. block \in DirBlock /\ block.slots[p[2]] = e
  <2>1. e \in [name : Name, first : Data] \cup {Empty}
    BY <1>4, MarksAssumption
  <2> QED BY <1>1, <1>2, <1>4, <2>1, SlotType
<1>6. /\ TypeOK /\ TypeOK' /\ DiskOK /\ DiskOK' /\ data' = data /\ map' = map /\ bam' = bam
           /\ doing' = doing
      /\ name' = name /\ first' = first /\ cur' = cur /\ put' = put /\ target' = target
      /\ FreeBlocks' = FreeBlocks
      /\ \/ dir' = [dir EXCEPT ![p[1]] = block] /\ at' = "bam1" /\ ret' = ret /\ faults' = faults
              /\ torn' = torn
         \/ dir' \in {dir, [dir EXCEPT ![p[1]] = block]} /\ at' = "idle" /\ ret' = "IO"
              /\ faults' # 0 /\ torn'
  BY <1>1, <1>4, <1>5, DirWrite
<1>7. PICK S : S = Range(Chain(data, b)) /\ New(S)
  BY <1>1, <1>3
<1>8. ASSUME ~torn PROVE Tidy /\ Clear(bam)
  BY <1>1, <1>8 DEF DiskInv, Safe
<1>9. ASSUME ~torn, dir' = [dir EXCEPT ![p[1]] = block]
      PROVE  Tidy' /\ UsedBlocks' = UsedBlocks \cup S
               /\ \A n \in Name \ {Cfg} : Contents(n)' = Contents(n)
  <2>1. Range(Chain(data, b)) \cap UsedBlocks = {} /\ IsWhole(data, b)
    BY <1>1, <1>3, <1>7, <1>9 DEF New, Placed
  <2>2. dir' = [dir EXCEPT ![target[1]] = InSlot([name |-> Cfg, first |-> b])]
    BY <1>2, <1>4, <1>9
  <2> QED BY <1>1, <1>6, <1>7, <1>8, <1>9, <2>1, <2>2, MarksAssumption, Entered
<1>10. OthersStay
  <2>1. dir' = dir => \A n : Contents(n)' = Contents(n)
    BY <1>6, SameDisk
  <2> QED BY <1>6, <1>9, <2>1 DEF OthersStay
<1>11. CASE at' = "idle" /\ ret' = "IO" /\ faults' # 0 /\ torn'
  <2>1. ~Done'
    BY <1>11 DEF Done
  <2> QED BY <1>6, <1>10, <1>11, <2>1, Ended
<1>12. CASE dir' = [dir EXCEPT ![p[1]] = block] /\ at' = "bam1" /\ ret' = ret /\ faults' = faults
              /\ torn' = torn
  <2>1. dir'[p[1]] = block /\ \A d \in DirTrack : d # p[1] => dir'[d] = dir[d]
    BY <1>2, <1>6, <1>12 DEF DiskOK
  <2>2. p[1] \in Range(Dirs)'
    BY <1>2, <1>6, <2>1, DirMeets
  <2>3. p \in Listing' /\ Entry(p)' = e
    BY <1>2, <1>5, <2>1, <2>2 DEF Listing, Entry
  <2>4. target \in Places(Cfg)' /\ Placed(Entry(target).first)'
    <3>1. Entry(target)' = e /\ e.name = Cfg /\ e.first = b /\ target' \in Listing'
      BY <1>2, <1>4, <1>6, <2>3
    <3>2. target \in Places(Cfg)'
      BY <1>2, <1>6, <3>1, <2>3 DEF Places
    <3>3. Placed(b)'
      BY <1>1, <1>3, <1>6 DEF Placed, Held
    <3> QED BY <1>6, <3>1, <3>2, <3>3
  <2>5. Made'
    BY <1>1, <1>6, <1>12, <2>4 DEF Made, Closed, Mapping, Done
  <2>6. ~torn' => Tidy' /\ Safe'
    <3>1. ASSUME ~torn PROVE Tidy' /\ Clear(bam)'
      <4>1. bam \cap (UsedBlocks \cup S) = {} /\ \A d \in bam \cap DirTrack : d # p[1]
              /\ dir[d] = EmptyDir
        BY <1>2, <1>7, <1>8, <3>1, UsedIs DEF Clear, New
      <4> QED BY <1>6, <1>9, <1>12, <2>1, <3>1, <4>1 DEF Clear
    <3> QED BY <1>1, <1>6, <1>12, <3>1 DEF Safe, Unmapped, Mapping
  <2>7. Exact /\ faults' = 0 => Complete'
    <3> SUFFICES ASSUME Exact, faults = 0 PROVE Complete'
      BY <1>12
    <3>1. Block \ UsedBlocks = bam \cup S /\ S \cap bam = {} /\ ~torn
      BY <1>1, <1>7 DEF New, DiskInv
    <3>2. bam' = Block \ UsedBlocks'
      BY <1>6, <1>9, <1>12, <3>1
    <3> QED BY <1>12, <3>2 DEF Complete, Mapping
  <2> QED BY <1>6, <1>10, <1>12, <2>5, <2>6, <2>7 DEF DiskInv
<1> QED BY <1>6, <1>11, <1>12

\* The map with one sector written.
LEMMA Mapped ==
  ASSUME DiskInv, NEW i \in 1..2, NEW saved, saved = [map EXCEPT ![i] = SavedIn(i)]
  PROVE  /\ saved \in Maps /\ saved[1] \cup saved[2] \subseteq FreeBlocks \cup bam
         /\ i = 1 => saved[1] = SavedIn(1)
         /\ i = 2 /\ map[1] = SavedIn(1) => saved[1] \cup saved[2] = bam
<1>1. bam \in SUBSET Block /\ map \in Maps
  BY DEF DiskInv, TypeOK
<1>2. PICK a \in SUBSET (Near \cup DirTrack), b \in SUBSET Far : map = <<a, b>>
  BY <1>1 DEF Maps
<1>3. FreeBlocks = a \cup b
  BY <1>2 DEF FreeBlocks
<1>4. SavedIn(1) = bam \cap (Near \cup DirTrack) /\ SavedIn(2) = bam \cap Far
  BY DEF SavedIn
<1>5. CASE i = 1
  <2>1. saved = <<SavedIn(1), b>>
    BY <1>2, <1>5
  <2> QED BY <1>3, <1>4, <1>5, <2>1 DEF Maps
<1>6. CASE i = 2
  <2>1. saved = <<a, SavedIn(2)>>
    BY <1>2, <1>6
  <2> QED BY <1>1, <1>2, <1>3, <1>4, <1>6, <2>1 DEF Maps, Block, Data
<1> QED BY <1>5, <1>6

LEMMA SaveStep ==
  ASSUME DiskInv, bam_save
  PROVE  DiskInv' /\ OthersStay
<1>1. PICK i \in 1..2 :
        /\ at = <<"bam1", "bam2">>[i]
        /\ LET saved == [map EXCEPT ![i] = SavedIn(i)]
           IN  \/ map' = saved /\ Fine /\ IF i = 1 THEN Goto("bam2") ELSE Return("OK")
               \/ map' \in {map, saved} /\ Trouble("write") /\ Return("IO")
        /\ UNCHANGED <<data, dir, bam, doing, file, target>>
  BY DEF bam_save
<1>2. PICK saved : saved = [map EXCEPT ![i] = SavedIn(i)]
  OBVIOUS
<1>3. /\ saved \in Maps /\ saved[1] \cup saved[2] \subseteq FreeBlocks \cup bam
      /\ i = 1 => saved[1] = SavedIn(1)
      /\ i = 2 /\ map[1] = SavedIn(1) => saved[1] \cup saved[2] = bam
  BY <1>2, Mapped
<1>4. /\ at = (IF i = 1 THEN "bam1" ELSE "bam2") /\ Mapping
           /\ at \notin {"idle", "newdir", "entry"} /\ name = Cfg
      /\ data' = data /\ dir' = dir /\ bam' = bam /\ doing' = doing /\ name' = name
           /\ first' = first /\ cur' = cur
      /\ put' = put /\ target' = target /\ TypeOK /\ DiskOK /\ doing \in {"create", "delete"}
  <2>1. at = (IF i = 1 THEN "bam1" ELSE "bam2")
    BY <1>1
  <2> QED BY <1>1, <2>1 DEF Mapping, DiskInv, Made, file, TypeOK, DiskOK
<1>5. \/ map' = saved /\ at' = (IF i = 1 THEN "bam2" ELSE "idle")
           /\ ret' = (IF i = 1 THEN ret ELSE "OK") /\ faults' = faults /\ torn' = torn
      \/ map' \in {map, saved} /\ at' = "idle" /\ ret' = "IO" /\ faults' = faults + 1
           /\ faults < MaxFaults
                /\ torn' = (torn
                     \/ (doing = "create" /\ at \in {"link", "newdir", "entry", "bam1", "bam2"}))
  BY <1>1, <1>2 DEF Fine, Trouble, Goto, Return
<1>6. torn' \in BOOLEAN
  <2>1. torn \in BOOLEAN
    BY <1>4 DEF TypeOK
  <2> QED BY <1>5, <2>1, Zenon
<1>7. faults \in 0..MaxFaults /\ faults' \in 0..MaxFaults
  BY <1>4, <1>5, DiskAssumption DEF TypeOK
<1>8. TypeOK'
  <2>1. at' \in {"bam2", "idle"} /\ ret' \in {ret, "OK", "IO"} /\ map' \in Maps
    BY <1>3, <1>4, <1>5 DEF TypeOK
  <2> QED BY <1>4, <1>6, <1>7, <2>1 DEF TypeOK
<1>9. /\ (\A S : Clear(S)' <=> Clear(S)) /\ (Tidy' <=> Tidy) /\ UsedBlocks' = UsedBlocks
      /\ (\A n : Contents(n)' = Contents(n)) /\ (\A p : Entry(p)' = Entry(p))
           /\ (\A n : Places(n)' = Places(n))
  BY <1>4, SameFiles
<1>10. OthersStay
  BY <1>9 DEF OthersStay
<1>11. ~torn => Tidy /\ Clear(bam) /\ (doing = "delete" => Clear(FreeBlocks))
         /\ (doing = "create" /\ i = 2 => map[1] = SavedIn(1))
  BY <1>4 DEF DiskInv, Safe, Unmapped
<1>12. FreeBlocks' \subseteq FreeBlocks \cup bam
  BY <1>3, <1>5 DEF FreeBlocks
<1>13. ~torn /\ doing = "delete" => Clear(FreeBlocks)'
  <2> SUFFICES ASSUME ~torn, doing = "delete" PROVE Clear(FreeBlocks)'
    OBVIOUS
  <2>1. PICK S : S = FreeBlocks'
    OBVIOUS
  <2>2. Clear(S)
    BY <1>11, <1>12, <2>1 DEF Clear
  <2>3. Clear(S)'
    BY <1>9, <2>2
  <2> QED BY <2>1, <2>3 DEF Clear
<1>14. doing = "create" => target \in Places(Cfg)' /\ Placed(Entry(target).first)'
  <2> SUFFICES ASSUME doing = "create" PROVE target \in Places(Cfg)' /\ Placed(Entry(target).first)'
    OBVIOUS
  <2>1. PICK b : b = Entry(target).first /\ target \in Places(Cfg) /\ Placed(b)
    BY <1>4 DEF DiskInv, Made
  <2>2. Placed(b)' /\ (Entry(target).first)' = b
    BY <1>4, <1>9, <2>1 DEF Placed, Held
  <2> QED BY <1>9, <2>1, <2>2
<1>15. CASE map' \in {map, saved} /\ at' = "idle" /\ ret' = "IO" /\ faults' = faults + 1
              /\ torn' = (torn
                   \/ (doing = "create" /\ at \in {"link", "newdir", "entry", "bam1", "bam2"}))
  <2>1. ~Done'
    BY <1>15 DEF Done
  <2>2. ~torn' => ~torn /\ doing = "delete"
    BY <1>4, <1>15
  <2>3. faults' # 0
    BY <1>7, <1>15, DiskAssumption
  <2> QED BY <1>8, <1>9, <1>10, <1>11, <1>13, <1>15, <2>1, <2>2, <2>3, Ended
<1>16. CASE map' = saved /\ at' = (IF i = 1 THEN "bam2" ELSE "idle")
              /\ ret' = (IF i = 1 THEN ret ELSE "OK") /\ faults' = faults /\ torn' = torn
  <2>1. CASE i = 1
    <3>1. at' = "bam2" /\ map'[1] = SavedIn(1) /\ SavedIn(1)' = SavedIn(1)
      BY <1>3, <1>4, <1>16, <2>1 DEF SavedIn
    <3>2. Made'
      BY <1>4, <1>14, <3>1 DEF Made, Closed, Mapping, Done
    <3>3. ~torn' => Tidy' /\ Safe'
      <4>1. ASSUME ~torn PROVE Tidy' /\ Clear(bam)' /\ (doing = "delete" => Clear(FreeBlocks)')
        BY <1>4, <1>9, <1>11, <1>13, <4>1 DEF Clear
      <4> QED BY <1>4, <1>16, <3>1, <4>1 DEF Safe, Unmapped, Mapping
    <3>4. Exact /\ faults' = 0 => Complete'
      BY <1>4, <1>9, <1>16, <3>1 DEF DiskInv, Complete, Mapping
    <3>5. faults' = 0 => ~torn'
      BY <1>16 DEF DiskInv
    <3> QED BY <1>8, <1>10, <3>2, <3>3, <3>4, <3>5 DEF DiskInv
  <2>2. CASE i = 2
    <3>1. at' = "idle" /\ (map[1] = SavedIn(1) => FreeBlocks' = bam)
      BY <1>3, <1>16, <2>2 DEF FreeBlocks
    <3>2. Made'
      BY <1>4, <1>14, <3>1 DEF Made, Closed, Mapping, Done
    <3>3. ~torn' => Tidy' /\ Safe'
      <4>1. ASSUME ~torn PROVE Tidy' /\ Clear(FreeBlocks)'
        <5>1. CASE doing = "delete"
          BY <1>9, <1>11, <1>13, <4>1, <5>1
        <5>2. CASE doing = "create"
          BY <1>4, <1>9, <1>11, <2>2, <3>1, <4>1, <5>2 DEF Clear
        <5> QED BY <1>4, <5>1, <5>2
      <4> QED BY <1>16, <3>1, <4>1 DEF Safe
    <3>4. Exact /\ faults' = 0 => Complete'
      <4>1. ASSUME Exact, faults = 0 PROVE FreeBlocks' = Block \ UsedBlocks'
        <5>1. map[1] = SavedIn(1) /\ bam = Block \ UsedBlocks
          BY <1>4, <2>2, <4>1 DEF DiskInv, Complete
        <5> QED BY <1>9, <3>1, <5>1
      <4> QED BY <1>16, <3>1, <4>1 DEF Complete, Mapping
    <3>5. faults' = 0 => ~torn'
      BY <1>16 DEF DiskInv
    <3> QED BY <1>8, <1>10, <3>2, <3>3, <3>4, <3>5 DEF DiskInv
  <2> QED BY <2>1, <2>2
<1> QED BY <1>5, <1>15, <1>16

LEMMA DeleteStep ==
  ASSUME DiskInv, cbmdos_delete(Cfg)
  PROVE  DiskInv' /\ OthersStay
<1>1. /\ TypeOK /\ DiskOK /\ data' = data /\ dir' = dir /\ map' = map /\ at = "idle"
           /\ name' = Cfg /\ doing' = "delete"
      /\ first' = first /\ cur' = cur /\ put' = put
  BY DEF cbmdos_delete, DiskInv, disk, TypeOK, DiskOK
<1>2. bam_load \in SUBSET Block /\ bam_load = FreeBlocks
  BY <1>1 DEF TypeOK, DiskOK, Maps, Block, Data, bam_load, FreeBlocks
<1>3. ~Mapping /\ ~Unmapped /\ at \notin {"newdir", "entry"}
  BY <1>1 DEF Mapping, Unmapped
<1>4. faults \in 0..MaxFaults /\ MaxFaults \in Nat /\ torn \in BOOLEAN /\ Cfg \in Name
  BY <1>1, DiskAssumption, MarksAssumption DEF TypeOK
<1>5. CASE /\ (Trouble("read") /\ Return("IO")) \/ (Fine /\ Return("NOTFOUND"))
           /\ UNCHANGED <<bam, target>>
  <2>1. /\ torn' = torn /\ (faults' = faults \/ faults' = faults + 1) /\ faults' \in 0..MaxFaults
        /\ at' = "idle" /\ ret' \in {"IO", "NOTFOUND"}
    BY <1>1, <1>4, <1>5 DEF Fine, Trouble, Return
  <2>2. TypeOK'
    BY <1>1, <1>4, <1>5, <2>1 DEF TypeOK
  <2>3. ~Done'
    BY <1>1 DEF Done
  <2> QED BY <1>1, <1>3, <2>1, <2>2, <2>3, Rest
<1>6. ASSUME NEW p, p = Foremost(Places(Cfg)), Places(Cfg) # {}, target' = p, NEW c,
               c = Chain(data, Entry(p).first),
             NEW k \in 0..Len(c), IF k = Len(c) THEN Fine ELSE Trouble("read"),
             bam' = bam_load \cup Freed(c, k), Goto("clear")
      PROVE  DiskInv' /\ OthersStay
  <2>1. p \in Places(Cfg) /\ p \in Files /\ p \in DirTrack \X (1..Slots)
    <3>1. Places(Cfg) \in SUBSET Listing /\ Places(Cfg) \subseteq Files
      BY <1>4, DiskAssumption DEF Places, Files
    <3> QED BY <1>1, <1>6, <3>1, ForemostIn, ListingType
  <2>2. Range(c) = BlocksAt(p) /\ BlocksAt(p) \subseteq Block /\ DOMAIN c = 1..Len(c) /\ Len(c) \in Nat
    <3>1. Entry(p).first \in Data /\ BlocksAt(p) \subseteq Data
      BY <1>1, <2>1, FileType
    <3>2. Blocks(data) /\ DOMAIN data = Data
      BY <1>1, DataBlocks DEF DiskOK
    <3> QED BY <1>6, <3>1, <3>2, ChainType DEF BlocksAt, Block
  <2>3. Freed(c, k) \subseteq BlocksAt(p) /\ (k = Len(c) => Freed(c, k) = BlocksAt(p))
    <3>1. \A j \in 1..k : j \in DOMAIN c
      BY <2>2
    <3>2. Freed(c, k) \subseteq Range(c)
      BY <3>1 DEF Freed, Range
    <3>3. ASSUME k = Len(c) PROVE Range(c) \subseteq Freed(c, k)
      <4>1. DOMAIN c = 1..k
        BY <2>2, <3>3
      <4> QED BY <4>1 DEF Freed, Range
    <3> QED BY <2>2, <3>2, <3>3
  <2>4. torn' = torn /\ faults' \in 0..MaxFaults /\ (faults' = 0 => faults = 0 /\ k = Len(c))
          /\ at' = "clear" /\ ret' = ret
    BY <1>1, <1>4, <1>6 DEF Fine, Trouble, Goto
  <2>5. TypeOK'
    BY <1>1, <1>2, <1>4, <1>6, <2>1, <2>2, <2>3, <2>4 DEF TypeOK
  <2>6. /\ (\A S : Clear(S)' <=> Clear(S)) /\ (Tidy' <=> Tidy) /\ UsedBlocks' = UsedBlocks
             /\ FreeBlocks' = FreeBlocks
        /\ (\A n : Contents(n)' = Contents(n)) /\ (\A q : BlocksAt(q)' = BlocksAt(q))
             /\ (\A n : Places(n)' = Places(n))
    BY <1>1, SameDisk
  <2>7. BlocksAt(target)' = BlocksAt(p)
    <3>1. BlocksAt(target)' = BlocksAt(p)'
      BY <1>6 DEF BlocksAt, Entry
    <3> QED BY <2>6, <3>1
  <2>8. Made'
    BY <1>1, <1>6, <2>1, <2>4, <2>6 DEF Made, Closed, Mapping, Done
  <2>9. ~torn' => Tidy' /\ Safe'
    <3>1. ASSUME ~torn PROVE Tidy' /\ Clear(FreeBlocks)'
      <4>1. Tidy /\ Clear(FreeBlocks)
        BY <1>3, <3>1 DEF DiskInv, Safe
      <4> QED BY <2>6, <4>1 DEF Clear
    <3> QED BY <1>1, <1>2, <1>6, <2>3, <2>4, <2>6, <2>7, <3>1 DEF Safe
  <2>10. Exact /\ faults' = 0 => Complete'
    <3>1. ASSUME Exact, faults' = 0 PROVE FreeBlocks' = Block \ UsedBlocks'
                   /\ bam' = FreeBlocks' \cup BlocksAt(target)'
      BY <1>1, <1>2, <1>3, <1>6, <2>3, <2>4, <2>6, <2>7, <3>1 DEF DiskInv, Complete
    <3> QED BY <2>4, <3>1 DEF Complete, Mapping
  <2>11. faults' = 0 => ~torn'
    BY <2>4 DEF DiskInv
  <2> QED BY <2>5, <2>6, <2>8, <2>9, <2>10, <2>11 DEF DiskInv, OthersStay
<1>7. CASE Places(Cfg) # {} /\ target' = Foremost(Places(Cfg)) /\ Goto("clear")
           /\ LET c == Chain(data, Entry(target').first)
              IN  \E k \in 0..Len(c) :
                    /\ IF k = Len(c) THEN Fine ELSE Trouble("read")
                    /\ bam' = bam_load \cup Freed(c, k)
  <2>1. PICK p : p = Foremost(Places(Cfg))
    OBVIOUS
  <2>2. target' = p
    BY <1>7, <2>1
  <2>3. PICK c : c = Chain(data, Entry(p).first)
    OBVIOUS
  <2>4. \E k \in 0..Len(c) : (IF k = Len(c) THEN Fine ELSE Trouble("read"))
          /\ bam' = bam_load \cup Freed(c, k)
    BY <1>7, <2>2, <2>3
  <2>5. Places(Cfg) # {} /\ Goto("clear")
    BY <1>7
  <2> QED BY <1>6, <2>1, <2>2, <2>3, <2>4, <2>5
<1> QED BY <1>5, <1>7 DEF cbmdos_delete

LEMMA ClearStep ==
  ASSUME DiskInv, ClearEntry
  PROVE  DiskInv' /\ OthersStay
<1>1. at = "clear" /\ name = Cfg /\ doing = "delete" /\ target \in Places(Cfg) /\ DiskOK
  BY DEF ClearEntry, DiskInv, Made, TypeOK, DiskOK
<1>2. PICK p \in Files : p = target /\ p \in DirTrack \X (1..Slots) /\ p[1] \in Range(Dirs)
             /\ Entry(p).name = Cfg
  <2>1. Places(Cfg) \subseteq Files /\ \A q \in Places(Cfg) : Entry(q).name = Cfg
    BY DiskAssumption, MarksAssumption DEF Places, Files
  <2> QED BY <1>1, <2>1, ListingType
<1>3. PICK block : block = InSlot(Empty) /\ write_dir(p[1], block, "bam1", "IO")
  BY <1>2 DEF ClearEntry
<1>4. block \in DirBlock
  BY <1>1, <1>2, <1>3, SlotType
<1>5. /\ TypeOK /\ TypeOK' /\ DiskOK /\ DiskOK' /\ data' = data /\ map' = map /\ bam' = bam
           /\ doing' = doing
      /\ name' = name /\ first' = first /\ cur' = cur /\ put' = put /\ target' = target
      /\ FreeBlocks' = FreeBlocks /\ (torn' <=> torn)
      /\ \/ dir' = [dir EXCEPT ![p[1]] = block] /\ at' = "bam1" /\ ret' = ret /\ faults' = faults
         \/ dir' \in {dir, [dir EXCEPT ![p[1]] = block]} /\ at' = "idle" /\ ret' = "IO" /\ faults' # 0
  BY <1>1, <1>3, <1>4, DirWrite
<1>6. PICK S : S = BlocksAt(p) /\ S \subseteq UsedBlocks /\ S \subseteq Block /\ S \cap DirTrack = {}
  <2>1. BlocksAt(p) \subseteq Data /\ BlocksAt(p) \cap DirTrack = {}
    BY <1>1, FileType
  <2> QED BY <1>2, <2>1, UsedIs DEF Block
<1>7. ASSUME ~torn PROVE Tidy /\ Clear(FreeBlocks) /\ bam \subseteq FreeBlocks \cup S
  BY <1>1, <1>2, <1>6, <1>7 DEF DiskInv, Safe, Unmapped, Mapping
<1>8. ASSUME ~torn, dir' = [dir EXCEPT ![p[1]] = block]
      PROVE  /\ Tidy' /\ UsedBlocks' = UsedBlocks \ S
                  /\ (\A n \in Name \ {Cfg} : Contents(n)' = Contents(n))
             /\ Clear(FreeBlocks)' /\ Clear(bam)'
  <2>1. dir' = [dir EXCEPT ![target[1]] = InSlot(Empty)] /\ target \in Files
    BY <1>2, <1>3, <1>8
  <2>2. Entry(target).name = Cfg /\ BlocksAt(target) = S
    BY <1>2, <1>6
  <2>3. Tidy' /\ UsedBlocks' = UsedBlocks \ S /\ \A n \in Name \ {Cfg} : Contents(n)' = Contents(n)
    BY <1>5, <1>7, <1>8, <2>1, <2>2, Cleared
  <2>4. \A d \in DirTrack : d # p[1] => dir'[d] = dir[d]
    BY <1>5, <1>8 DEF DiskOK
  <2>5. FreeBlocks \cap UsedBlocks = {} /\ \A d \in FreeBlocks \cap DirTrack : d # p[1]
          /\ dir'[d] = EmptyDir
    BY <1>2, <1>7, <1>8, <2>4, UsedIs DEF Clear
  <2>6. Clear(FreeBlocks)'
    BY <1>5, <2>3, <2>5 DEF Clear
  <2>7. Clear(bam)'
    BY <1>5, <1>6, <1>7, <1>8, <2>3, <2>5 DEF Clear
  <2> QED BY <2>3, <2>6, <2>7
<1>9. ASSUME dir' = dir
      PROVE  (\A n : Contents(n)' = Contents(n)) /\ (Tidy' <=> Tidy) /\ (\A Q : Clear(Q)' <=> Clear(Q))
  BY <1>5, <1>9, SameDisk
<1>10. OthersStay
  BY <1>5, <1>8, <1>9 DEF OthersStay
<1>11. CASE dir' \in {dir, [dir EXCEPT ![p[1]] = block]} /\ at' = "idle" /\ ret' = "IO" /\ faults' # 0
  <2>1. ~Done'
    BY <1>11 DEF Done
  <2>2. ASSUME ~torn, dir' = dir PROVE Tidy' /\ Clear(FreeBlocks)'
    BY <1>5, <1>7, <1>9, <2>2 DEF Clear
  <2>3. ~torn' => Tidy' /\ Clear(FreeBlocks)'
    BY <1>5, <1>8, <1>11, <2>2
  <2> QED BY <1>5, <1>10, <1>11, <2>1, <2>3, Ended
<1>12. CASE dir' = [dir EXCEPT ![p[1]] = block] /\ at' = "bam1" /\ ret' = ret /\ faults' = faults
  <2>1. Made'
    BY <1>1, <1>5, <1>12 DEF Made, Closed, Mapping, Done
  <2>2. ~torn' => Tidy' /\ Safe'
    BY <1>1, <1>5, <1>8, <1>12 DEF Safe
  <2>3. Exact /\ faults' = 0 => Complete'
    <3> SUFFICES ASSUME Exact, faults = 0 PROVE Complete'
      BY <1>12
    <3>1. FreeBlocks = Block \ UsedBlocks /\ bam = FreeBlocks \cup S /\ ~torn
      BY <1>1, <1>2, <1>6 DEF DiskInv, Complete, Mapping
    <3>2. bam' = Block \ UsedBlocks'
      BY <1>5, <1>6, <1>8, <1>12, <3>1
    <3> QED BY <1>12, <3>2 DEF Complete, Mapping
  <2>4. faults' = 0 => ~torn'
    BY <1>5, <1>12 DEF DiskInv
  <2> QED BY <1>5, <1>10, <2>1, <2>2, <2>3, <2>4 DEF DiskInv
<1> QED BY <1>5, <1>11, <1>12

LEMMA CrashStep ==
  ASSUME DiskInv, Crash
  PROVE  DiskInv' /\ OthersStay
<1>1. /\ TypeOK /\ data' = data /\ dir' = dir /\ map' = map /\ bam' = bam /\ doing' = doing
           /\ name' = name /\ first' = first
      /\ cur' = cur /\ put' = put /\ target' = target /\ at # "idle" /\ at' = "idle" /\ ret' = "crash"
      /\ faults' = faults + 1 /\ faults < MaxFaults
      /\ torn' = (torn \/ (doing = "create" /\ at \in {"link", "newdir", "entry", "bam1", "bam2"}))
  BY DEF Crash, Trouble, Return, DiskInv, disk, file
<1>2. torn' \in BOOLEAN /\ torn \in BOOLEAN
  <2>1. torn \in BOOLEAN
    BY <1>1 DEF TypeOK
  <2> QED BY <1>1, <2>1, Zenon
<1>3. faults' \in 0..MaxFaults /\ faults' # 0
  BY <1>1, DiskAssumption DEF TypeOK
<1>4. TypeOK'
  BY <1>1, <1>2, <1>3 DEF TypeOK
<1>5. ~Done' /\ OthersStay
  <2>1. \A n : Contents(n)' = Contents(n)
    BY <1>1, SameDisk
  <2> QED BY <1>1, <2>1 DEF Done, OthersStay
<1>6. CASE torn'
  BY <1>1, <1>3, <1>4, <1>5, <1>6, Ended
<1>7. CASE ~torn'
  <2>1. ~torn /\ ~(doing = "create" /\ at \in {"link", "newdir", "entry", "bam1", "bam2"})
    BY <1>1, <1>7
  <2>2. ~Unmapped
    BY <2>1 DEF Unmapped, Mapping, DiskInv, Made, Closed
  <2>3. torn' = torn
    BY <1>2, <1>7, <2>1
  <2> QED BY <1>1, <1>4, <1>5, <2>2, <2>3, Rest
<1> QED BY <1>6, <1>7

\* Nothing is being done.
LEMMA IdleStep ==
  ASSUME DiskInv, at = "idle", UNCHANGED <<disk, bam, at, doing, ret, file, target>>,
         Fine \/ \E peril : Trouble(peril)
  PROVE  DiskInv' /\ OthersStay
<1>1. /\ TypeOK /\ data' = data /\ dir' = dir /\ map' = map /\ bam' = bam /\ doing' = doing
           /\ name' = name /\ first' = first
      /\ cur' = cur /\ put' = put /\ target' = target /\ at' = "idle" /\ ret' = ret
  BY DEF DiskInv, disk, file
<1>2. faults' \in 0..MaxFaults /\ torn' = torn /\ (faults' = 0 => faults = 0)
  BY <1>1, DiskAssumption DEF Fine, Trouble, TypeOK
<1>3. TypeOK'
  BY <1>1, <1>2 DEF TypeOK
<1>4. /\ (\A S : Clear(S)' <=> Clear(S)) /\ (Tidy' <=> Tidy) /\ UsedBlocks' = UsedBlocks
           /\ FreeBlocks' = FreeBlocks
      /\ (\A n : Contents(n)' = Contents(n)) /\ (\A q : Entry(q)' = Entry(q))
           /\ (\A n : Places(n)' = Places(n))
  BY <1>1, SameDisk
<1>5. Done' => target \in Places(Cfg)' /\ Placed(Entry(target).first)'
  <2> SUFFICES ASSUME Done PROVE target \in Places(Cfg)' /\ Placed(Entry(target).first)'
    BY <1>1 DEF Done
  <2>1. PICK b : b = Entry(target).first /\ target \in Places(Cfg) /\ Placed(b)
    BY DEF DiskInv, Made
  <2>2. Placed(b)' /\ (Entry(target).first)' = b
    BY <1>1, <1>4, <2>1 DEF Placed, Held
  <2> QED BY <1>4, <2>1, <2>2
<1>6. Made'
  BY <1>1, <1>5 DEF DiskInv, Made, Closed, Mapping, Done
<1>7. ~torn' => Tidy' /\ Safe'
  <2>1. ASSUME ~torn PROVE Tidy' /\ Clear(FreeBlocks)'
    <3>1. Tidy /\ Clear(FreeBlocks)
      BY <2>1 DEF DiskInv, Safe, Unmapped, Mapping
    <3> QED BY <1>4, <3>1 DEF Clear
  <2> QED BY <1>1, <1>2, <2>1 DEF Safe
<1>8. Exact /\ faults' = 0 => Complete'
  BY <1>1, <1>2, <1>4 DEF DiskInv, Complete, Mapping
<1> QED BY <1>2, <1>3, <1>4, <1>6, <1>7, <1>8 DEF DiskInv, OthersStay

-----------------------------------------------------------------------------
(* The bookmarks *)

\* What is in memory is what is put, as far as that has come.
TextInv ==
  /\ was # <<>> => Head(was) = Magic
  /\ step \in {"load", "screen"} => at = "idle"
  /\ step = "create" => (at = "idle" \/ doing = "delete") /\ text # <<>>
  /\ step = "put" =>
       /\ doing = "create" /\ text # <<>>
       /\ at = "filling" => Len(put) < Len(text) /\ \A k \in 1..Len(put) : put[k] = text[k]
       /\ Closed \/ Mapping \/ Done => put = text
  /\ told = "saved" => step = "load" /\ Done /\ put = text /\ text # <<>>

MarksInv == DiskInv /\ MarksTypeOK /\ TextInv

\* One more is counted or one less, of a text as much longer or shorter.
LEMMA CountMoves ==
  ASSUME NEW c \in 0..MARKS_MAX, NEW k \in Nat, c > 0 => c < k
  PROVE  /\ \A l \in Nat : c < MARKS_MAX /\ k + 1 <= l /\ 1 < l => c + 1 \in 0..MARKS_MAX /\ c + 1 < l
         /\ c > 0 => c - 1 \in 0..MARKS_MAX /\ c - 1 < k - 1
BY MarksAssumption

LEMMA CountIs ==
  ASSUME NEW t \in Seq(Item)
  PROVE  count_entries(t) \in 0..MARKS_MAX /\ (count_entries(t) > 0 => count_entries(t) < Len(t))
<1>1. Len(t) \in Nat /\ MARKS_MAX \in Nat \ {0}
  BY MarksAssumption
<1> DEFINE top == IF Len(t) = 0 THEN 0 ELSE IF Len(t) - 1 < MARKS_MAX THEN Len(t) - 1 ELSE MARKS_MAX
<1>2. top \in 0..MARKS_MAX /\ (top > 0 => top < Len(t))
  BY <1>1
<1>3. {n \in 1..MARKS_MAX : n < Len(t)} = 1..top
  BY <1>1
<1> HIDE DEF top
<1>4. Cardinality(1..top) = top
  <2>1. 1 \in Int /\ top \in Int
    BY <1>1, <1>2
  <2>2. Cardinality(1..top) = IF 1 > top THEN 0 ELSE top - 1 + 1
    BY <2>1, FS_Interval
  <2> QED BY <1>1, <1>2, <2>2
<1>5. count_entries(t) = top
  BY <1>3, <1>4 DEF count_entries
<1> QED BY <1>2, <1>5

\* A text with a bookmark more is one of ours, and longer by that one at least.
LEMMA AddedType ==
  ASSUME NEW t \in Seq(Item), t # <<>> => Head(t) = Magic, NEW m \in Mark
  PROVE  /\ Added(t, m) \in Seq(Item) /\ Added(t, m) # <<>> /\ Head(Added(t, m)) = Magic
         /\ Len(t) \in Nat /\ Len(Added(t, m)) \in Nat /\ Len(t) + 1 <= Len(Added(t, m))
         /\ 1 < Len(Added(t, m))
<1>1. Magic \in Item /\ m \in Item
  BY MarksAssumption
<1>3. PICK u : u = IF t = <<>> THEN <<Magic>> ELSE t
  OBVIOUS
<1>4. u \in Seq(Item) /\ u # <<>> /\ Head(u) = Magic /\ Len(t) <= Len(u) /\ 1 <= Len(u)
  <2>1. CASE t = <<>>
    <3>1. u = <<Magic>>
      BY <1>3, <2>1, Zenon
    <3> QED BY <1>1, <2>1, <3>1
  <2>2. CASE t # <<>>
    <3>1. u = t
      BY <1>3, <2>2, Zenon
    <3> QED BY <2>2, <3>1
  <2> QED BY <2>1, <2>2
<1>5. Added(t, m) = Append(u, m)
  BY <1>3 DEF Added
<1>6. Append(u, m) \in Seq(Item) /\ Len(Append(u, m)) = Len(u) + 1 /\ Append(u, m) # <<>>
        /\ Head(Append(u, m)) = Head(u)
  BY <1>1, <1>4
<1> QED BY <1>4, <1>5, <1>6

\* An entry that is shown is taken out, and never the magic line.
LEMMA RemovedType ==
  ASSUME NEW t \in Seq(Item), t # <<>> => Head(t) = Magic, Fits(t), NEW n \in Nat \ {0}, n < Len(t)
  PROVE  /\ Removed(t, n) \in Seq(Item) /\ Fits(Removed(t, n)) /\ Removed(t, n) # <<>>
              /\ Head(Removed(t, n)) = Magic
         /\ t # <<>> /\ Len(t) \in Nat /\ Len(Removed(t, n)) = Len(t) - 1
<1>1. n \in Nat \ {0} /\ n < Len(t) /\ Len(t) \in Nat /\ t # <<>> /\ Head(t) = t[1]
  OBVIOUS
<1>2. PICK a, b : a = SubSeq(t, 1, (n + 1) - 1) /\ b = SubSeq(t, (n + 1) + 1, Len(t))
  OBVIOUS
<1>3. a \in Seq(Item) /\ Len(a) = n /\ a[1] = t[1]
  BY <1>1, <1>2
<1>4. b \in Seq(Item) /\ Len(b) = Len(t) - (n + 1)
  BY <1>1, <1>2
<1>5. Removed(t, n) = a \o b
  BY <1>2 DEF Removed, RemoveAt
<1>6. a \o b \in Seq(Item) /\ Len(a \o b) = Len(t) - 1 /\ (a \o b)[1] = t[1]
  BY <1>1, <1>3, <1>4, SMTT(20)
<1>7. PICK u \in Seq(Item) : u = Removed(t, n) /\ Len(u) = Len(t) - 1 /\ u[1] = t[1]
  BY <1>5, <1>6
<1>8. u # <<>> /\ Head(u) = u[1]
  BY <1>1, <1>7
<1>9. Len(u) <= MARKS_CAP
  BY <1>1, <1>7, MarksAssumption DEF Fits
<1> QED BY <1>1, <1>7, <1>8, <1>9 DEF Fits

\* What a file holds is a text.
LEMMA ContentsType ==
  ASSUME DiskOK, NEW n \in Name
  PROVE  Contents(n) \in Seq(Item)
<1>1. CASE Places(n) = {}
  BY <1>1 DEF Contents
<1>2. CASE Places(n) # {}
  <2>1. PICK p \in Files : p = Foremost(Places(n))
    <3>1. Places(n) \in SUBSET Listing /\ Places(n) \subseteq Files
      BY DiskAssumption DEF Places, Files
    <3> QED BY <1>2, <3>1, ForemostIn
  <2>2. PICK c : c = Chain(data, Entry(p).first)
    OBVIOUS
  <2>3. c \in Seq(Data)
    <3>1. Blocks(data) /\ DOMAIN data = Data
      BY DataBlocks DEF DiskOK
    <3> QED BY <2>2, <3>1, FileType, ChainType
  <2>4. \A k \in DOMAIN c : data[c[k]].holds \in Item
    <3>1. \A k \in DOMAIN c : data[c[k]] \in DataBlock
      BY <2>3 DEF DiskOK
    <3> QED BY <3>1 DEF DataBlock
  <2>5. [k \in 1..Len(c) |-> data[c[k]].holds] \in Seq(Item)
    BY <2>3, <2>4
  <2>6. Contents(n) = [k \in DOMAIN c |-> data[c[k]].holds]
    BY <1>2, <2>1, <2>2 DEF Contents, Held
  <2>7. DOMAIN c = 1..Len(c)
    BY <2>3
  <2> QED BY <2>5, <2>6, <2>7
<1> QED BY <1>1, <1>2

LEMMA LoadedType ==
  ASSUME NEW t \in Seq(Item)
  PROVE  /\ Loaded(t) \in Seq(Item) /\ Fits(Loaded(t)) /\ (Loaded(t) # <<>> => Head(Loaded(t)) = Magic)
<1>1. <<>> \in Seq(Item) /\ Fits(<<>>)
  BY MarksAssumption DEF Fits
<1>2. CASE t # <<>> /\ Fits(t) /\ Head(t) = Magic
  BY <1>2 DEF Loaded
<1>3. CASE ~(t # <<>> /\ Fits(t) /\ Head(t) = Magic)
  <2>1. Loaded(t) = <<>>
    BY <1>3, Zenon DEF Loaded
  <2> QED BY <1>1, <2>1
<1> QED BY <1>2, <1>3

\* Of the steps that go on by themselves none fills a file, and what was put stays.
LEMMA Goes ==
  ASSUME MarksInv, Writing
  PROVE  /\ at # "idle" /\ at # "filling" /\ at' # "filling" /\ doing' = doing /\ put' = put
         /\ Closed \/ Mapping \/ (at = "clear" /\ doing = "delete")
<1>1. CASE dir_find_slot
  BY <1>1 DEF dir_find_slot, Return, Goto, file, Closed
<1>2. CASE LinkDir
  BY <1>2 DEF LinkDir, write_dir, Return, Goto, file, Closed
<1>3. CASE NewDir
  BY <1>3 DEF NewDir, write_dir, Return, Goto, file, Closed
<1>4. CASE WriteEntry
  BY <1>4 DEF WriteEntry, write_dir, Return, Goto, file, Closed
<1>5. CASE ClearEntry
  BY <1>5 DEF ClearEntry, write_dir, Return, Goto, file, MarksInv, DiskInv, Made
<1>6. CASE bam_save
  <2>1. PICK i \in 1..2 : at = <<"bam1", "bam2">>[i] /\ at' \in {"bam2", "idle"}
               /\ doing' = doing /\ put' = put
    BY <1>6 DEF bam_save, Return, Goto, file
  <2>2. at \in {"bam1", "bam2"}
    BY <2>1
  <2> QED BY <2>1, <2>2 DEF Mapping
<1> QED BY <1>1, <1>2, <1>3, <1>4, <1>5, <1>6 DEF Writing

\* A step of the bookmarks' keeps what is known of the disk.
LEMMA DiskSide ==
  ASSUME MarksInv, MarksNext
  PROVE  DiskInv' /\ OthersStay
<1> USE DEF MarksInv
<1>1. CASE marks_load
  BY <1>1, IdleStep DEF marks_load
<1>2. CASE session
  BY <1>2, IdleStep DEF session, TextInv, vars, Fine
<1>3. CASE \E m \in Mark : marks_add(m)
  <2>1. PICK m \in Mark : marks_add(m)
    BY <1>3
  <2>2. CASE cbmdos_delete(Cfg) /\ step' = "create"
    BY <2>1, <2>2, DeleteStep DEF marks_add
  <2>3. CASE UNCHANGED vars
    BY <2>1, <2>3, IdleStep DEF marks_add, vars, Fine
  <2> QED BY <2>1, <2>2, <2>3 DEF marks_add
<1>4. CASE \E n \in 1..MARKS_MAX : marks_remove(n)
  BY <1>4, DeleteStep DEF marks_remove
<1>5. CASE Create
  BY <1>5, CreateStep DEF Create
<1>6. CASE Put
  <2>1. text \in Seq(Item) /\ put \in Seq(Item) /\ text # <<>>
    BY <1>6 DEF MarksTypeOK, TypeOK, TextInv, Put
  <2>2. CASE Len(put) + 1 < Len(text) /\ cbmdos_put(text[Len(put) + 1])
    <3>1. text[Len(put) + 1] \in Item
      BY <2>1, <2>2
    <3> QED BY <2>2, <3>1, PutStep
  <2>3. CASE cbmdos_close(Last(text))
    <3>1. Last(text) \in Item
      BY <2>1 DEF Last
    <3> QED BY <2>3, <3>1, CloseStep
  <2> QED BY <1>6, <2>2, <2>3 DEF Put
<1>7. CASE Written
  BY <1>7, IdleStep DEF Written, vars, Fine
<1>8. CASE Writing /\ UNCHANGED marks
  BY <1>8, FindSlotStep, LinkStep, NewDirStep, EntryStep, ClearStep, SaveStep DEF Writing
<1>9. CASE Reset
  BY <1>9, CrashStep, IdleStep DEF Reset
<1> QED BY <1>1, <1>2, <1>3, <1>4, <1>5, <1>6, <1>7, <1>8, <1>9 DEF MarksNext

\* One more of a text is put.
More(q, t) == Append(q, t[Len(q) + 1])

LEMMA PutMore ==
  ASSUME NEW t \in Seq(Item), NEW q \in Seq(Item), Len(q) < Len(t), \A k \in 1..Len(q) : q[k] = t[k]
  PROVE  /\ Len(More(q, t)) = Len(q) + 1 /\ (\A k \in 1..Len(More(q, t)) : More(q, t)[k] = t[k])
         /\ Len(q) + 1 = Len(t) => More(q, t) = t /\ Append(q, Last(t)) = t
<1>1. PICK r : r = More(q, t)
  OBVIOUS
<1>2. Len(q) \in Nat /\ Len(t) \in Nat /\ Len(q) + 1 \in 1..Len(t)
  OBVIOUS
<1>3. t[Len(q) + 1] \in Item
  BY <1>2
<1>4. r \in Seq(Item) /\ Len(r) = Len(q) + 1 /\ r[Len(q) + 1] = t[Len(q) + 1]
        /\ \A k \in 1..Len(q) : r[k] = q[k]
  BY <1>1, <1>3 DEF More
<1>5. \A k \in 1..Len(r) : k = Len(q) + 1 \/ k \in 1..Len(q)
  BY <1>2, <1>4
<1>6. \A k \in 1..Len(r) : r[k] = t[k]
  BY <1>4, <1>5
<1>7. Len(q) + 1 = Len(t) => r = t
  BY <1>4, <1>6, SeqEqual
<1>8. Len(q) + 1 = Len(t) => Append(q, Last(t)) = r
  BY <1>1 DEF More, Last
<1> QED BY <1>1, <1>4, <1>6, <1>7, <1>8

\* ... and what is known of the text.
LEMMA TextSide ==
  ASSUME MarksInv, MarksNext, TypeOK'
  PROVE  MarksTypeOK' /\ TextInv'
<1>1. /\ TypeOK /\ text \in Seq(Item) /\ Fits(text) /\ (text # <<>> => Head(text) = Magic)
           /\ was \in Seq(Item) /\ Fits(was)
           /\ marks_count \in 0..MARKS_MAX /\ (marks_count > 0 => marks_count < Len(text))
      /\ (was # <<>> => Head(was) = Magic) /\ put \in Seq(Item) /\ Fits(<<>>) /\ <<>> \in Seq(Item)
      /\ step \in {"load", "screen", "create", "put"} /\ why \in {"add", "remove"}
      /\ told \in {"nothing", "saved", "could not write"} /\ (told = "saved" => step = "load")
  <2>1. Fits(<<>>) /\ <<>> \in Seq(Item)
    BY MarksAssumption DEF Fits
  <2> QED BY <2>1 DEF MarksInv, MarksTypeOK, TypeOK, TextInv
<1>2. Len(put) \in Nat /\ Len(text) \in Nat /\ (text # <<>> => 0 < Len(text)) /\ MARKS_MAX \in Nat
  <2>1. \A t \in Seq(Item) : Len(t) \in Nat /\ (t # <<>> => 0 < Len(t))
    OBVIOUS
  <2> QED BY <1>1, <2>1, MarksAssumption
<1>3. CASE marks_load
  <2>1. text' \in Seq(Item) /\ Fits(text') /\ (text' # <<>> => Head(text') = Magic)
    <3>1. Contents(Cfg) \in Seq(Item)
      BY <1>1, ContentsType, MarksAssumption DEF TypeOK, DiskOK
    <3> QED BY <1>1, <1>3, <3>1, LoadedType DEF marks_load
  <2>2. at = "idle" /\ at' = at /\ step' = "screen" /\ told' = "nothing" /\ was' = was /\ why' = why
    BY <1>3 DEF marks_load
  <2>3. marks_count' \in 0..MARKS_MAX /\ (marks_count' > 0 => marks_count' < Len(text'))
    BY <1>3, <2>1, CountIs DEF marks_load
  <2> QED BY <1>1, <2>1, <2>2, <2>3 DEF MarksTypeOK, TextInv, Fits
<1>4. CASE session
  <2>1. step = "screen" /\ at = "idle" /\ at' = at /\ step' = "load" /\ told' = told
          /\ text' = text /\ was' = was /\ why' = why /\ marks_count' = marks_count
    BY <1>4 DEF session, vars, MarksInv, TextInv
  <2> QED BY <1>1, <2>1 DEF MarksTypeOK, TextInv, Fits
<1>5. CASE \E m \in Mark : marks_add(m)
  <2>1. PICK m \in Mark : marks_add(m)
    BY <1>5
  <2>2. CASE put_field(Added(text, m))
    <3>1. PICK u : u = Added(text, m)
      OBVIOUS
    <3>2. /\ u \in Seq(Item) /\ u # <<>> /\ Head(u) = Magic /\ Fits(u)
          /\ Len(u) \in Nat /\ Len(text) + 1 <= Len(u) /\ 1 < Len(u)
      BY <1>1, <2>2, <3>1, AddedType DEF put_field
    <3>3. /\ text' = u /\ was' = text /\ marks_count' = marks_count + 1 /\ marks_count < MARKS_MAX
          /\ doing' = "delete" /\ step = "screen" /\ step' = "create" /\ told' = told /\ why' = "add"
      BY <2>1, <2>2, <3>1 DEF marks_add, cbmdos_delete, HasRoom
    <3>4. marks_count' \in 0..MARKS_MAX /\ (marks_count' > 0 => marks_count' < Len(text'))
      <4>1. marks_count + 1 \in 0..MARKS_MAX /\ marks_count + 1 < Len(u)
        BY <1>1, <1>2, <3>2, <3>3, CountMoves
      <4> QED BY <3>3, <4>1, Zenon
    <3>5. text' \in Seq(Item) /\ Fits(text') /\ text' # <<>> /\ Head(text') = Magic
      BY <3>2, <3>3, Zenon
    <3> QED BY <1>1, <3>3, <3>4, <3>5 DEF MarksTypeOK, TextInv, Fits
  <2>3. CASE ~put_field(Added(text, m))
    <3>1. /\ at = "idle" /\ at' = at /\ step' = "load" /\ told' = "could not write"
          /\ text' = text /\ was' = was /\ why' = why /\ marks_count' = marks_count
      BY <2>1, <2>3 DEF marks_add, vars
    <3> QED BY <1>1, <3>1 DEF MarksTypeOK, TextInv, Fits
  <2> QED BY <2>2, <2>3
<1>6. CASE \E n \in 1..MARKS_MAX : marks_remove(n)
  <2>1. PICK n \in 1..marks_count : marks_remove(n)
    BY <1>6 DEF marks_remove
  <2>2. n \in Nat \ {0} /\ n < Len(text) /\ marks_count > 0
    <3>1. /\ n \in 1..marks_count /\ marks_count \in 0..MARKS_MAX
          /\ (marks_count > 0 => marks_count < Len(text))
      BY <1>1, <2>1
    <3> QED BY <1>2, <3>1
  <2>3. /\ text' \in Seq(Item) /\ Fits(text') /\ text' # <<>> /\ Head(text') = Magic
        /\ Len(text') = Len(text) - 1
    BY <1>1, <2>1, <2>2, RemovedType DEF marks_remove
  <2>4. doing' = "delete" /\ step = "screen" /\ step' = "create" /\ told' = told /\ was' = was
          /\ why' = "remove" /\ marks_count' = marks_count - 1
    BY <2>1 DEF marks_remove, cbmdos_delete
  <2>5. marks_count' \in 0..MARKS_MAX /\ (marks_count' > 0 => marks_count' < Len(text'))
    <3>1. marks_count - 1 \in 0..MARKS_MAX /\ marks_count - 1 < Len(text) - 1
      BY <1>1, <1>2, <2>2, CountMoves
    <3> QED BY <2>3, <2>4, <3>1, Zenon
  <2> QED BY <1>1, <2>3, <2>4, <2>5 DEF MarksTypeOK, TextInv, Fits
<1>7. CASE Create
  <2>1. step = "create" /\ step' = "put" /\ text' = text /\ was' = was /\ why' = why
          /\ told' = told /\ text # <<>> /\ marks_count' = marks_count
    BY <1>7 DEF Create, MarksInv, TextInv
  <2>2. doing' = "create" /\ put' = <<>> /\ (at' = "filling" \/ (at' = "idle" /\ ret' # "OK"))
    BY <1>7 DEF Create, cbmdos_create, Return, Goto
  <2>3. Len(put') = 0 /\ 0 < Len(text)
    BY <1>2, <2>1, <2>2
  <2>4. \A k \in 1..Len(put') : put'[k] = text[k]
    BY <2>3
  <2> QED BY <1>1, <2>1, <2>2, <2>3, <2>4 DEF MarksTypeOK, TextInv, Fits, Closed, Mapping, Done
<1>8. CASE Put
  <2>1. /\ step = "put" /\ step' = "put" /\ text' = text /\ was' = was /\ why' = why
             /\ told' = told /\ text # <<>> /\ marks_count' = marks_count
        /\ doing = "create"
             /\ (at = "filling" => Len(put) < Len(text) /\ \A k \in 1..Len(put) : put[k] = text[k])
    BY <1>8 DEF Put, marks, MarksInv, TextInv
  <2>2. CASE Len(put) + 1 < Len(text) /\ cbmdos_put(text[Len(put) + 1])
    <3>1. /\ at = "filling" /\ put' = Append(put, text[Len(put) + 1]) /\ doing' = doing
          /\ (at' = "filling" \/ (at' = "idle" /\ ret' # "OK"))
      BY <2>2 DEF cbmdos_put, Return
    <3>2. PICK r : r = More(put, text) /\ put' = r
      BY <3>1 DEF More
    <3>3. Len(put) < Len(text)
      BY <2>1, <3>1
    <3>4. Len(r) = Len(put) + 1 /\ \A k \in 1..Len(r) : r[k] = text[k]
      BY <1>1, <2>1, <3>1, <3>2, <3>3, PutMore
    <3> QED BY <1>1, <2>1, <2>2, <3>1, <3>2, <3>4 DEF MarksTypeOK, TextInv, Fits, Closed, Mapping, Done
  <2>3. CASE ~(Len(put) + 1 < Len(text)) /\ cbmdos_close(Last(text))
    <3>1. at = "filling" /\ put' = Append(put, Last(text)) /\ doing' = doing /\ at' # "filling"
      BY <2>3 DEF cbmdos_close, Return, Goto
    <3>2. Len(put) + 1 = Len(text)
      BY <1>2, <2>1, <2>3, <3>1
    <3>3. put' = text
      BY <1>1, <2>1, <3>1, <3>2, PutMore
    <3> QED BY <1>1, <2>1, <3>1, <3>3 DEF MarksTypeOK, TextInv, Fits
  <2> QED BY <1>8, <2>2, <2>3 DEF Put
<1>9. CASE Written
  <2>1. step = "put" /\ at = "idle" /\ at' = "idle" /\ ret' = ret /\ doing' = doing /\ put' = put
          /\ was' = was /\ why' = why
    BY <1>9 DEF Written, vars, file
  <2>2. doing = "create" /\ text # <<>> /\ (Done => put = text)
    BY <2>1 DEF MarksInv, TextInv
  <2>3. CASE /\ why = "add" /\ ret = "OK" /\ step' = "load" /\ told' = "saved"
             /\ text' = text /\ marks_count' = marks_count
    BY <1>1, <2>1, <2>2, <2>3 DEF MarksTypeOK, TextInv, Fits, Done
  <2>4. CASE /\ why = "add" /\ ret # "OK" /\ step' = "load" /\ told' = "could not write"
             /\ text' = was /\ marks_count' = count_entries(was)
    <3>1. marks_count' \in 0..MARKS_MAX /\ (marks_count' > 0 => marks_count' < Len(text'))
      BY <1>1, <2>4, CountIs
    <3> QED BY <1>1, <2>1, <2>4, <3>1 DEF MarksTypeOK, TextInv, Fits
  <2>5. CASE /\ why # "add" /\ step' = "screen" /\ told' = told
             /\ text' = text /\ marks_count' = marks_count
    BY <1>1, <2>1, <2>5 DEF MarksTypeOK, TextInv, Fits
  <2> QED BY <1>9, <2>3, <2>4, <2>5 DEF Written
<1>10. CASE Writing /\ UNCHANGED marks
  <2>1. /\ at # "idle" /\ at # "filling" /\ at' # "filling" /\ doing' = doing /\ put' = put
        /\ Closed \/ Mapping \/ (at = "clear" /\ doing = "delete")
    BY <1>10, Goes
  <2>2. text' = text /\ was' = was /\ step' = step /\ why' = why /\ told' = told
          /\ marks_count' = marks_count
    BY <1>10 DEF marks
  <2>3. step \in {"create", "put"} /\ told # "saved"
    BY <1>1, <2>1 DEF MarksInv, TextInv
  <2> QED BY <1>1, <2>1, <2>2, <2>3 DEF MarksInv, MarksTypeOK, TextInv, Fits
<1>11. CASE Reset
  <2>1. at' = "idle" /\ text' = <<>> /\ step' = "load" /\ told' = "nothing" /\ was' = was /\ why' = why
          /\ marks_count' = 0
    BY <1>11 DEF Reset, Crash, Return
  <2>2. marks_count' \in 0..MARKS_MAX /\ (marks_count' > 0 => marks_count' < Len(text'))
    BY <1>2, <2>1
  <2> QED BY <1>1, <2>1, <2>2 DEF MarksTypeOK, TextInv, Fits
<1> QED BY <1>3, <1>4, <1>5, <1>6, <1>7, <1>8, <1>9, <1>10, <1>11 DEF MarksNext

LEMMA MarksStart ==
  MarksInit => MarksInv
<1> SUFFICES ASSUME MarksInit PROVE MarksInv
  OBVIOUS
<1>1. PICK f \in Formats : data = f.data /\ dir = f.dir /\ map = f.map
  BY DEF MarksInit, Init
<1>2. /\ bam = {} /\ at = "idle" /\ doing = "delete" /\ ret = "OK" /\ name = NoName /\ first = 0
           /\ cur = 0 /\ put = <<>>
      /\ target = <<0, 0>> /\ faults = 0 /\ torn = FALSE
      /\ text = <<>> /\ marks_count = 0 /\ was = <<>> /\ step = "load" /\ why = "add" /\ told = "nothing"
  BY DEF MarksInit, Init
<1>3. data \in [Data -> DataBlock] /\ dir \in [DirTrack -> DirBlock] /\ map \in Maps /\ Sound(f)
  BY <1>1, FormatsAssumption
<1>4. TypeOK
  <2>1. {} \subseteq Block /\ <<>> \in Seq(Item) /\ 0 \in 0..MaxFaults
    BY DiskAssumption
  <2>2. torn \in BOOLEAN
    BY <1>2, Zenon
  <2> QED BY <1>2, <1>3, <2>1, <2>2 DEF TypeOK
<1>5. /\ Ends /\ Range(Dirs) \cap FreeBlocks = {}
      /\ \A p \in Files : data[Last(Chain(data, Entry(p).first))].next = 0
           /\ BlocksAt(p) \cap FreeBlocks = {}
      /\ \A p, q \in Files : p # q => BlocksAt(p) \cap BlocksAt(q) = {}
      /\ \A d \in DirTrack \cap FreeBlocks : dir[d] = EmptyDir
  <2> DEFINE dirs == Chain(f.dir, DirFirst)
             free == f.map[1] \cup f.map[2]
             filed(p) == p \in Range(dirs) \X (1..Slots) /\ f.dir[p[1]].slots[p[2]].name # NoName
             chain(p) == Chain(f.data, f.dir[p[1]].slots[p[2]].first)
  <2>1. /\ f.dir[Last(dirs)].next = 0 /\ Range(dirs) \cap free = {}
        /\ \A p : filed(p) => f.data[Last(chain(p))].next = 0 /\ Range(chain(p)) \cap free = {}
        /\ \A p, q : filed(p) /\ filed(q) /\ p # q => Range(chain(p)) \cap Range(chain(q)) = {}
        /\ \A d \in DirTrack \cap free : f.dir[d] = EmptyDir
    <3>1. PICK S : S = {p \in Range(dirs) \X (1..Slots) : f.dir[p[1]].slots[p[2]].name # NoName}
      OBVIOUS
    <3>2. /\ f.dir[Last(dirs)].next = 0 /\ Range(dirs) \cap free = {}
          /\ \A p \in S : f.data[Last(chain(p))].next = 0 /\ Range(chain(p)) \cap free = {}
          /\ \A p, q \in S : p # q => Range(chain(p)) \cap Range(chain(q)) = {}
          /\ \A d \in DirTrack \cap free : f.dir[d] = EmptyDir
      BY <1>3, <3>1, ZenonT(30) DEF Sound
    <3>3. \A p : filed(p) <=> p \in S
      BY <3>1
    <3> HIDE DEF filed, dirs, free, chain
    <3> QED BY <3>2, <3>3
  <2>2. Dirs = dirs /\ FreeBlocks = free /\ (Ends <=> f.dir[Last(dirs)].next = 0)
    BY <1>1 DEF Dirs, FreeBlocks, Ends
  <2>3. \A p : (p \in Files <=> filed(p)) /\ Entry(p) = f.dir[p[1]].slots[p[2]]
    BY <1>1, <2>2 DEF Files, Listing, Entry
  <2>4. \A p : Chain(data, Entry(p).first) = chain(p) /\ BlocksAt(p) = Range(chain(p))
    BY <1>1, <2>3 DEF BlocksAt
  <2> HIDE DEF dirs, free, filed, chain
  <2> QED BY <1>1, <2>1, <2>2, <2>3, <2>4
<1>6. Tidy
  <2>1. IsWhole(dir, DirFirst)
    <3>1. DOMAIN dir = DirTrack
      BY <1>3
    <3> QED BY <1>5, <3>1, DiskAssumption DEF IsWhole, Ends, Dirs
  <2>2. \A p \in Files : IsWhole(data, Entry(p).first)
    <3>1. DOMAIN data = Data /\ DiskOK
      BY <1>3 DEF DiskOK
    <3> QED BY <1>5, <3>1, FileType DEF IsWhole
  <2> QED BY <1>5, <2>1, <2>2 DEF Tidy
<1>7. Clear(FreeBlocks)
  BY <1>5, UsedIs DEF Clear
<1>8. Exact => FreeBlocks = Block \ UsedBlocks
  BY <1>1 DEF Exact, FreeBlocks, UsedBlocks, Dirs, Files, Listing, Entry, BlocksAt
<1>9. Made
  BY <1>2 DEF Made, Closed, Mapping, Done
<1>10. Safe
  BY <1>2, <1>7 DEF Safe
<1>11. Exact => Complete
  BY <1>2, <1>8 DEF Complete, Mapping
<1>12. MarksTypeOK /\ TextInv
  <2>1. <<>> \in Seq(Item) /\ Fits(<<>>) /\ 0 \in 0..MARKS_MAX
    BY MarksAssumption DEF Fits
  <2> QED BY <1>2, <1>4, <2>1 DEF MarksTypeOK, TextInv
<1> QED BY <1>2, <1>4, <1>6, <1>9, <1>10, <1>11, <1>12 DEF MarksInv, DiskInv

LEMMA MarksKeep ==
  MarksInv /\ [MarksNext]_<<vars, marks>> => MarksInv' /\ OthersStay
<1>1. ASSUME MarksInv, MarksNext PROVE MarksInv' /\ OthersStay
  <2>1. DiskInv' /\ OthersStay
    BY <1>1, DiskSide
  <2>2. TypeOK'
    BY <2>1 DEF DiskInv
  <2> QED BY <1>1, <2>1, <2>2, TextSide DEF MarksInv
<1>2. ASSUME MarksInv, UNCHANGED <<vars, marks>> PROVE MarksInv' /\ OthersStay
  <2>1. /\ disk' = disk /\ bam' = bam /\ at' = at /\ doing' = doing /\ ret' = ret /\ file' = file
             /\ target' = target
        /\ faults' = faults /\ torn' = torn /\ text' = text /\ was' = was /\ step' = step
             /\ why' = why /\ told' = told /\ marks_count' = marks_count
    BY <1>2 DEF vars, marks
  <2>2. /\ data' = data /\ dir' = dir /\ map' = map /\ name' = name /\ first' = first
             /\ cur' = cur /\ put' = put
    BY <2>1 DEF disk, file
  <2>3. /\ (\A S : Clear(S)' <=> Clear(S)) /\ (Tidy' <=> Tidy) /\ UsedBlocks' = UsedBlocks
             /\ FreeBlocks' = FreeBlocks
        /\ (\A n : Contents(n)' = Contents(n)) /\ (\A q : BlocksAt(q)' = BlocksAt(q))
             /\ (\A n : Places(n)' = Places(n))
        /\ Dirs' = Dirs /\ Listing' = Listing /\ \A p : Entry(p)' = Entry(p)
    BY <2>2, SameDisk
  <2>4. TypeOK'
    BY <1>2, <2>1, <2>2 DEF MarksInv, DiskInv, TypeOK
  <2>5. MarksTypeOK' /\ TextInv'
    BY <1>2, <2>1, <2>2, <2>4 DEF MarksInv, MarksTypeOK, TextInv, Closed, Mapping, Done
  <2>6. \A S : New(S) => New(S)'
    BY <2>1, <2>2, <2>3 DEF New
  <2>7. \A b : Placed(b) => Placed(b)'
    BY <2>2 DEF Placed, Held
  <2>8. \A s : FillingBy(s) => FillingBy(s)'
    BY <2>2, <2>6 DEF FillingBy
  <2>9. Closed => Placed(first)' /\ New(Range(Chain(data, first)))'
    <3>1. PICK b, S : b = first /\ S = Range(Chain(data, first))
      OBVIOUS
    <3>2. Closed => Placed(b)' /\ New(S)'
      BY <1>2, <2>6, <2>7, <3>1 DEF MarksInv, DiskInv, Made
    <3> QED BY <2>2, <3>1, <3>2 DEF Placed, New
  <2>10. (doing = "create" /\ Mapping) \/ Done => target \in Places(Cfg)' /\ Placed(Entry(target).first)'
    <3>1. PICK b : b = Entry(target).first
      OBVIOUS
    <3>2. (doing = "create" /\ Mapping) \/ Done => target \in Places(Cfg) /\ Placed(b)'
      BY <1>2, <2>7, <3>1 DEF MarksInv, DiskInv, Made
    <3>3. (Entry(target).first)' = b
      BY <2>1, <2>3, <3>1
    <3> QED BY <2>3, <3>2, <3>3 DEF Placed
  <2>11. Made'
    BY <1>2, <2>1, <2>2, <2>3, <2>8, <2>9, <2>10 DEF MarksInv, DiskInv, Made, Closed, Mapping, Done
  <2>12. ~torn => Safe'
    <3>1. ASSUME ~torn PROVE Safe
      BY <1>2, <3>1 DEF MarksInv, DiskInv
    <3>2. (Clear(FreeBlocks)' <=> Clear(FreeBlocks)) /\ (Clear(bam)' <=> Clear(bam))
            /\ SavedIn(1)' = SavedIn(1)
      BY <2>1, <2>3 DEF Clear, SavedIn
    <3>3. BlocksAt(target)' = BlocksAt(target)
      BY <2>1, <2>2 DEF BlocksAt, Entry
    <3> QED BY <2>1, <2>2, <2>3, <3>1, <3>2, <3>3 DEF Safe, Unmapped, Mapping
  <2>13. Exact /\ faults = 0 => Complete'
    <3>1. Exact /\ faults = 0 => Complete
      BY <1>2 DEF MarksInv, DiskInv
    <3>2. SavedIn(1)' = SavedIn(1) /\ BlocksAt(target)' = BlocksAt(target)
      BY <2>1, <2>2 DEF SavedIn, BlocksAt, Entry
    <3> QED BY <2>1, <2>2, <2>3, <3>1, <3>2 DEF Complete, Mapping
  <2>14. MarksInv'
    BY <1>2, <2>1, <2>3, <2>4, <2>5, <2>11, <2>12, <2>13 DEF MarksInv, DiskInv
  <2> QED BY <1>2, <2>14, <2>3 DEF OthersStay
<1> QED BY <1>1, <1>2

LEMMA MarksAlways ==
  MarksSpec => []MarksInv
<1>1. MarksInit => MarksInv
  BY MarksStart
<1>2. MarksInv /\ [MarksNext]_<<vars, marks>> => MarksInv'
  BY MarksKeep
<1> QED BY <1>1, <1>2, PTL DEF MarksSpec

-----------------------------------------------------------------------------
(* What holds of every disk *)

\* Whatever the file is and whoever wrote it, the text in memory is the magic
\* line and entries or nothing, and no longer than the memory for it (marks_add,
\* marks_load); and what the driver writes are blocks, entries and maps.
THEOREM TextFits ==
  MarksSpec => []MarksTypeOK
<1>1. MarksInv => MarksTypeOK
  BY DEF MarksInv
<1> QED BY <1>1, MarksAlways, PTL

\* No block comes to be in two files, and none of a file's is given away, through
\* any order of writes, failures and losses of power between them
\* (cbmdos_create_as, cbmdos_put, cbmdos_close, cbmdos_delete).
THEOREM BlocksApart ==
  MarksSpec => []NoSharedBlocks
<1>1. MarksInv => NoSharedBlocks
  <2> SUFFICES ASSUME MarksInv, ~torn
               PROVE  /\ \A p, q \in Files : p # q => BlocksAt(p) \cap BlocksAt(q) = {}
                      /\ at = "idle" => UsedBlocks \cap FreeBlocks = {}
    BY DEF NoSharedBlocks
  <2>1. Tidy /\ Safe
    BY DEF MarksInv, DiskInv
  <2>2. at = "idle" => Clear(FreeBlocks)
    BY <2>1 DEF Safe, Unmapped, Mapping
  <2> QED BY <2>1, <2>2 DEF Tidy, Clear
<1> QED BY <1>1, MarksAlways, PTL

\* ... and where nothing goes wrong none is lost.
THEOREM NothingLost ==
  ASSUME Exact
  PROVE  MarksSpec => []NoLostBlocks
<1>1. MarksInv => NoLostBlocks
  BY DEF MarksInv, DiskInv, Complete, Mapping, NoLostBlocks
<1> QED BY <1>1, MarksAlways, PTL

\* The client's own program, and every other file, holds what it held, whatever
\* is done to the bookmarks and wherever that is cut short.
THEOREM ProgramKept ==
  MarksSpec => OthersKept
<1>1. MarksInv /\ [MarksNext]_<<vars, marks>>
        => [~torn => \A n \in Name \ {Cfg} : Contents(n)' = Contents(n)]_<<vars, marks>>
  BY MarksKeep DEF OthersStay
<1> QED BY <1>1, MarksAlways, PTL DEF MarksSpec, OthersKept

\* A file made, and no other of its name, holds what was put.
LEMMA MadeHolds ==
  ASSUME MarksInv, Done, Places(Cfg) = {target}
  PROVE  Contents(Cfg) = put
<1>1. target \in Places(Cfg) /\ Placed(Entry(target).first) /\ DiskOK
  BY DEF MarksInv, DiskInv, Made, TypeOK, DiskOK
<1>2. PICK p : p = target /\ Places(Cfg) = {p}
  OBVIOUS
<1>3. Foremost(Places(Cfg)) = p
  <2>1. {p} \in SUBSET Listing
    BY <1>1, <1>2, ListingType
  <2>2. Foremost({p}) \in {p}
    BY <1>1, <2>1, ForemostIn
  <2> QED BY <1>2, <2>2
<1> QED BY <1>1, <1>2, <1>3 DEF Contents, Placed

\* A bookmark said to be saved is in the file for the next visit to find
\* (write_file's result is cbmdos_close's), on a disk in any state.
THEOREM SavedStays ==
  MarksSpec => []SavedIsKept
<1>1. MarksInv => SavedIsKept
  <2> SUFFICES ASSUME MarksInv, told = "saved", Cardinality(Places(Cfg)) = 1
               PROVE  Loaded(Contents(Cfg)) = text
    BY DEF SavedIsKept
  <2>1. Done /\ put = text /\ text # <<>> /\ Fits(text) /\ Head(text) = Magic /\ DiskOK
    BY DEF MarksInv, MarksTypeOK, TextInv, TypeOK, DiskOK
  <2>2. target \in Places(Cfg)
    BY <2>1 DEF MarksInv, DiskInv, Made
  <2>3. Places(Cfg) = {target}
    <3>1. IsFiniteSet(Places(Cfg))
      <4>1. IsFiniteSet(DirTrack) /\ IsFiniteSet(1..Slots)
        <5>1. DirTrack \in SUBSET Block /\ IsFiniteSet(Block)
          BY DiskAssumption DEF Block
        <5>2. 1 \in Int /\ Slots \in Int
          BY DiskAssumption
        <5> QED BY <5>1, <5>2, FS_Subset, FS_Interval
      <4>2. IsFiniteSet(DirTrack \X (1..Slots))
        BY <4>1, FS_Product
      <4>3. Places(Cfg) \in SUBSET (DirTrack \X (1..Slots))
        BY <2>1, ListingType
      <4> QED BY <4>2, <4>3, FS_Subset
    <3>2. \E x : Places(Cfg) = {x}
      BY <3>1, FS_Singleton
    <3> QED BY <2>2, <3>2
  <2>4. Contents(Cfg) = text
    BY <2>1, <2>3, MadeHolds
  <2> QED BY <2>1, <2>4 DEF Loaded
<1> QED BY <1>1, MarksAlways, PTL

-----------------------------------------------------------------------------
(* The list shown, while nothing fails *)

\* On no disk it finds are there two files of the bookmarks' name.
Ours(f) ==
  {p \in Range(Chain(f.dir, DirFirst)) \X (1..Slots) : f.dir[p[1]].slots[p[2]].name = Cfg}
Single == \A f \in Formats : \A p, q \in Ours(f) : p = q

\* There is one file, and none while it is written; and a shorter text has the
\* room of the longer one that was deleted, on the disk and in the directory.
Room(n, free) == Places(Cfg) = {} /\ FreeSlots # {} /\ n <= Cardinality(free \cap Data)

Listed ==
  /\ \A p, q \in Places(Cfg) : p = q
  /\ at = "filling" \/ Closed => Places(Cfg) = {}
  /\ at = "clear" => BlocksAt(target) \subseteq bam
  /\ at = "bam2" => map[1] = SavedIn(1)
  /\ step = "screen" => text = Loaded(Contents(Cfg))
  /\ why = "remove" /\ step = "create" =>
       /\ at = "clear" => Len(text) <= Cardinality(BlocksAt(target))
       /\ Mapping => Room(Len(text), bam)
       /\ at = "idle" => Room(Len(text), FreeBlocks)
  /\ why = "remove" /\ step = "put" =>
       /\ at = "filling" => FreeSlots # {} /\ Len(text) <= Len(put) + 1 + Cardinality(bam \cap Data)
       /\ at = "slot" => FreeSlots # {}
       /\ at \notin {"link", "newdir"} /\ (at = "idle" => Done)

\* Nothing has failed, nor does now.
Calm == faults = 0 /\ faults' = 0

LEMMA NoTrouble ==
  ASSUME Calm
  PROVE  \A peril : ~Trouble(peril)
BY DEF Calm, Trouble

LEMMA Counts ==
  ASSUME NEW S \in SUBSET Data
  PROVE  /\ IsFiniteSet(S) /\ Cardinality(S) \in Nat
         /\ \A T \in SUBSET S : Cardinality(T) <= Cardinality(S)
         /\ \A b \in S : Cardinality(S \ {b}) = Cardinality(S) - 1
<1>1. IsFiniteSet(S)
  <2>1. S \in SUBSET Block /\ IsFiniteSet(Block)
    BY DiskAssumption DEF Block
  <2> QED BY <2>1, FS_Subset
<1> QED BY <1>1, FS_CardinalityType, FS_Subset, FS_RemoveElement

\* What the first of a name holds is not more than its blocks.
LEMMA FirstFits ==
  ASSUME DiskOK, Tidy, Places(Cfg) # {}
  PROVE  /\ Foremost(Places(Cfg)) \in Places(Cfg) /\ BlocksAt(Foremost(Places(Cfg))) \subseteq Data
         /\ Len(Contents(Cfg)) <= Cardinality(BlocksAt(Foremost(Places(Cfg))))
<1>1. Places(Cfg) \in SUBSET Listing /\ Places(Cfg) \subseteq Files
  BY DiskAssumption, MarksAssumption DEF Places, Files
<1>2. PICK p : p = Foremost(Places(Cfg)) /\ p \in Places(Cfg) /\ p \in Files
  BY <1>1, ForemostIn
<1>3. PICK c : c = Chain(data, Entry(p).first)
  OBVIOUS
<1>4. Blocks(data) /\ DOMAIN data = Data /\ IsWhole(data, Entry(p).first) /\ BlocksAt(p) \subseteq Data
  BY <1>2, DataBlocks, FileType DEF DiskOK, Tidy
<1>5. IsInjective(c) /\ c \in Seq(Data)
  BY <1>2, <1>3, <1>4, ChainWhole, ChainType, FileType
<1>6. DOMAIN c = 1..Len(c) /\ Len(c) \in Nat /\ \A k \in 1..Len(c) : c[k] \in Range(c)
  BY <1>5 DEF Range
<1>7. c \in Seq(Range(c))
  BY <1>6, <1>5
<1>8. Range(c) = BlocksAt(p) /\ IsFiniteSet(Range(c))
  BY <1>3, <1>4, Counts DEF BlocksAt
<1>9. Len(c) <= Cardinality(BlocksAt(p))
  <2>1. Len(c) \in 0..Cardinality(Range(c)) /\ Cardinality(Range(c)) \in Nat
    BY <1>5, <1>7, <1>8, OnceFits, FS_CardinalityType
  <2> QED BY <1>8, <2>1
<1>10. Contents(Cfg) = [k \in 1..Len(c) |-> data[c[k]].holds]
  BY <1>2, <1>3, <1>6 DEF Contents, Held
<1>11. Len(Contents(Cfg)) = Len(c)
  BY <1>6, <1>10
<1> QED BY <1>2, <1>4, <1>9, <1>11

\* The file deleted is the only one, and all of its blocks are to be free.
LEMMA DeleteListed ==
  ASSUME MarksInv, Listed, Calm, cbmdos_delete(Cfg)
  PROVE  /\ \/ at' = "idle" /\ Places(Cfg) = {}
            \/ /\ at' = "clear" /\ Places(Cfg) # {} /\ BlocksAt(target)' \subseteq bam'
               /\ BlocksAt(target)' = BlocksAt(Foremost(Places(Cfg)))
         /\ (\A p, q \in Places(Cfg)' : p = q) /\ Places(Cfg)' = Places(Cfg)
<1>1. data' = data /\ dir' = dir /\ map' = map
  BY DEF cbmdos_delete, disk
<1>2. Places(Cfg)' = Places(Cfg) /\ \A p : BlocksAt(p)' = BlocksAt(p)
  BY <1>1, SameDisk
<1>3. CASE Places(Cfg) = {} /\ Return("NOTFOUND")
  BY <1>2, <1>3 DEF Return
<1>4. CASE /\ Places(Cfg) # {}
           /\ target' = Foremost(Places(Cfg))
           /\ LET c == Chain(data, Entry(target').first)
              IN  \E k \in 0..Len(c) :
                    /\ IF k = Len(c) THEN Fine ELSE Trouble("read")
                    /\ bam' = bam_load \cup Freed(c, k)
           /\ Goto("clear")
  <2>1. PICK p : p = Foremost(Places(Cfg)) /\ p = target' /\ p \in Files
    <3>1. Places(Cfg) \in SUBSET Listing /\ Places(Cfg) \subseteq Files /\ DiskOK
      BY DiskAssumption, MarksAssumption DEF Places, Files, MarksInv, DiskInv, TypeOK, DiskOK
    <3> QED BY <1>4, <3>1, ForemostIn
  <2>2. PICK c : c = Chain(data, Entry(p).first)
    OBVIOUS
  <2>3. bam' = bam_load \cup Freed(c, Len(c))
    BY <1>4, <2>1, <2>2, NoTrouble
  <2>4. c \in Seq(Data)
    BY <2>1, <2>2, DataBlocks, ChainType, FileType DEF DiskOK, MarksInv, DiskInv, TypeOK
  <2>5. Range(c) \subseteq Freed(c, Len(c))
    BY <2>4 DEF Range, Freed
  <2>6. BlocksAt(p) = Range(c)
    BY <2>2 DEF BlocksAt
  <2>7. BlocksAt(target)' = BlocksAt(p)
    BY <1>1, <2>1 DEF BlocksAt, Entry
  <2> QED BY <1>2, <1>4, <2>1, <2>3, <2>5, <2>6, <2>7 DEF Goto, Listed
<1> QED BY <1>3, <1>4, NoTrouble DEF cbmdos_delete

\* What a step without a failure finds.
LEMMA CalmDisk ==
  ASSUME MarksInv, Calm
  PROVE  /\ DiskOK /\ TypeOK /\ Tidy /\ Safe /\ ~torn /\ Ends
         /\ bam \in SUBSET Block /\ FreeBlocks \in SUBSET Block
<1>1. DiskOK /\ TypeOK /\ Tidy /\ Safe /\ ~torn
  BY DEF Calm, MarksInv, DiskInv, TypeOK, DiskOK
<1>2. Ends
  BY <1>1 DEF Tidy, IsWhole, Ends, Dirs
<1>3. bam \in SUBSET Block /\ FreeBlocks \in SUBSET Block
  BY <1>1 DEF TypeOK, Maps, FreeBlocks, Block, Data
<1> QED BY <1>1, <1>2, <1>3

\* An entry removed leaves a text that has the room of the old one.
LEMMA RemoveListed ==
  ASSUME MarksInv, Listed, Calm, NEW n \in 1..MARKS_MAX, marks_remove(n)
  PROVE  Listed'
<1>1. /\ step = "screen" /\ at = "idle" /\ n \in 1..marks_count /\ text' = Removed(text, n)
      /\ cbmdos_delete(Cfg) /\ step' = "create" /\ why' = "remove"
  BY DEF marks_remove
<1>2. /\ text \in Seq(Item) /\ Fits(text) /\ (text # <<>> => Head(text) = Magic)
      /\ n \in Nat \ {0} /\ n < Len(text)
  <2>1. /\ text \in Seq(Item) /\ Fits(text) /\ (text # <<>> => Head(text) = Magic)
        /\ marks_count \in 0..MARKS_MAX /\ (marks_count > 0 => marks_count < Len(text))
    BY DEF MarksInv, MarksTypeOK
  <2> QED BY <1>1, <2>1, MarksAssumption
<1>3. text # <<>> /\ Len(text) \in Nat /\ Len(text') = Len(text) - 1
  BY <1>1, <1>2, RemovedType
<1>4. text = Contents(Cfg)
  <2>1. text = Loaded(Contents(Cfg))
    BY <1>1 DEF Listed
  <2> QED BY <1>3, <2>1, Zenon DEF Loaded
<1>5. Places(Cfg) # {}
  BY <1>3, <1>4 DEF Contents
<1>6. PICK S : S = BlocksAt(Foremost(Places(Cfg))) /\ S \subseteq Data /\ Len(text) <= Cardinality(S)
  BY <1>4, <1>5, CalmDisk, FirstFits
<1>7. at' = "clear" /\ BlocksAt(target)' = S /\ S \subseteq bam' /\ \A p, q \in Places(Cfg)' : p = q
  BY <1>1, <1>5, <1>6, DeleteListed
<1>8. Len(text') <= Cardinality(S)
  <2>1. Cardinality(S) \in Nat
    BY <1>6, Counts
  <2> QED BY <1>3, <1>6, <2>1
<1>9. Len(text)' <= Cardinality(BlocksAt(target))'
  BY <1>7, <1>8
<1> QED BY <1>1, <1>7, <1>9 DEF Listed, Closed, Mapping

\* The entry cleared, its file's blocks are room.
LEMMA ClearListed ==
  ASSUME MarksInv, MarksInv', Listed, Calm, ClearEntry, UNCHANGED marks
  PROVE  Listed'
<1>1. /\ at = "clear" /\ target \in Places(Cfg) /\ DiskOK /\ DiskOK' /\ Tidy
      /\ bam \in SUBSET Block
  BY CalmDisk DEF ClearEntry, MarksInv, DiskInv, Made, TypeOK, DiskOK
<1>2. /\ dir' = [dir EXCEPT ![target[1]] = InSlot(Empty)] /\ at' = "bam1" /\ bam' = bam
      /\ target' = target
  BY NoTrouble DEF ClearEntry, write_dir, Goto
<1>3. PICK p : p = target /\ p \in Listing /\ p \in Files /\ Places(Cfg) = {p}
  <2>1. Places(Cfg) \subseteq Files /\ Places(Cfg) \subseteq Listing
    BY DiskAssumption, MarksAssumption DEF Places, Files
  <2> QED BY <1>1, <2>1 DEF Listed
<1>4. /\ Listing' = Listing /\ (\A q \in DirTrack \X (1..Slots) : q # target => Entry(q)' = Entry(q))
      /\ \A q : q = target => Entry(q)' = Empty
  BY <1>1, <1>2, <1>3, SlotWritten DEF Tidy
<1>5. Places(Cfg)' = {}
  <2>1. \A q \in Listing : q \in DirTrack \X (1..Slots)
    BY <1>1, ListingType
  <2>2. Empty.name # Cfg
    BY DiskAssumption, MarksAssumption DEF Empty
  <2>3. \A q \in Listing : Entry(q)'.name # Cfg
    BY <1>3, <1>4, <2>1, <2>2 DEF Places
  <2> QED BY <1>4, <2>3 DEF Places
<1>6. FreeSlots' # {}
  <2>1. p \in Listing' /\ Entry(p)'.name = NoName
    BY <1>3, <1>4 DEF Empty
  <2> QED BY <2>1 DEF FreeSlots, Places
<1>7. step = "create" /\ why = "remove" => Room(Len(text), bam)'
  <2>1. SUFFICES ASSUME step = "create", why = "remove"
                 PROVE  Len(text)' <= Cardinality(bam \cap Data)'
    BY <1>5, <1>6 DEF Room
  <2>2. PICK S, T : S = BlocksAt(p) /\ T = bam \cap Data
    OBVIOUS
  <2>3. S \subseteq T /\ Len(text) <= Cardinality(S)
    BY <1>1, <1>3, <2>1, <2>2, FileType DEF Listed
  <2>4. Cardinality(S) <= Cardinality(T) /\ Cardinality(S) \in Nat /\ Cardinality(T) \in Nat
    BY <2>2, <2>3, Counts
  <2>5. Len(text) \in Nat
    <3>1. text \in Seq(Item)
      BY DEF MarksInv, MarksTypeOK
    <3> QED BY <3>1
  <2> QED BY <1>2, <2>2, <2>3, <2>4, <2>5 DEF marks
<1>8. step' = step /\ why' = why /\ step \notin {"screen", "put"}
  BY <1>1 DEF marks, MarksInv, TextInv, DiskInv, Made
<1> QED BY <1>2, <1>5, <1>7, <1>8 DEF Listed, Closed, Mapping

\* The map written, it has the room.
LEMMA SaveListed ==
  ASSUME MarksInv, MarksInv', Listed, Calm, bam_save, UNCHANGED marks
  PROVE  Listed'
<1>1. PICK i \in 1..2 :
        /\ at = <<"bam1", "bam2">>[i]
        /\ map' = [map EXCEPT ![i] = SavedIn(i)] /\ IF i = 1 THEN Goto("bam2") ELSE Return("OK")
        /\ UNCHANGED <<data, dir, bam, doing, file, target>>
  BY NoTrouble DEF bam_save
<1>2. PICK saved : saved = [map EXCEPT ![i] = SavedIn(i)]
  OBVIOUS
<1>3. /\ i = 1 => saved[1] = SavedIn(1)
      /\ i = 2 /\ map[1] = SavedIn(1) => saved[1] \cup saved[2] = bam
  BY <1>2, Mapped DEF MarksInv
<1>4. /\ at = (IF i = 1 THEN "bam1" ELSE "bam2") /\ Mapping
      /\ at' = (IF i = 1 THEN "bam2" ELSE "idle") /\ (i = 2 => ret' = "OK")
      /\ data' = data /\ dir' = dir /\ bam' = bam /\ doing' = doing /\ put' = put
      /\ text' = text /\ step' = step /\ why' = why
  <2>1. at = (IF i = 1 THEN "bam1" ELSE "bam2")
    BY <1>1
  <2> QED BY <1>1, <2>1 DEF Mapping, Goto, Return, marks, file
<1>5. Places(Cfg)' = Places(Cfg) /\ FreeSlots' = FreeSlots /\ SavedIn(1)' = SavedIn(1)
  BY <1>4, SameFiles DEF FreeSlots, SavedIn
<1>6. step \in {"create", "put"} /\ (step = "put" => doing = "create")
  BY <1>4 DEF MarksInv, MarksTypeOK, TextInv
<1>7. ASSUME i = 1 PROVE Listed'
  <2>1. at' = "bam2" /\ map'[1] = SavedIn(1)
    BY <1>1, <1>2, <1>3, <1>4, <1>7
  <2> QED BY <1>4, <1>5, <1>6, <2>1 DEF Listed, Closed, Mapping, Room
<1>8. ASSUME i = 2 PROVE Listed'
  <2>1. FreeBlocks' = bam /\ at' = "idle" /\ ret' = "OK"
    BY <1>1, <1>2, <1>3, <1>4, <1>8 DEF Listed, FreeBlocks
  <2>2. step = "put" => Done'
    BY <1>4, <1>6, <2>1 DEF Done
  <2> QED BY <1>4, <1>5, <1>6, <2>1, <2>2 DEF Listed, Closed, Mapping, Room
<1> QED BY <1>7, <1>8

\* The file is begun in the room there is.
LEMMA CreateListed ==
  ASSUME MarksInv, Listed, Calm, Create
  PROVE  Listed'
<1>1. /\ step = "create" /\ step' = "put" /\ text' = text /\ why' = why /\ at = "idle" /\ put' = <<>>
      /\ data' = data /\ dir' = dir /\ map' = map
  BY DEF Create, cbmdos_create, disk
<1>2. Places(Cfg)' = Places(Cfg) /\ FreeSlots' = FreeSlots
  BY <1>1, SameFiles DEF FreeSlots
<1>3. \/ at' = "idle" /\ (Places(Cfg) # {} \/ Full(FreeBlocks))
      \/ /\ Places(Cfg) = {} /\ ~Full(FreeBlocks) /\ at' = "filling"
         /\ bam' = FreeBlocks \ {bam_find(FreeBlocks)}
  <2>1. bam_load = FreeBlocks
    BY DEF bam_load, FreeBlocks
  <2>2. CASE Places(Cfg) # {} /\ Return("EXISTS")
    BY <2>2 DEF Return
  <2>3. CASE /\ Places(Cfg) = {}
             /\ IF Full(bam_load)
                  THEN bam' = bam_load /\ Return("FULL") /\ UNCHANGED <<first, cur>>
                  ELSE /\ bam' = bam_alloc(bam_load, bam_find(bam_load))
                       /\ first' = bam_find(bam_load) /\ cur' = first'
                       /\ Goto("filling")
    BY <2>1, <2>3 DEF Return, Goto, bam_alloc
  <2> QED BY <2>2, <2>3, NoTrouble DEF Create, cbmdos_create
<1>4. FreeBlocks \in SUBSET Block
  BY CalmDisk
<1>5. text # <<>> /\ Len(text) \in Nat \ {0}
  <2>1. text \in Seq(Item) /\ text # <<>>
    BY <1>1 DEF MarksInv, MarksTypeOK, TextInv
  <2> QED BY <2>1
<1>6. PICK S : S = FreeBlocks \cap Data
  OBVIOUS
<1>7. Cardinality(S) \in Nat /\ Cardinality({}) = 0
  BY <1>6, Counts, FS_EmptySet
<1>8. ASSUME why = "remove"
      PROVE  /\ at' = "filling" /\ FreeSlots # {}
             /\ Len(text) <= Len(put') + 1 + Cardinality(bam' \cap Data)
  <2>1. Places(Cfg) = {} /\ FreeSlots # {} /\ Len(text) <= Cardinality(S)
    BY <1>1, <1>6, <1>8 DEF Listed, Room
  <2>2. ~Full(FreeBlocks)
    <3>1. S # {}
      BY <1>5, <1>7, <2>1
    <3>2. bam_find(FreeBlocks) \in Data
      <4>1. S \in SUBSET Nat
        BY <1>6, DiskAssumption DEF Block
      <4>2. Lowest(S) \in S
        BY <3>1, <4>1, LowestIs
      <4> QED BY <1>6, <3>1, <4>2 DEF bam_find
    <3> QED BY <3>2, DiskAssumption DEF Full, Block
  <2>3. at' = "filling" /\ bam' = FreeBlocks \ {bam_find(FreeBlocks)}
    BY <1>3, <2>1, <2>2
  <2>4. PICK b \in S : b = bam_find(FreeBlocks)
    BY <1>4, <1>6, <2>2, Found
  <2>5. bam' \cap Data = S \ {b}
    BY <1>6, <2>3, <2>4
  <2>6. Cardinality(S \ {b}) = Cardinality(S) - 1
    BY <1>6, <2>4, Counts
  <2>7. Len(put') = 0
    BY <1>1
  <2>8. Cardinality(bam' \cap Data) = Cardinality(S) - 1
    BY <2>5, <2>6
  <2>9. Len(text) <= 0 + 1 + (Cardinality(S) - 1)
    BY <1>5, <1>7, <2>1
  <2> QED BY <2>1, <2>3, <2>7, <2>8, <2>9
<1>9. at' = "filling" \/ Closed' => Places(Cfg)' = {}
  BY <1>2, <1>3 DEF Closed
<1> QED BY <1>1, <1>2, <1>3, <1>8, <1>9 DEF Listed

\* Each block that is put takes one of the free ones, and one is left to be taken.
LEMMA PutListed ==
  ASSUME MarksInv, Listed, Calm, Put
  PROVE  Listed'
<1>1. step = "put" /\ step' = step /\ text' = text /\ why' = why
  BY DEF Put, marks
<1>2. text \in Seq(Item) /\ put \in Seq(Item) /\ bam \in SUBSET Block
  BY CalmDisk DEF TypeOK, MarksInv, MarksTypeOK
<1>3. Len(text) \in Nat /\ Len(put) \in Nat
  BY <1>2
<1>4. CASE Len(put) + 1 < Len(text) /\ cbmdos_put(text[Len(put) + 1])
  <2>1. /\ at = "filling" /\ put' = Append(put, text[Len(put) + 1]) /\ dir' = dir
        /\ \/ Full(bam) /\ at' = "idle" /\ data' = data
           \/ ~Full(bam) /\ bam' = bam \ {bam_find(bam)} /\ at' = at
    <3>1. at = "filling" /\ put' = Append(put, text[Len(put) + 1]) /\ dir' = dir
      BY <1>4 DEF cbmdos_put
    <3>2. CASE Full(bam)
      BY <1>4, <3>2 DEF cbmdos_put, Return
    <3>3. CASE ~Full(bam)
      BY <1>4, <3>3, NoTrouble DEF cbmdos_put, bam_alloc, write_data_fails
    <3> QED BY <3>1, <3>2, <3>3
  <2>2. Places(Cfg)' = Places(Cfg) /\ FreeSlots' = FreeSlots
    BY <2>1, SameDir DEF FreeSlots
  <2>3. PICK S : S = bam \cap Data
    OBVIOUS
  <2>4. Cardinality(S) \in Nat /\ Cardinality({}) = 0
    BY <2>3, Counts, FS_EmptySet
  <2>5. ASSUME why = "remove"
        PROVE  /\ at' = "filling" /\ FreeSlots # {}
               /\ Len(text) <= Len(put') + 1 + Cardinality(bam' \cap Data)
    <3>1. FreeSlots # {} /\ Len(text) <= Len(put) + 1 + Cardinality(S)
      BY <1>1, <2>1, <2>3, <2>5 DEF Listed
    <3>2. S # {}
      <4>1. Cardinality(S) # 0
        BY <1>3, <1>4, <2>4, <3>1
      <4> QED BY <2>4, <4>1
    <3>3. ~Full(bam)
      <4>1. S \in SUBSET Nat
        BY <2>3, DiskAssumption DEF Block
      <4>2. Lowest(S) \in S
        BY <3>2, <4>1, LowestIs
      <4>3. bam_find(bam) \in Data
        BY <2>3, <3>2, <4>2 DEF bam_find
      <4> QED BY <4>3, DiskAssumption DEF Full, Block
    <3>4. PICK b \in S : b = bam_find(bam)
      BY <1>2, <2>3, <3>3, Found
    <3>5. bam' \cap Data = S \ {b} /\ at' = "filling"
      BY <2>1, <2>3, <3>3, <3>4
    <3>6. Cardinality(S \ {b}) = Cardinality(S) - 1
      BY <2>3, <3>4, Counts
    <3>7. Len(put') = Len(put) + 1
      BY <1>2, <2>1
    <3>8. Cardinality(bam' \cap Data) = Cardinality(S) - 1
      BY <3>5, <3>6
    <3>9. Len(text) <= Len(put') + 1 + (Cardinality(S) - 1)
      BY <1>3, <2>4, <3>1, <3>7
    <3> QED BY <3>1, <3>5, <3>8, <3>9
  <2>6. at' \in {"idle", "filling"} /\ (at' = "filling" => Places(Cfg)' = {})
    BY <2>1, <2>2 DEF Listed
  <2> QED BY <1>1, <2>2, <2>5, <2>6 DEF Listed, Closed, Mapping
<1>5. CASE cbmdos_close(Last(text))
  <2>1. at = "filling" /\ at' = "slot" /\ dir' = dir
    BY <1>5, NoTrouble DEF cbmdos_close, write_data_fails, Goto
  <2>2. Places(Cfg)' = Places(Cfg) /\ FreeSlots' = FreeSlots
    BY <2>1, SameDir DEF FreeSlots
  <2> QED BY <1>1, <2>1, <2>2 DEF Listed, Closed, Mapping
<1> QED BY <1>4, <1>5 DEF Put

LEMMA FaultsGrow ==
  ASSUME [MarksNext]_<<vars, marks>>
  PROVE  faults' = faults \/ faults' = faults + 1
<1> USE DEF Fine, Trouble
<1>1. CASE marks_load \/ session \/ Written
  BY <1>1 DEF marks_load, session, Written, vars
<1>2. CASE (\E m \in Mark : marks_add(m)) \/ (\E n \in 1..MARKS_MAX : marks_remove(n))
  <2>1. cbmdos_delete(Cfg) \/ faults' = faults
    BY <1>2 DEF marks_add, marks_remove, vars
  <2>2. \A c, k : (IF k = Len(c) THEN Fine ELSE Trouble("read")) => faults' = faults \/ faults' = faults + 1
    OBVIOUS
  <2> QED BY <2>1, <2>2 DEF cbmdos_delete
<1>3. CASE Create
  BY <1>3, Zenon DEF Create, cbmdos_create
<1>4. CASE Put
  <2>1. \A x : cbmdos_put(x) => faults' = faults \/ faults' = faults + 1
    BY Zenon DEF cbmdos_put, write_data, write_data_fails
  <2>2. \A x : cbmdos_close(x) => faults' = faults \/ faults' = faults + 1
    BY Zenon DEF cbmdos_close, write_data, write_data_fails
  <2> QED BY <1>4, <2>1, <2>2, Zenon DEF Put
<1>5. CASE Writing
  BY <1>5, Zenon DEF Writing, dir_find_slot, LinkDir, NewDir, WriteEntry, ClearEntry, write_dir, bam_save
<1>6. CASE Reset
  BY <1>6 DEF Reset, Crash
<1>7. CASE UNCHANGED <<vars, marks>>
  BY <1>7 DEF vars
<1> QED BY <1>1, <1>2, <1>3, <1>4, <1>5, <1>6, <1>7 DEF MarksNext

\* A slot is found; a removal has left one.
LEMMA FindListed ==
  ASSUME MarksInv, MarksInv', Listed, Calm, dir_find_slot, UNCHANGED marks
  PROVE  Listed'
<1>1. at = "slot" /\ data' = data /\ dir' = dir /\ text' = text /\ step' = step /\ why' = why
  BY DEF dir_find_slot, disk, marks
<1>2. Places(Cfg)' = Places(Cfg) /\ FreeSlots' = FreeSlots
  BY <1>1, SameFiles DEF FreeSlots
<1>3. at' \in {"entry", "idle", "link"} /\ (FreeSlots # {} => at' = "entry")
  <2>1. CASE FreeSlots # {} /\ Goto("entry")
    BY <2>1 DEF Goto
  <2>2. CASE FreeSlots = {} /\ (Return("DIRFULL") \/ Goto("link"))
    BY <2>2 DEF Return, Goto
  <2> QED BY <2>1, <2>2, NoTrouble, Zenon DEF dir_find_slot
<1>4. step = "put"
  BY <1>1 DEF MarksInv, MarksTypeOK, TextInv, DiskInv, Made, Closed
<1> QED BY <1>1, <1>2, <1>3, <1>4 DEF Listed, Closed, Mapping

\* The directory grows by a block without the file in it.
LEMMA GrowListed ==
  ASSUME MarksInv, MarksInv', Listed, Calm, LinkDir \/ NewDir, UNCHANGED marks
  PROVE  Listed'
<1>1. DiskOK /\ DiskOK' /\ Tidy /\ Safe /\ TypeOK
  BY CalmDisk DEF MarksInv, DiskInv, TypeOK, DiskOK
<1>2. text' = text /\ step' = step /\ why' = why
  BY DEF marks
<1>3. step = "put" /\ (why = "remove" => at = "newdir")
  BY <1>1 DEF LinkDir, NewDir, MarksInv, MarksTypeOK, TextInv, DiskInv, Made, Closed, Listed
<1>4. CASE LinkDir
  <2>1. /\ at = "link" /\ at' = "newdir" /\ data' = data
        /\ dir' = [dir EXCEPT ![Last(Dirs)] = [dir[Last(Dirs)] EXCEPT !.next = target[1]]]
    BY <1>4, NoTrouble DEF LinkDir, write_dir, Goto
  <2>2. PICK t \in DirTrack : t = target[1] /\ t \in FreeBlocks
    BY <1>1, <2>1 DEF MarksInv, DiskInv, Made, Safe
  <2>3. Clear(FreeBlocks)
    BY <1>1, <2>1 DEF Safe, Unmapped, Mapping
  <2>4. t \notin Range(Dirs) /\ dir[t] = EmptyDir
    BY <2>2, <2>3, UsedIs DEF Clear
  <2>5. dir' = [dir EXCEPT ![Last(Dirs)] = [dir[Last(Dirs)] EXCEPT !.next = t]]
    BY <2>1, <2>2
  <2>6. Places(Cfg)' = Places(Cfg)
    BY <1>1, <2>1, <2>2, <2>4, <2>5, MarksAssumption, Extended
  <2>7. Places(Cfg) = {} /\ why # "remove"
    BY <1>3, <2>1 DEF Listed, Closed
  <2> QED BY <1>2, <1>3, <2>1, <2>6, <2>7 DEF Listed, Closed, Mapping
<1>5. CASE NewDir
  <2>1. /\ at = "newdir" /\ at' = "entry" /\ data' = data
        /\ dir' = [dir EXCEPT ![target[1]] = EmptyDir]
    BY <1>5, NoTrouble DEF NewDir, write_dir, Goto
  <2>2. PICK t \in DirTrack : t = target[1] /\ dir[t] = EmptyDir
    <3>1. target[1] \in Range(Dirs) /\ dir[target[1]] = EmptyDir
      BY <1>1, <2>1 DEF MarksInv, DiskInv, Made, Safe
    <3> QED BY <1>1, <3>1, DirsType
  <2>3. dir' = dir
    BY <1>1, <2>1, <2>2 DEF DiskOK
  <2>4. Places(Cfg)' = Places(Cfg)
    BY <2>1, <2>3, SameFiles
  <2>5. Places(Cfg) = {} /\ why # "remove"
    BY <1>3, <2>1 DEF Listed, Closed
  <2> QED BY <1>2, <1>3, <2>1, <2>4, <2>5 DEF Listed, Closed, Mapping
<1> QED BY <1>4, <1>5

\* The new entry is the one of its name.
LEMMA EntryListed ==
  ASSUME MarksInv, MarksInv', Listed, Calm, WriteEntry, UNCHANGED marks
  PROVE  Listed'
<1>1. /\ at = "entry" /\ target \in Listing /\ Places(Cfg) = {} /\ doing = "create"
      /\ DiskOK /\ DiskOK' /\ Tidy
  BY CalmDisk DEF WriteEntry, MarksInv, DiskInv, Made, Closed, TypeOK, DiskOK, Listed
<1>2. PICK e : /\ dir' = [dir EXCEPT ![target[1]] = InSlot(e)]
               /\ at' = "bam1" /\ doing' = doing
  BY NoTrouble DEF WriteEntry, write_dir, Goto
<1>3. /\ Listing' = Listing
      /\ \A q \in DirTrack \X (1..Slots) : q # target => Entry(q)' = Entry(q)
  BY <1>1, <1>2, SlotWritten DEF Tidy
<1>4. PICK t : t = target
  OBVIOUS
<1>5. Places(Cfg)' \subseteq {t}
  <2>1. \A q \in Listing : q \in DirTrack \X (1..Slots)
    BY <1>1, ListingType
  <2>2. \A q \in Listing : q # t => Entry(q)'.name # Cfg
    BY <1>1, <1>3, <1>4, <2>1 DEF Places
  <2> QED BY <1>3, <2>2 DEF Places
<1>6. text' = text /\ step' = step /\ why' = why /\ step = "put"
  BY <1>1 DEF marks, MarksInv, MarksTypeOK, TextInv
<1> QED BY <1>2, <1>5, <1>6 DEF Listed, Closed, Mapping

\* The file written is the text.
LEMMA WrittenListed ==
  ASSUME MarksInv, MarksInv', Listed, Calm, Written
  PROVE  Listed'
<1>1. /\ step = "put" /\ at = "idle" /\ at' = at /\ data' = data /\ dir' = dir /\ why' = why
      /\ \/ why = "add" /\ step' = "load"
         \/ why = "remove" /\ step' = "screen" /\ text' = text
  BY DEF Written, vars, disk, MarksInv, MarksTypeOK
<1>2. Places(Cfg)' = Places(Cfg) /\ Contents(Cfg)' = Contents(Cfg)
  BY <1>1, SameFiles
<1>3. ASSUME why = "remove" PROVE text = Loaded(Contents(Cfg))
  <2>1. Done
    BY <1>1, <1>3 DEF Listed
  <2>2. target \in Places(Cfg) /\ put = text /\ text # <<>>
    BY <1>1, <2>1 DEF MarksInv, DiskInv, Made, TextInv
  <2>3. Places(Cfg) = {target}
    BY <2>2 DEF Listed
  <2>4. Contents(Cfg) = text
    BY <2>1, <2>2, <2>3, MadeHolds
  <2> QED BY <2>2, <2>4 DEF MarksInv, MarksTypeOK, Loaded
<1> QED BY <1>1, <1>2, <1>3 DEF Listed, Closed, Mapping, Loaded

LEMMA ListedKeeps ==
  ASSUME MarksInv, MarksInv', Listed, Calm, [MarksNext]_<<vars, marks>>
  PROVE  Listed'
<1>1. CASE marks_load
  <2>1. at' = "idle" /\ step' = "screen" /\ text' = Loaded(Contents(Cfg)) /\ data' = data /\ dir' = dir
    BY <1>1, NoTrouble DEF marks_load, disk
  <2>2. Places(Cfg)' = Places(Cfg) /\ Contents(Cfg)' = Contents(Cfg)
    BY <2>1, SameFiles
  <2> QED BY <2>1, <2>2 DEF Listed, Closed, Mapping, Loaded
<1>2. CASE session
  <2>1. at' = at /\ at = "idle" /\ step' = "load" /\ data' = data /\ dir' = dir
    BY <1>2 DEF session, vars, disk, MarksInv, TextInv
  <2>2. Places(Cfg)' = Places(Cfg)
    BY <2>1, SameFiles
  <2> QED BY <2>1, <2>2 DEF Listed, Closed, Mapping
<1>3. CASE \E m \in Mark : marks_add(m)
  <2>1. CASE cbmdos_delete(Cfg) /\ step' = "create" /\ why' = "add"
    <3>1. /\ at' = "idle" \/ (at' = "clear" /\ BlocksAt(target)' \subseteq bam')
          /\ \A p, q \in Places(Cfg)' : p = q
      BY <2>1, DeleteListed
    <3> QED BY <2>1, <3>1 DEF Listed, Closed, Mapping
  <2>2. CASE at = "idle" /\ step' = "load" /\ UNCHANGED vars
    <3>1. at' = "idle" /\ data' = data /\ dir' = dir
      BY <2>2 DEF vars, disk
    <3>2. Places(Cfg)' = Places(Cfg)
      BY <3>1, SameFiles
    <3> QED BY <2>2, <3>1, <3>2 DEF Listed, Closed, Mapping
  <2> QED BY <1>3, <2>1, <2>2 DEF marks_add
<1>4. CASE \E n \in 1..MARKS_MAX : marks_remove(n)
  BY <1>4, RemoveListed
<1>5. CASE Create
  BY <1>5, CreateListed
<1>6. CASE Put
  BY <1>6, PutListed
<1>7. CASE Written
  BY <1>7, WrittenListed
<1>8. CASE Writing /\ UNCHANGED marks
  BY <1>8, FindListed, GrowListed, EntryListed, ClearListed, SaveListed DEF Writing
<1>9. CASE Reset
  BY <1>9, NoTrouble DEF Reset, Crash
<1>10. CASE UNCHANGED <<vars, marks>>
  <2>1. /\ data' = data /\ dir' = dir /\ map' = map /\ bam' = bam /\ at' = at /\ doing' = doing
        /\ ret' = ret /\ put' = put /\ target' = target /\ text' = text /\ step' = step /\ why' = why
    BY <1>10 DEF vars, disk, file, marks
  <2>2. /\ Places(Cfg)' = Places(Cfg) /\ FreeSlots' = FreeSlots /\ Contents(Cfg)' = Contents(Cfg)
        /\ FreeBlocks' = FreeBlocks /\ SavedIn(1)' = SavedIn(1)
    BY <2>1, SameDisk DEF FreeSlots, SavedIn
  <2>3. BlocksAt(target)' = BlocksAt(target)
    BY <2>1 DEF BlocksAt, Entry
  <2> QED BY <2>1, <2>2, <2>3 DEF Listed, Closed, Mapping, Done, Room, Loaded
<1> QED BY <1>1, <1>2, <1>3, <1>4, <1>5, <1>6, <1>7, <1>8, <1>9, <1>10 DEF MarksNext

\* The list on the first screen is the file's while nothing fails, though what
\* writing it after a removal returned is looked at by nobody (marks_remove), on
\* every disk that is sound and has no two files of the name.
THEOREM ListRight ==
  ASSUME Single
  PROVE  MarksSpec => []ListIsTheFile
<1> DEFINE ListInv == faults = 0 => Listed
<1>1. MarksInit => ListInv
  <2> SUFFICES ASSUME MarksInit PROVE Listed
    OBVIOUS
  <2>1. PICK f \in Formats : data = f.data /\ dir = f.dir /\ map = f.map
    BY DEF MarksInit, Init
  <2>2. at = "idle" /\ step = "load"
    BY DEF MarksInit, Init
  <2>3. \A p, q \in Places(Cfg) : p = q
    <3>1. \A p, q \in Ours(f) : p = q
      BY DEF Single
    <3>2. Places(Cfg) = Ours(f)
      BY <2>1 DEF Ours, Places, Listing, Dirs, Entry
    <3> QED BY <3>1, <3>2
  <2> QED BY <2>2, <2>3 DEF Listed, Closed, Mapping
<1>2. MarksInv /\ MarksInv' /\ ListInv /\ [MarksNext]_<<vars, marks>> => ListInv'
  <2> SUFFICES ASSUME MarksInv, MarksInv', ListInv, [MarksNext]_<<vars, marks>>, faults' = 0
               PROVE  Listed'
    OBVIOUS
  <2>1. faults = 0
    <3>1. faults \in Nat
      BY DiskAssumption DEF MarksInv, DiskInv, TypeOK
    <3>2. faults' = faults \/ faults' = faults + 1
      BY FaultsGrow
    <3> QED BY <3>1, <3>2
  <2> QED BY <2>1, ListedKeeps DEF Calm
<1>3. MarksInv /\ ListInv => ListIsTheFile
  BY DEF Listed, ListIsTheFile
<1> HIDE DEF ListInv
<1> QED BY <1>1, <1>2, <1>3, MarksAlways, PTL DEF MarksSpec
=============================================================================

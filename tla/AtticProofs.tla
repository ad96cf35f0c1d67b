----------------------------- MODULE AtticProofs -----------------------------
(***************************************************************************)
(* Theorems about Attic, for every size of the ring, of the history and of *)
(* the ignore list and every width of the counts.                          *)
(***************************************************************************)
EXTENDS Attic, SequenceTheorems, WellFoundedInduction, TLAPS

-----------------------------------------------------------------------------
(* A ring of r slots under a count modulo c, a whole number of rings *)

\* Where a is in its ring, hidden from the provers where only its lemmas matter.
In(a, r) == a % r

\* A number is so many rings and a part of one.
LEMMA Division ==
  ASSUME NEW r \in Int, NEW a \in Int, r > 0
  PROVE  a = r * (a \div r) + (a % r)
  OBVIOUS

\* ... the part being less than a ring, and the only one.
LEMMA InOf ==
  ASSUME NEW r \in Nat \ {0}, NEW a \in Nat
  PROVE  In(a, r) \in 0..(r - 1) /\ \E k \in Int : a = k * r + In(a, r)
<1>1. In(a, r) \in 0..(r - 1)
  BY DEF In
<1>2. a = r * (a \div r) + In(a, r)
  BY Division DEF In
<1>3. a \div r \in Int
  OBVIOUS
<1>4. \A k \in Int : r * k = k * r
  OBVIOUS
<1> HIDE DEF In
<1>5. PICK k \in Int : k = a \div r
  BY <1>3
<1>6. a = r * k + In(a, r)
  BY <1>2, <1>5, Zenon
<1> QED BY <1>1, <1>4, <1>6

\* The part is the one it is made from.
LEMMA InIs ==
  ASSUME NEW r \in Nat \ {0}, NEW k \in Int, NEW s \in 0..(r - 1)
  PROVE  In(k * r + s, r) = s
  BY DEF In

\* Two numbers less than a ring apart are in different slots.
LEMMA Apart ==
  ASSUME NEW r \in Nat \ {0}, NEW a \in Nat, NEW b \in Nat, a < b, b < a + r
  PROVE  In(a, r) # In(b, r)
<1> SUFFICES ASSUME In(a, r) = In(b, r) PROVE FALSE
  OBVIOUS
<1> PICK k \in Int : a = k * r + In(a, r)
  BY InOf
<1> PICK l \in Int : b = l * r + In(b, r)
  BY InOf
<1>1. In(a, r) \in 0..(r - 1) /\ In(b, r) \in 0..(r - 1)
  BY InOf
<1>2. k * r \in Int /\ l * r \in Int /\ (l - k) * r = l * r - k * r
  OBVIOUS
<1>3. 0 < (l - k) * r /\ (l - k) * r < r
  BY <1>1, <1>2
<1>4. CASE l - k >= 1
  <2>1. (l - k) * r >= r
    BY <1>4
  <2> QED BY <1>3, <2>1
<1>5. CASE l - k <= 0
  <2>1. (l - k) * r <= 0
    BY <1>5
  <2> QED BY <1>3, <2>1
<1> QED BY <1>4, <1>5

\* A count is a whole number of rings: going once round it changes no slot.
LEMMA Whole ==
  ASSUME NEW r \in Nat \ {0}, NEW c \in Nat, In(c, r) = 0, NEW a \in Nat
  PROVE  In(a + c, r) = In(a, r)
<1> PICK k \in Int : a = k * r + In(a, r)
  BY InOf
<1> PICK l \in Int : c = l * r + In(c, r)
  BY InOf
<1>1. In(a, r) \in 0..(r - 1) /\ k * r \in Int /\ l * r \in Int /\ (k + l) * r = k * r + l * r
  BY InOf
<1> PICK n \in Int : n = k + l
  OBVIOUS
<1>2. a + c = n * r + In(a, r)
  BY <1>1
<1>3. In(n * r + In(a, r), r) = In(a, r)
  BY <1>1, InIs
<1> QED BY <1>2, <1>3

\* A count is longer than two rings, if it is longer than one.
LEMMA TwoRings ==
  ASSUME NEW r \in Nat \ {0}, NEW c \in Nat, In(c, r) = 0, c > r
  PROVE  c >= 2 * r
<1> PICK l \in Int : c = l * r + In(c, r)
  BY InOf
<1>1. c = l * r
  OBVIOUS
<1>2. CASE l <= 1
  <2>1. l * r <= r
    BY <1>2
  <2> QED BY <1>1, <2>1
<1>3. CASE l >= 2
  <2>1. l * r >= 2 * r
    BY <1>3
  <2> QED BY <1>1, <2>1
<1> QED BY <1>2, <1>3

\* A number less than twice round.
LEMMA InOnce ==
  ASSUME NEW c \in Nat \ {0}, NEW a \in 0..(2 * c - 1)
  PROVE  In(a, c) = IF a < c THEN a ELSE a - c
  BY DEF In

\* What the count was d before it was t.
Before(c, t, d) == In(c + t - d, c)

\* ... without the modulus.
LEMMA BeforeIs ==
  ASSUME NEW c \in Nat \ {0}, NEW t \in 0..(c - 1), NEW d \in 0..c
  PROVE  Before(c, t, d) = IF t < d THEN c + t - d ELSE t - d
<1>1. c + t - d \in 0..(2 * c - 1)
  OBVIOUS
<1>2. In(c + t - d, c) = IF c + t - d < c THEN c + t - d ELSE c + t - d - c
  BY <1>1, InOnce
<1> QED BY <1>2 DEF Before

\* Counting on, what was d before is d + 1 before, and what is one before is
\* what the count was.
LEMMA CountedOn ==
  ASSUME NEW c \in Nat, c > 1, NEW t \in 0..(c - 1), NEW d \in 0..(c - 1)
  PROVE  /\ Before(c, t, d) \in 0..(c - 1)
         /\ In(t + 1, c) \in 0..(c - 1)
         /\ Before(c, In(t + 1, c), d + 1) = Before(c, t, d)
         /\ Before(c, In(t + 1, c), 1) = t
<1>1. t + 1 \in 0..(2 * c - 1)
  OBVIOUS
<1>2. In(t + 1, c) = IF t + 1 < c THEN t + 1 ELSE 0
  BY <1>1, InOnce
<1> DEFINE u == In(t + 1, c)
<1>3. u \in 0..(c - 1)
  BY <1>2
<1>4. Before(c, t, d) = IF t < d THEN c + t - d ELSE t - d
  BY BeforeIs
<1>5. Before(c, u, d + 1) = IF u < d + 1 THEN c + u - (d + 1) ELSE u - (d + 1)
  BY <1>3, BeforeIs
<1>6. Before(c, u, 1) = IF u < 1 THEN c + u - 1 ELSE u - 1
  BY <1>3, BeforeIs
<1> QED BY <1>2, <1>3, <1>4, <1>5, <1>6

\* What was counted less than a ring ago has a slot of its own still.
LEMMA SlotApart ==
  ASSUME NEW r \in Nat \ {0}, NEW c \in Nat, In(c, r) = 0, c > r,
         NEW t \in 0..(c - 1), NEW d \in 1..(r - 1)
  PROVE  In(Before(c, t, d), r) # In(t, r)
<1>1. Before(c, t, d) = IF t < d THEN c + t - d ELSE t - d
  BY BeforeIs
<1>2. CASE t >= d
  <2>1. t - d \in Nat /\ t \in Nat /\ t - d < t /\ t < (t - d) + r
    BY <1>2
  <2>2. In(t - d, r) # In(t, r)
    BY <2>1, Apart
  <2> QED BY <1>1, <1>2, <2>2
<1>3. CASE t < d
  <2>1. In(t + c, r) = In(t, r)
    BY Whole
  <2>2. c + t - d \in Nat /\ t + c \in Nat /\ c + t - d < t + c /\ t + c < (c + t - d) + r
    OBVIOUS
  <2>3. In(c + t - d, r) # In(t + c, r)
    BY <2>2, Apart
  <2> QED BY <1>1, <1>3, <2>1, <2>3
<1> QED BY <1>2, <1>3

\* Counting back from d before and then on again.
LEMMA BeforeAdd ==
  ASSUME NEW c \in Nat \ {0}, NEW t \in 0..(c - 1), NEW d \in 0..(c - 1), NEW j \in 0..d
  PROVE  In(Before(c, t, d) + j, c) = Before(c, t, d - j)
<1> DEFINE b == Before(c, t, d)
<1>1. b = IF t < d THEN c + t - d ELSE t - d
  BY BeforeIs
<1>2. b \in 0..(c - 1) /\ b + j \in 0..(2 * c - 1)
  BY <1>1
<1>3. In(b + j, c) = IF b + j < c THEN b + j ELSE b + j - c
  <2> HIDE DEF b
  <2> QED BY <1>2, InOnce
<1>4. d - j \in 0..c
  OBVIOUS
<1>5. Before(c, t, d - j) = IF t < d - j THEN c + t - (d - j) ELSE t - (d - j)
  BY <1>4, BeforeIs
<1>6. In(b + j, c) = Before(c, t, d - j)
  <2> HIDE DEF b
  <2> QED BY <1>1, <1>2, <1>3, <1>5
<1> QED BY <1>6

-----------------------------------------------------------------------------
(* The attic's slots *)

\* AtticAssumption as the lemmas above take it.
LEMMA Sizes ==
  /\ Ring \in Nat \ {0} /\ Rows \in 1..Ring
  /\ CountMod \in Nat /\ CountMod > 1 /\ CountMod > Ring /\ In(CountMod, Ring) = 0
  /\ CountMod >= 2 * Ring
  /\ HIST_MAX \in Nat \ {0}
  /\ HistMod \in Nat /\ HistMod > 1 /\ HistMod > HIST_MAX /\ In(HistMod, HIST_MAX) = 0
  /\ IGNORE_MAX \in Nat \ {0}
<1> USE AtticAssumption DEF AtticAssumption
<1>1. In(CountMod, Ring) = 0
  BY DEF In
<1>2. In(HistMod, HIST_MAX) = 0
  BY DEF In
<1>3. Ring \in Nat \ {0} /\ Rows \in 1..Ring
  OBVIOUS
<1>4. CountMod \in Nat /\ CountMod > Ring
  OBVIOUS
<1>5. HIST_MAX \in Nat \ {0}
  OBVIOUS
<1>6. HistMod \in Nat /\ HistMod > HIST_MAX
  OBVIOUS
<1>7. IGNORE_MAX \in Nat \ {0}
  OBVIOUS
<1> HIDE AtticAssumption
<1>8. CountMod >= 2 * Ring
  BY <1>1, <1>3, <1>4, TwoRings
<1> QED BY <1>1, <1>2, <1>3, <1>4, <1>5, <1>6, <1>7, <1>8

\* Each of the tenants' slots.
RingAt == 0..(Ring - 1)
HistAt == HIST_BASE..(IGNORE_BASE - 1)
IgnoreAt == IGNORE_BASE..(IGNORE_BASE + IGNORE_MAX - 1)

\* A row's slot and a line's slot.
LEMMA Slots ==
  ASSUME NEW a \in Nat
  PROVE  /\ slot(a) = In(a, Ring) /\ slot(a) \in RingAt
         /\ hist_slot(a) = HIST_BASE + In(a, HIST_MAX) /\ hist_slot(a) \in HistAt
<1>1. slot(a) = In(a, Ring) /\ hist_slot(a) = HIST_BASE + In(a, HIST_MAX)
  BY Zenon DEF slot, hist_slot, In
<1>2. In(a, Ring) \in 0..(Ring - 1) /\ In(a, HIST_MAX) \in 0..(HIST_MAX - 1)
  BY Sizes, InOf
<1> QED BY <1>1, <1>2, Sizes DEF RingAt, HistAt, HIST_BASE, IGNORE_BASE

\* The tenants are beside each other and share nothing.
LEMMA Tenants ==
  /\ Address = RingAt \cup HistAt \cup IgnoreAt
  /\ RingAt \cap HistAt = {} /\ RingAt \cap IgnoreAt = {} /\ HistAt \cap IgnoreAt = {}
  /\ \A i \in Entries : IGNORE_BASE + i - 1 \in IgnoreAt
  BY Sizes DEF Address, RingAt, HistAt, IgnoreAt, HIST_BASE, IGNORE_BASE, Entries

\* What any slot may hold.
Held == Row \cup Line \cup Nick \cup {Noise, None}

\* Everything keeps to its slots, the counts to theirs.
Types ==
  /\ mem \in [Address -> Held]
  /\ \A a \in RingAt : mem[a] \in Row \cup {Noise}
  /\ \A a \in HistAt : mem[a] \in Line \cup {Noise}
  /\ \A a \in IgnoreAt : mem[a] \in Nick \cup {None}
  /\ total \in 0..(CountMod - 1) /\ have \in 0..Ring
  /\ hist_count \in 0..(HistMod - 1) /\ hist_at \in 0..HIST_MAX
  /\ input \in Line \cup {None}

\* The line sent k lines ago.
LineAt(k) == mem[hist_slot(Before(HistMod, hist_count, k))]

\* What can be recalled are lines sent, where they were put.
History ==
  /\ sent \in Seq(Line) /\ Len(sent) <= HIST_MAX
  /\ Recallable <= Len(sent) /\ hist_at <= Len(sent)
  /\ \A k \in 1..Len(sent) : LineAt(k) = sent[k]

\* An entry holds what fits; of those never mistaken for a longer name's rest
\* there are no two for a person.
Silence ==
  /\ IgnoredAreSilent
  /\ \A i \in InUse : stored[entry(i)] = entry(i)
  /\ \A i, j \in InUse :
       same_ci(entry(i), entry(j)) /\ folded[entry(i)] \notin cut => i = j

IInv == Types /\ History /\ Silence

\* The row d rows ago.
RowAt(d) == mem[slot(Before(CountMod, total, d))]

\* The rows kept, by how long ago they were logged.
LEMMA KeptAt ==
  ASSUME Types
  PROVE  /\ kept = [i \in 1..have |-> RowAt(have - i + 1)]
         /\ \A top \in 0..Ring, p \in 1..Ring :
              top + p <= have =>
                mem[slot((FirstDrawn(top) + p - 1) % CountMod)] = RowAt(have - (top + p) + 1)
<1> DEFINE t == total
           C == CountMod
<1>1. t \in 0..(C - 1) /\ have \in 0..Ring /\ Ring \in Nat /\ C \in Nat \ {0} /\ C > Ring
  BY Sizes DEF Types
<1>2. ASSUME NEW top \in 0..have PROVE FirstDrawn(top) = Before(C, t, have - top)
  <2>1. C + t - have + top = C + t - (have - top)
    BY <1>1
  <2> QED BY <2>1, Zenon DEF FirstDrawn, Before, In
<1>3. ASSUME NEW top \in 0..have, NEW j \in 0..(have - top)
      PROVE  (FirstDrawn(top) + j) % C = Before(C, t, have - top - j)
  <2>1. have - top \in 0..(C - 1)
    BY <1>1
  <2>2. In(Before(C, t, have - top) + j, C) = Before(C, t, have - top - j)
    BY <1>1, <2>1, BeforeAdd
  <2> QED BY <1>2, <2>2, Zenon DEF In
<1>4. ASSUME NEW top \in 0..Ring, NEW p \in 1..Ring, top + p <= have
      PROVE  mem[slot((FirstDrawn(top) + p - 1) % C)] = RowAt(have - (top + p) + 1)
  <2>1. top \in 0..have /\ p - 1 \in 0..(have - top)
    BY <1>1, <1>4
  <2>2. (FirstDrawn(top) + (p - 1)) % C = Before(C, t, have - top - (p - 1))
    BY <1>3, <2>1, Zenon
  <2>3. have - top - (p - 1) = have - (top + p) + 1
    BY <1>1
  <2>4. Before(C, t, have - top) \in Nat /\ FirstDrawn(top) = Before(C, t, have - top)
    <3>1. have - top \in 0..C
      BY <1>1, <2>1
    <3>2. Before(C, t, have - top) \in Nat
      BY <1>1, <3>1, BeforeIs
    <3> QED BY <1>2, <2>1, <3>2
  <2>5. FirstDrawn(top) + (p - 1) = FirstDrawn(top) + p - 1
    BY <2>4
  <2> QED BY <2>2, <2>3, <2>5, Zenon DEF RowAt
<1>5. ASSUME NEW i \in 1..have
      PROVE  mem[slot((FirstDrawn(0) + i - 1) % C)] = RowAt(have - i + 1)
  <2>1. i \in 1..Ring /\ 0 \in 0..Ring /\ 0 + i <= have /\ 0 + i = i
    BY <1>1
  <2> QED BY <1>4, <2>1
<1> QED BY <1>4, <1>5, Zenon DEF kept

\* The rows by how long ago they were logged.
Ago == [d \in 1..Ring |-> RowAt(d)]

\* ... of which those on hand, oldest first, are the rows kept.
LEMMA KeptIs == Types => kept = [i \in 1..have |-> Ago[have - i + 1]]
<1> SUFFICES ASSUME Types PROVE kept = [i \in 1..have |-> Ago[have - i + 1]]
  OBVIOUS
<1>1. kept = [i \in 1..have |-> RowAt(have - i + 1)]
  BY KeptAt
<1>2. have \in 0..Ring /\ Ring \in Nat
  BY Sizes DEF Types
<1>3. ASSUME NEW i \in 1..have PROVE RowAt(have - i + 1) = Ago[have - i + 1]
  <2>1. have - i + 1 \in 1..Ring
    BY <1>2
  <2> QED BY <2>1 DEF Ago
<1> QED BY <1>1, <1>3

-----------------------------------------------------------------------------
(* What leaves a tenant's slots alone leaves what it means alone *)

\* Rows back are counts, and counts have slots.
LEMMA RowSlot ==
  ASSUME Types, NEW d \in 0..Ring
  PROVE  Before(CountMod, total, d) \in Nat /\ slot(Before(CountMod, total, d)) \in RingAt
<1>1. CountMod \in Nat \ {0} /\ total \in 0..(CountMod - 1) /\ d \in 0..CountMod
  BY Sizes DEF Types
<1>2. Before(CountMod, total, d) \in Nat
  BY <1>1, BeforeIs
<1> QED BY <1>2, Slots

\* ... and so have lines.
LEMMA LineSlot ==
  ASSUME Types, NEW d \in 0..HIST_MAX
  PROVE  Before(HistMod, hist_count, d) \in Nat /\ hist_slot(Before(HistMod, hist_count, d)) \in HistAt
<1>1. HistMod \in Nat \ {0} /\ hist_count \in 0..(HistMod - 1) /\ d \in 0..HistMod
  BY Sizes DEF Types
<1>2. Before(HistMod, hist_count, d) \in Nat
  BY <1>1, BeforeIs
<1> QED BY <1>2, Slots

\* The rows kept, when nothing is written among them.
LEMMA SameRows ==
  ASSUME Types, Types', UNCHANGED <<total, have>>, \A a \in RingAt : mem'[a] = mem[a]
  PROVE  kept' = kept
<1>1. have \in 0..Ring /\ Ring \in Nat
  BY Sizes DEF Types
<1>2. ASSUME NEW d \in 1..Ring PROVE RowAt(d)' = RowAt(d)
  <2>1. slot(Before(CountMod, total, d)) \in RingAt
    BY RowSlot
  <2> QED BY <2>1, Zenon DEF RowAt
<1>3. Ago' = Ago
  BY <1>2 DEF Ago
<1>4. kept = [i \in 1..have |-> Ago[have - i + 1]]
  BY KeptIs
<1>5. (kept = [i \in 1..have |-> Ago[have - i + 1]])'
  BY KeptIs, PTL
<1> QED BY <1>3, <1>4, <1>5

\* The lines sent, when nothing is written among them.
LEMMA SameLines ==
  ASSUME Types, History, UNCHANGED <<hist_count, sent>>, hist_at' <= Len(sent),
         \A a \in HistAt : mem'[a] = mem[a]
  PROVE  History'
<1>1. ASSUME NEW k \in 1..Len(sent) PROVE LineAt(k)' = LineAt(k)
  <2>1. k \in 0..HIST_MAX
    BY Sizes DEF History
  <2>2. hist_slot(Before(HistMod, hist_count, k)) \in HistAt
    BY <2>1, LineSlot
  <2> QED BY <2>2, Zenon DEF LineAt
<1> QED BY <1>1 DEF History, Recallable

\* The people ignored, when nothing is written among them.
LEMMA SamePeople ==
  ASSUME Silence, UNCHANGED list, \A a \in IgnoreAt : mem'[a] = mem[a]
  PROVE  Silence'
<1>1. \A i \in Entries : entry(i)' = entry(i)
  BY Tenants DEF entry
<1>2. InUse' = InUse
  BY <1>1 DEF InUse
<1>3. InUse \subseteq Entries
  BY DEF InUse
<1>4. \A who : ignored(who)' <=> ignored(who)
  BY <1>1, <1>2, <1>3 DEF ignored, same_ci
<1> QED BY <1>1, <1>2, <1>3, <1>4 DEF Silence, IgnoredAreSilent, list, same_ci

-----------------------------------------------------------------------------
(* The scrollback *)

\* The rows kept are a sequence, of as many as are on hand.
LEMMA KeptType ==
  ASSUME Types
  PROVE  kept \in Seq(Held) /\ Len(kept) = have
<1>1. have \in 0..Ring /\ Ring \in Nat
  BY Sizes DEF Types
<1>2. ASSUME NEW i \in 1..have PROVE RowAt(have - i + 1) \in Held
  <2>1. have - i + 1 \in 0..Ring
    BY <1>1
  <2>2. slot(Before(CountMod, total, have - i + 1)) \in Address
    BY <2>1, RowSlot, Tenants
  <2> QED BY <2>2 DEF RowAt, Types
<1>3. kept = [i \in 1..have |-> RowAt(have - i + 1)]
  BY KeptAt
<1> QED BY <1>1, <1>2, <1>3

\* ... as a fact of every state.
LEMMA KeptLen == Types => kept \in Seq(Held) /\ Len(kept) = have
  BY KeptType

\* A row logged is one row ago, and the others one row further.
LEMMA RowsMoveBack ==
  ASSUME Types, NEW r \in Row, log_row(r)
  PROVE  /\ RowAt(1)' = r
         /\ \A d \in 2..Ring : RowAt(d)' = RowAt(d - 1)
<1>1. CountMod \in Nat /\ CountMod > 1 /\ CountMod > Ring /\ Ring \in Nat \ {0}
  BY Sizes
<1>2. total \in 0..(CountMod - 1) /\ total \in Nat
  BY <1>1 DEF Types
<1>3. slot(total) \in Address /\ slot(total) = In(total, Ring)
  BY <1>2, Slots, Tenants
<1>4. total' = In(total + 1, CountMod) /\ mem' = [mem EXCEPT ![slot(total)] = r]
  BY Zenon DEF log_row, In
<1>5. Before(CountMod, total', 1) = total
  <2>1. 0 \in 0..(CountMod - 1)
    BY <1>1
  <2> QED BY <1>1, <1>2, <1>4, <2>1, CountedOn
<1>6. RowAt(1)' = r
  <2>1. RowAt(1)' = mem'[slot(Before(CountMod, total', 1))]
    BY DEF RowAt, slot, Before, In
  <2>2. mem'[slot(total)] = r
    BY <1>3, <1>4 DEF Types
  <2> QED BY <1>5, <2>1, <2>2
<1>7. ASSUME NEW d \in 2..Ring PROVE RowAt(d)' = RowAt(d - 1)
  <2>1. d - 1 \in 1..(Ring - 1) /\ d - 1 \in 0..Ring /\ d - 1 \in 0..(CountMod - 1) /\ d = (d - 1) + 1
    BY <1>1
  <2>2. Before(CountMod, total', d) = Before(CountMod, total, d - 1)
    <3> PICK e \in 0..(CountMod - 1) : e = d - 1 /\ d = e + 1
      BY <2>1
    <3>1. Before(CountMod, total', e + 1) = Before(CountMod, total, e)
      BY <1>1, <1>2, <1>4, CountedOn
    <3> QED BY <3>1
  <2> DEFINE b == Before(CountMod, total, d - 1)
  <2>3. b \in Nat /\ slot(b) = In(b, Ring) /\ slot(b) \in Address
    <3>1. b \in Nat /\ slot(b) \in RingAt
      BY <2>1, RowSlot
    <3> HIDE DEF b
    <3> QED BY <3>1, Slots, Tenants
  <2>4. In(b, Ring) # In(total, Ring)
    BY <1>1, <1>2, <2>1, Sizes, SlotApart
  <2>5. mem'[slot(b)] = mem[slot(b)]
    <3> HIDE DEF b
    <3> QED BY <1>3, <1>4, <2>3, <2>4 DEF Types
  <2>6. RowAt(d)' = mem'[slot(Before(CountMod, total', d))]
    BY Zenon DEF RowAt, slot, Before, In
  <2> QED BY <2>2, <2>5, <2>6, Zenon DEF RowAt
<1> QED BY <1>6, <1>7

\* One more at the end, as a function.
LEMMA AppendIs ==
  ASSUME NEW S, NEW q \in Seq(S), NEW r \in S
  PROVE  Append(q, r) = [i \in 1..(Len(q) + 1) |-> IF i = Len(q) + 1 THEN r ELSE q[i]]
<1> DEFINE a == Append(q, r)
<1>1. /\ a \in Seq(S) /\ Len(a) = Len(q) + 1
      /\ \A i \in 1..Len(q) : a[i] = q[i]
      /\ a[Len(q) + 1] = r
  BY AppendProperties
<1> HIDE DEF a
<1>2. a = [i \in 1..(Len(q) + 1) |-> a[i]]
  BY <1>1
<1>3. \A i \in 1..(Len(q) + 1) : a[i] = IF i = Len(q) + 1 THEN r ELSE q[i]
  BY <1>1
<1>4. a = [i \in 1..(Len(q) + 1) |-> IF i = Len(q) + 1 THEN r ELSE q[i]]
  BY <1>2, <1>3
<1> QED BY <1>4 DEF a

\* The rows kept before and after one is logged.
LEMMA LoggedByAge ==
  ASSUME Types, Types', NEW r \in Row, log_row(r)
  PROVE  kept' = IF have < Ring THEN Append(kept, r) ELSE Append(Tail(kept), r)
<1> DEFINE old == Ago
           new == Ago'
           f == kept'
           g == have'
<1>1. Ring \in Nat \ {0} /\ have \in 0..Ring /\ r \in Held /\ have \in Nat
  BY Sizes DEF Types, Held
<1>2. g = IF have < Ring THEN have + 1 ELSE have
  BY DEF log_row
<1>3. kept \in Seq(Held) /\ Len(kept) = have /\ \A i \in 1..have : kept[i] = old[have - i + 1]
  <2>1. kept = [i \in 1..have |-> Ago[have - i + 1]]
    BY KeptIs
  <2> QED BY <2>1, KeptType
<1>4. f \in Seq(Held) /\ Len(f) = g /\ \A i \in 1..g : f[i] = new[g - i + 1]
  <2>1. (kept = [i \in 1..have |-> Ago[have - i + 1]])'
    BY KeptIs, PTL
  <2>2. (kept \in Seq(Held) /\ Len(kept) = have)'
    BY KeptLen, PTL
  <2>3. f \in Seq(Held') /\ Len(f) = g
    BY <2>2
  <2> QED BY <2>1, <2>3 DEF Held
<1>5. new[1] = r /\ \A d \in 2..Ring : new[d] = old[d - 1]
  <2>1. RowAt(1)' = r /\ \A d \in 2..Ring : RowAt(d)' = RowAt(d - 1)
    BY RowsMoveBack
  <2>2. \A d \in 1..Ring : new[d] = RowAt(d)'
    BY DEF Ago
  <2>3. \A d \in 2..Ring : d - 1 \in 1..Ring
    BY <1>1
  <2>4. \A e \in 1..Ring : old[e] = RowAt(e)
    BY DEF Ago
  <2> QED BY <1>1, <2>1, <2>2, <2>3, <2>4
<1> HIDE DEF old, new, f, g
<1>6. f = [i \in 1..g |-> f[i]]
  BY <1>4
<1>7. ASSUME NEW i \in 1..g, i # g PROVE new[g - i + 1] = old[g - i]
  <2> PICK d \in 2..Ring : d = g - i + 1 /\ d - 1 = g - i
    BY <1>1, <1>2, <1>7
  <2> QED BY <1>5
<1>8. ASSUME NEW q \in Seq(Held), Len(q) = g - 1, \A i \in 1..(g - 1) : q[i] = old[g - i], g \in Nat \ {0}
      PROVE  f = Append(q, r)
  <2>1. Append(q, r) = [i \in 1..g |-> IF i = g THEN r ELSE q[i]]
    <3>1. Len(q) + 1 = g
      BY <1>8
    <3>2. Append(q, r) = [i \in 1..(Len(q) + 1) |-> IF i = Len(q) + 1 THEN r ELSE q[i]]
      BY <1>1, AppendIs
    <3> QED BY <3>1, <3>2
  <2>2. ASSUME NEW i \in 1..g PROVE f[i] = IF i = g THEN r ELSE q[i]
    <3>1. CASE i = g
      <4>1. g - i + 1 = 1
        BY <1>8, <3>1
      <4> QED BY <1>4, <1>5, <3>1, <4>1
    <3>2. CASE i # g
      <4>1. i \in 1..(g - 1)
        BY <1>8, <3>2
      <4> QED BY <1>4, <1>7, <1>8, <3>2, <4>1
    <3> QED BY <3>1, <3>2
  <2> QED BY <1>6, <2>1, <2>2
<1>9. CASE have < Ring
  <2>1. g = have + 1 /\ g \in Nat \ {0} /\ Len(kept) = g - 1
    BY <1>1, <1>2, <1>3, <1>9
  <2>2. \A i \in 1..(g - 1) : kept[i] = old[g - i]
    <3>1. \A i \in 1..(g - 1) : i \in 1..have /\ have - i + 1 = g - i
      BY <1>1, <2>1
    <3> QED BY <1>3, <3>1
  <2>3. f = Append(kept, r)
    BY <1>3, <1>8, <2>1, <2>2
  <2> QED BY <1>9, <2>3 DEF f
<1>10. CASE have = Ring
  <2>1. g = have /\ g \in Nat \ {0} /\ kept # <<>>
    BY <1>1, <1>2, <1>3, <1>10
  <2>2. /\ Tail(kept) \in Seq(Held) /\ Len(Tail(kept)) = g - 1
        /\ \A i \in 1..(g - 1) : Tail(kept)[i] = kept[i + 1]
    BY <1>3, <2>1, HeadTailProperties
  <2>3. \A i \in 1..(g - 1) : Tail(kept)[i] = old[g - i]
    <3>1. \A i \in 1..(g - 1) : i + 1 \in 1..have /\ have - (i + 1) + 1 = g - i
      BY <1>1, <2>1
    <3>2. \A i \in 1..(g - 1) : kept[i + 1] = old[g - i]
      BY <1>3, <3>1
    <3> QED BY <2>2, <3>2
  <2>4. f = Append(Tail(kept), r)
    BY <1>8, <2>1, <2>2, <2>3
  <2> QED BY <1>1, <1>10, <2>4 DEF f
<1> QED BY <1>1, <1>9, <1>10

\* log_row keeps the tenants' slots, and adds its row to those kept.
LEMMA LogRowStep ==
  ASSUME IInv, NEW r \in Row, log_row(r)
  PROVE  IInv' /\ Abs!Add(r)
<1> USE DEF IInv
<1>1. Ring \in Nat \ {0} /\ CountMod \in Nat \ {0} /\ total \in Nat /\ have \in 0..Ring
  BY Sizes DEF Types
<1>2. /\ mem' = [mem EXCEPT ![slot(total)] = r] /\ have' = IF have < Ring THEN have + 1 ELSE have
      /\ UNCHANGED <<page, typing, list>>
  BY DEF log_row
<1>3. slot(total) \in RingAt
  BY <1>1, Slots
<1>4. /\ mem' \in [Address -> Held]
      /\ \A a \in RingAt : mem'[a] = IF a = slot(total) THEN r ELSE mem[a]
      /\ \A a \in HistAt \cup IgnoreAt : mem'[a] = mem[a]
  BY <1>2, <1>3, Tenants DEF Types, Held
<1>5. total' \in 0..(CountMod - 1)
  <2>1. total' = In(total + 1, CountMod)
    BY Zenon DEF log_row, In
  <2>2. total + 1 \in Nat
    BY <1>1
  <2> QED BY <1>1, <2>1, <2>2, InOf
<1>6. have' \in 0..Ring
  BY <1>1, <1>2
<1>7. UNCHANGED <<hist_count, hist_at, input, sent>>
  BY <1>2 DEF typing
<1>8. Types'
  <2>1. \A a \in RingAt : mem'[a] \in Row \cup {Noise}
    BY <1>4 DEF Types
  <2>2. \A a \in HistAt : mem'[a] \in Line \cup {Noise}
    BY <1>4 DEF Types
  <2>3. \A a \in IgnoreAt : mem'[a] \in Nick \cup {None}
    BY <1>4 DEF Types
  <2> QED BY <1>4, <1>5, <1>6, <1>7, <2>1, <2>2, <2>3, Zenon DEF Types
<1>9. History'
  BY <1>4, <1>7, SameLines DEF History
<1>10. Silence'
  BY <1>2, <1>4, SamePeople
<1>11. kept' = Abs!Logged(kept, r)
  <2>1. kept' = IF have < Ring THEN Append(kept, r) ELSE Append(Tail(kept), r)
    BY <1>8, LoggedByAge
  <2>2. Len(kept) = have
    BY KeptType
  <2>3. Abs!Logged(kept, r) = IF Len(kept) < Ring THEN Append(kept, r) ELSE Append(Tail(kept), r)
    BY DEF Abs!Logged
  <2> QED BY <2>1, <2>2, <2>3
<1> QED BY <1>2, <1>8, <1>9, <1>10, <1>11 DEF Abs!Add

\* log_clear, and the two that use it.
LEMMA ClearedIsClear ==
  ASSUME Types', Cleared, UNCHANGED page
  PROVE  Abs!Clear
<1>1. (kept = [i \in 1..have |-> Ago[have - i + 1]])'
  BY KeptIs, PTL
<1>2. have' = 0
  BY DEF Cleared
<1>3. kept' = <<>>
  BY <1>1, <1>2
<1> QED BY <1>3 DEF Abs!Clear

\* The empty log.
LEMMA LogClearStep ==
  ASSUME IInv, log_clear
  PROVE  IInv' /\ Abs!Clear
<1>1. total' = 0 /\ have' = 0 /\ UNCHANGED <<mem, page, hist_count, hist_at, input, sent, told, cut>>
  BY DEF log_clear, Cleared, typing, list
<1>2. Types'
  BY <1>1, Sizes DEF IInv, Types
<1>3. History'
  BY <1>1, SameLines DEF IInv, History
<1>4. Silence'
  BY <1>1, SamePeople DEF IInv, list
<1> QED BY <1>1, <1>2, <1>3, <1>4, ClearedIsClear DEF IInv, log_clear

\* A page drawn is the rows asked for, blank past the newest.
LEMMA LogDrawStep ==
  ASSUME IInv, NEW top \in 0..Ring, NEW n \in 1..Rows, log_draw(top, n)
  PROVE  IInv' /\ Abs!Draw(top, n)
<1>1. UNCHANGED <<mem, total, have, hist_count, hist_at, input, sent, told, cut>>
  BY DEF log_draw, typing, list
<1>2. Types'
  BY <1>1 DEF IInv, Types
<1>3. History'
  BY <1>1, SameLines DEF IInv, History
<1>4. Silence'
  BY <1>1, SamePeople DEF IInv, list
<1>5. kept' = kept
  BY <1>1, <1>2, SameRows DEF IInv
<1>6. page' = Abs!Page(kept, top, n)
  <2>1. /\ Ring \in Nat \ {0} /\ Rows \in 1..Ring /\ CountMod \in Nat \ {0} /\ CountMod >= 2 * Ring
        /\ have \in 0..Ring
    BY Sizes DEF IInv, Types
  <2>2. ASSUME NEW p \in 1..n
        PROVE  (IF (top + p - 1) % CountMod < have
                  THEN mem[slot((FirstDrawn(top) + p - 1) % CountMod)] ELSE Blank) =
               (IF top + p <= Len(kept) THEN kept[top + p] ELSE Blank)
    <3>1. p \in 1..Ring /\ top + p - 1 \in 0..(2 * CountMod - 1) /\ top + p - 1 < CountMod
      BY <2>1
    <3>2. (top + p - 1) % CountMod = top + p - 1
      <4>1. In(top + p - 1, CountMod) = top + p - 1
        BY <2>1, <3>1, InOnce
      <4> QED BY <4>1, Zenon DEF In
    <3>3. Len(kept) = have
      BY KeptType DEF IInv
    <3>4. CASE top + p <= have
      <4>1. mem[slot((FirstDrawn(top) + p - 1) % CountMod)] = RowAt(have - (top + p) + 1)
        BY <3>1, <3>4, KeptAt DEF IInv
      <4>2. top + p \in 1..have
        BY <2>1, <3>1, <3>4
      <4>3. kept[top + p] = RowAt(have - (top + p) + 1)
        BY <4>2, KeptAt DEF IInv
      <4>4. top + p - 1 < have
        BY <2>1, <3>1, <3>4
      <4>5. (top + p - 1) % CountMod < have /\ top + p <= Len(kept)
        BY <3>2, <3>3, <3>4, <4>4, Zenon
      <4> QED BY <4>1, <4>3, <4>5, Zenon
    <3>5. CASE ~(top + p <= have)
      <4>1. ~(top + p - 1 < have)
        BY <2>1, <3>1, <3>5
      <4>2. ~((top + p - 1) % CountMod < have) /\ ~(top + p <= Len(kept))
        BY <3>2, <3>3, <3>5, <4>1, Zenon
      <4> QED BY <4>2, Zenon
    <3> QED BY <3>4, <3>5
  <2>3. page' = [p \in 1..n |->
                   IF (top + p - 1) % CountMod < have
                     THEN mem[slot((FirstDrawn(top) + p - 1) % CountMod)] ELSE Blank]
    BY Zenon DEF log_draw
  <2>4. Abs!Page(kept, top, n) = [p \in 1..n |-> IF top + p <= Len(kept) THEN kept[top + p] ELSE Blank]
    BY DEF Abs!Page
  <2> QED BY <2>2, <2>3, <2>4, Zenon
<1> QED BY <1>2, <1>3, <1>4, <1>5, <1>6 DEF IInv, Abs!Draw

-----------------------------------------------------------------------------
(* The lines sent *)

\* What is recalled k lines back is the k-th newest line sent.
LEMMA RecallIsSent ==
  ASSUME IInv, NEW k \in 1..Len(sent)
  PROVE  mem[hist_slot((HistMod + hist_count - k) % HistMod)] = sent[k] /\ sent[k] \in Line
<1>1. LineAt(k) = sent[k] /\ sent[k] \in Line
  BY DEF IInv, History
<1>2. LineAt(k) = mem[hist_slot((HistMod + hist_count - k) % HistMod)]
  BY Zenon DEF LineAt, Before, In
<1> QED BY <1>1, <1>2

\* The cursor keys recall lines sent, and write nothing.
LEMMA RecallStep ==
  ASSUME IInv, Up \/ Down
  PROVE  /\ IInv' /\ UNCHANGED <<kept, page>>
         /\ hist_at' > 0 => hist_at' <= Len(sent) /\ input' = sent[hist_at']
<1>1. /\ hist_at \in Nat /\ Len(sent) \in 0..HIST_MAX /\ Recallable \in Nat
      /\ Recallable <= Len(sent) /\ hist_at <= Len(sent) /\ HIST_MAX \in Nat
  <2>1. hist_at \in 0..HIST_MAX /\ hist_count \in 0..(HistMod - 1) /\ HIST_MAX \in Nat /\ HistMod \in Nat
    BY Sizes DEF IInv, Types
  <2>2. Recallable \in Nat
    BY <2>1 DEF Recallable
  <2>3. sent \in Seq(Line) /\ Len(sent) <= HIST_MAX /\ Recallable <= Len(sent) /\ hist_at <= Len(sent)
    BY DEF IInv, History
  <2>4. Len(sent) \in 0..HIST_MAX
    <3>1. Len(sent) \in Nat
      BY <2>3
    <3> QED BY <2>1, <2>3, <3>1
  <2> QED BY <2>1, <2>2, <2>3, <2>4
<1> PICK b \in 0..Len(sent) : hist_recall(b)
  <2>1. CASE Up
    <3>1. hist_at + 1 \in 0..Len(sent)
      BY <1>1, <2>1 DEF Up
    <3> QED BY <2>1, <3>1 DEF Up
  <2>2. CASE Down
    <3>1. hist_at - 1 \in 0..Len(sent)
      BY <1>1, <2>2 DEF Down
    <3> QED BY <2>2, <3>1 DEF Down
  <2> QED BY <2>1, <2>2
<1>2. hist_at' = b /\ UNCHANGED <<mem, rows, hist_count, sent, list>>
  BY DEF hist_recall
<1>4. b > 0 => input' = sent[b] /\ sent[b] \in Line
  <2> SUFFICES ASSUME b > 0 PROVE input' = sent[b] /\ sent[b] \in Line
    OBVIOUS
  <2>1. b \in 1..Len(sent) /\ b # 0
    BY <1>1
  <2>2. input' = mem[hist_slot((HistMod + hist_count - b) % HistMod)]
    BY <2>1, Zenon DEF hist_recall
  <2> QED BY <2>1, <2>2, RecallIsSent
<1>5. input' \in Line \cup {None}
  <2>1. CASE b = 0
    BY <2>1 DEF hist_recall
  <2>2. CASE b # 0
    BY <1>4, <2>2
  <2> QED BY <2>1, <2>2
<1>6. UNCHANGED <<total, have, page>>
  BY <1>2 DEF rows
<1>7. Types'
  BY <1>1, <1>2, <1>5, <1>6 DEF IInv, Types
<1>8. History'
  BY <1>2, SameLines DEF IInv
<1>9. Silence'
  BY <1>2, SamePeople DEF IInv
<1>10. kept' = kept
  BY <1>2, <1>6, <1>7, SameRows DEF IInv
<1> QED BY <1>2, <1>4, <1>6, <1>7, <1>8, <1>9, <1>10 DEF IInv

\* What is typed is only typed.
LEMMA TypeStep ==
  ASSUME IInv, NEW l \in Line, Type(l)
  PROVE  IInv' /\ UNCHANGED <<kept, page>>
<1>1. /\ input' = l /\ UNCHANGED <<mem, hist_count, hist_at, sent, told, cut>>
      /\ UNCHANGED <<total, have, page>>
  BY DEF Type, rows, list
<1>2. Types'
  BY <1>1 DEF IInv, Types
<1>3. History'
  BY <1>1, SameLines DEF IInv, History
<1>4. Silence'
  BY <1>1, SamePeople DEF IInv, list
<1>5. kept' = kept
  BY <1>1, <1>2, SameRows DEF IInv
<1> QED BY <1>1, <1>2, <1>3, <1>4, <1>5 DEF IInv

\* The next session has no lines to recall.
LEMMA SessionStep ==
  ASSUME IInv, session
  PROVE  IInv' /\ Abs!Clear
<1>1. /\ hist_count' = 0 /\ hist_at' = 0 /\ input' = None /\ sent' = <<>> /\ Cleared
      /\ UNCHANGED <<mem, page, told, cut>>
  BY DEF session, list
<1>2. Types'
  BY <1>1, Sizes DEF IInv, Types, Cleared
<1>3. History'
  <2>1. Recallable' = 0
    BY <1>1, Sizes DEF Recallable
  <2> QED BY <1>1, <2>1, Sizes DEF History
<1>4. Silence'
  BY <1>1, SamePeople DEF IInv, list
<1> QED BY <1>1, <1>2, <1>3, <1>4, ClearedIsClear DEF IInv

\* The lines kept of those sent, and how many they are.
LEMMA NewestIs ==
  ASSUME NEW s \in Seq(Line), Len(s) <= HIST_MAX, NEW l \in Line
  PROVE  LET t == Newest(<<l>> \o s)
         IN  /\ t \in Seq(Line) /\ Len(t) = IF Len(s) < HIST_MAX THEN Len(s) + 1 ELSE HIST_MAX
             /\ t[1] = l /\ \A k \in 2..Len(t) : t[k] = s[k - 1]
<1> DEFINE c == <<l>> \o s
<1>1. HIST_MAX \in Nat \ {0} /\ Len(s) \in Nat
  BY Sizes
<1>2. <<l>> \in Seq(Line) /\ Len(<<l>>) = 1 /\ <<l>>[1] = l
  OBVIOUS
<1>3. /\ c \in Seq(Line) /\ Len(c) = Len(s) + 1
      /\ c[1] = l /\ \A k \in 2..(Len(s) + 1) : c[k] = s[k - 1]
  <2> DEFINE h == <<l>>
  <2> HIDE DEF h
  <2>1. h \in Seq(Line) /\ Len(h) = 1 /\ h[1] = l
    BY <1>2 DEF h
  <2>2. h \o s \in Seq(Line) /\ Len(h \o s) = Len(h) + Len(s)
    BY <2>1, ConcatProperties
  <2>3. \A i \in 1..(Len(h) + Len(s)) : (h \o s)[i] = IF i <= Len(h) THEN h[i] ELSE s[i - Len(h)]
    BY <2>1, ConcatProperties
  <2> QED BY <1>1, <2>1, <2>2, <2>3 DEF h
<1> HIDE DEF c
<1>4. CASE Len(s) < HIST_MAX
  <2>1. Newest(c) = c
    BY <1>1, <1>3, <1>4 DEF Newest
  <2> QED BY <1>1, <1>3, <1>4, <2>1 DEF c
<1>5. CASE Len(s) = HIST_MAX
  <2>1. Newest(c) = SubSeq(c, 1, HIST_MAX)
    BY <1>1, <1>3, <1>5 DEF Newest
  <2>2. /\ SubSeq(c, 1, HIST_MAX) \in Seq(Line) /\ Len(SubSeq(c, 1, HIST_MAX)) = HIST_MAX
        /\ \A i \in 1..HIST_MAX : SubSeq(c, 1, HIST_MAX)[i] = c[i]
    BY <1>1, <1>3, <1>5
  <2> QED BY <1>1, <1>3, <1>5, <2>1, <2>2 DEF c
<1> QED BY <1>1, <1>4, <1>5

\* What RETURN writes: the line in its slot, and what it says in the entries.
LEMMA ReturnWrites ==
  ASSUME Types, NEW entered, DOMAIN entered \subseteq IgnoreAt, Return(entered)
  PROVE  /\ input \in Line
         /\ \A a \in RingAt : mem'[a] = mem[a]
         /\ \A a \in HistAt : mem'[a] = IF a = hist_slot(hist_count) THEN input ELSE mem[a]
         /\ \A a \in IgnoreAt : mem'[a] = IF a \in DOMAIN entered THEN entered[a] ELSE mem[a]
<1>1. hist_slot(hist_count) \in HistAt
  BY Sizes, Slots DEF Types
<1>2. mem' = [a \in Address |-> IF a \in DOMAIN entered THEN entered[a]
                               ELSE IF a = hist_slot(hist_count) THEN input ELSE mem[a]]
  BY DEF Return
<1>3. input \in Line
  BY DEF Types, Return
<1> QED BY <1>1, <1>2, <1>3, Tenants

\* A line kept is one line ago, and the others one line further.
LEMMA LinesMoveBack ==
  ASSUME Types, NEW entered, DOMAIN entered \subseteq IgnoreAt, Return(entered)
  PROVE  /\ hist_count' \in 0..(HistMod - 1)
         /\ LineAt(1)' = input
         /\ \A k \in 2..HIST_MAX : LineAt(k)' = LineAt(k - 1)
<1>1. HistMod \in Nat /\ HistMod > 1 /\ HistMod > HIST_MAX /\ HIST_MAX \in Nat \ {0}
  BY Sizes
<1>2. hist_count \in 0..(HistMod - 1) /\ hist_count \in Nat
  BY <1>1 DEF Types
<1>3. hist_slot(hist_count) \in HistAt /\ hist_slot(hist_count) = HIST_BASE + In(hist_count, HIST_MAX)
  BY <1>2, Slots
<1>4. hist_count' = In(hist_count + 1, HistMod)
  BY Zenon DEF Return, In
<1>5. \A a \in HistAt : mem'[a] = IF a = hist_slot(hist_count) THEN input ELSE mem[a]
  BY ReturnWrites
<1>6. hist_count' \in 0..(HistMod - 1) /\ Before(HistMod, hist_count', 1) = hist_count
  <2>1. 0 \in 0..(HistMod - 1)
    BY <1>1
  <2> QED BY <1>1, <1>2, <1>4, <2>1, CountedOn
<1>7. LineAt(1)' = input
  <2>1. LineAt(1)' = mem'[hist_slot(Before(HistMod, hist_count', 1))]
    BY Zenon DEF LineAt, hist_slot, Before, In, HIST_BASE
  <2> QED BY <1>3, <1>5, <1>6, <2>1
<1>8. ASSUME NEW k \in 2..HIST_MAX PROVE LineAt(k)' = LineAt(k - 1)
  <2>1. k - 1 \in 1..(HIST_MAX - 1) /\ k - 1 \in 0..HIST_MAX /\ k - 1 \in 0..(HistMod - 1) /\ k = (k - 1) + 1
    BY <1>1
  <2>2. Before(HistMod, hist_count', k) = Before(HistMod, hist_count, k - 1)
    <3> PICK e \in 0..(HistMod - 1) : e = k - 1 /\ k = e + 1
      BY <2>1
    <3>1. Before(HistMod, hist_count', e + 1) = Before(HistMod, hist_count, e)
      BY <1>1, <1>2, <1>4, CountedOn
    <3> QED BY <3>1
  <2> DEFINE b == Before(HistMod, hist_count, k - 1)
  <2>3. b \in Nat /\ hist_slot(b) = HIST_BASE + In(b, HIST_MAX) /\ hist_slot(b) \in HistAt
    <3>1. b \in Nat /\ hist_slot(b) \in HistAt
      BY <2>1, LineSlot
    <3> HIDE DEF b
    <3> QED BY <3>1, Slots
  <2>4. In(b, HIST_MAX) # In(hist_count, HIST_MAX)
    BY <1>1, <1>2, <2>1, Sizes, SlotApart
  <2>5. mem'[hist_slot(b)] = mem[hist_slot(b)]
    <3> HIDE DEF b
    <3>1. In(b, HIST_MAX) \in 0..(HIST_MAX - 1)
      BY <1>1, <2>3, InOf
    <3>2. In(hist_count, HIST_MAX) \in 0..(HIST_MAX - 1)
      BY <1>1, <1>2, InOf
    <3>3. \A x, y \in 0..(HIST_MAX - 1) : x # y => HIST_BASE + x # HIST_BASE + y
      BY Sizes DEF HIST_BASE
    <3>4. hist_slot(b) # hist_slot(hist_count)
      BY <1>3, <2>3, <2>4, <3>1, <3>2, <3>3, Zenon
    <3> QED BY <1>5, <2>3, <3>4
  <2>6. LineAt(k)' = mem'[hist_slot(Before(HistMod, hist_count', k))]
    BY Zenon DEF LineAt, hist_slot, Before, In, HIST_BASE
  <2> QED BY <2>2, <2>5, <2>6, Zenon DEF LineAt
<1> QED BY <1>6, <1>7, <1>8

\* RETURN keeps the history of lines, the scrollback and the slots, whatever
\* of the ignore list the line writes.
LEMMA ReturnStep ==
  ASSUME IInv, NEW entered, DOMAIN entered \subseteq IgnoreAt,
         \A a \in DOMAIN entered : entered[a] \in Nick \cup {None}, Return(entered)
  PROVE  Types' /\ History' /\ UNCHANGED <<kept, page>> /\ hist_at' = 0
<1>1. /\ input \in Line
      /\ \A a \in RingAt : mem'[a] = mem[a]
      /\ \A a \in HistAt : mem'[a] = IF a = hist_slot(hist_count) THEN input ELSE mem[a]
      /\ \A a \in IgnoreAt : mem'[a] = IF a \in DOMAIN entered THEN entered[a] ELSE mem[a]
  BY ReturnWrites DEF IInv
<1>2. /\ hist_count' \in 0..(HistMod - 1)
      /\ LineAt(1)' = input
      /\ \A k \in 2..HIST_MAX : LineAt(k)' = LineAt(k - 1)
  BY LinesMoveBack DEF IInv
<1>3. UNCHANGED <<total, have, page>> /\ hist_at' = 0 /\ input' = None
  BY DEF Return, rows
<1>4. Types'
  <2>1. \A a \in RingAt : mem'[a] \in Row \cup {Noise}
    BY <1>1 DEF IInv, Types
  <2>2. \A a \in HistAt : mem'[a] \in Line \cup {Noise}
    BY <1>1 DEF IInv, Types
  <2>3. \A a \in IgnoreAt : mem'[a] \in Nick \cup {None}
    BY <1>1 DEF IInv, Types
  <2>4. mem' \in [Address -> Held]
    <3>1. mem' = [a \in Address |-> mem'[a]]
      BY DEF Return
    <3>2. \A a \in Address : mem'[a] \in Held
      BY <2>1, <2>2, <2>3, Tenants DEF Held
    <3> QED BY <3>1, <3>2
  <2>5. total \in 0..(CountMod - 1) /\ have \in 0..Ring /\ 0 \in 0..HIST_MAX
    BY Sizes DEF IInv, Types
  <2> QED BY <1>2, <1>3, <2>1, <2>2, <2>3, <2>4, <2>5 DEF Types
<1>5. kept' = kept
  BY <1>1, <1>3, <1>4, SameRows DEF IInv
<1>6. /\ HIST_MAX \in Nat \ {0} /\ HistMod \in Nat /\ HistMod > HIST_MAX
      /\ hist_count \in 0..(HistMod - 1) /\ Len(sent) \in Nat /\ Len(sent) <= HIST_MAX
      /\ Recallable <= Len(sent) /\ sent \in Seq(Line)
  BY Sizes DEF IInv, Types, History
<1>7. /\ sent' \in Seq(Line) /\ Len(sent') = IF Len(sent) < HIST_MAX THEN Len(sent) + 1 ELSE HIST_MAX
      /\ sent'[1] = input /\ \A k \in 2..Len(sent') : sent'[k] = sent[k - 1]
  <2>1. sent' = Newest(<<input>> \o sent)
    BY DEF Return
  <2>2. sent \in Seq(Line) /\ Len(sent) <= HIST_MAX /\ input \in Line
    BY <1>1, <1>6
  <2>3. LET v == Newest(<<input>> \o sent)
        IN  /\ v \in Seq(Line) /\ Len(v) = IF Len(sent) < HIST_MAX THEN Len(sent) + 1 ELSE HIST_MAX
            /\ v[1] = input /\ \A k \in 2..Len(v) : v[k] = sent[k - 1]
    BY <2>2, NewestIs, Zenon
  <2> QED BY <2>1, <2>3, Zenon
<1>8. Recallable' <= Len(sent')
  <2>1. hist_count' = In(hist_count + 1, HistMod)
    BY Zenon DEF Return, In
  <2>2. hist_count' = IF hist_count + 1 < HistMod THEN hist_count + 1 ELSE 0
    <3> PICK a \in 0..(2 * HistMod - 1) : a = hist_count + 1
      BY <1>6
    <3>1. HistMod \in Nat \ {0}
      BY <1>6
    <3>2. In(a, HistMod) = IF a < HistMod THEN a ELSE a - HistMod
      BY <3>1, InOnce
    <3> QED BY <1>6, <2>1, <3>2
  <2>3. Recallable' = IF hist_count' < HIST_MAX THEN hist_count' ELSE HIST_MAX
    BY DEF Recallable
  <2> QED BY <1>6, <1>7, <2>2, <2>3 DEF Recallable
<1>9. \A k \in 1..Len(sent') : LineAt(k)' = sent'[k]
  <2> SUFFICES ASSUME NEW k \in 1..Len(sent') PROVE LineAt(k)' = sent'[k]
    OBVIOUS
  <2>1. CASE k = 1
    BY <1>2, <1>7, <2>1
  <2>2. CASE k # 1
    <3>1. k \in 2..HIST_MAX /\ k \in 2..Len(sent') /\ k - 1 \in 1..Len(sent)
      BY <1>6, <1>7, <2>2
    <3>2. LineAt(k)' = LineAt(k - 1)
      BY <1>2, <3>1
    <3>3. LineAt(k - 1) = sent[k - 1]
      BY <3>1 DEF IInv, History
    <3> QED BY <1>7, <3>1, <3>2, <3>3
  <2> QED BY <2>1, <2>2
<1>10. History'
  BY <1>3, <1>6, <1>7, <1>8, <1>9 DEF History
<1> QED BY <1>3, <1>4, <1>5, <1>10

-----------------------------------------------------------------------------
(* The ignore list *)

\* There is a lowest of any entries.
LEMMA LowestIs ==
  ASSUME NEW S \in SUBSET Entries, S # {}
  PROVE  Lowest(S) \in S
<1>1. S \subseteq Nat
  BY DEF Entries
<1>2. PICK i \in S : \A j \in S : ~(<<j, i>> \in OpToRel(<, Nat))
  BY <1>1, NatLessThanWellFounded, WFMin
<1>3. \A j \in S : ~(j < i)
  BY <1>1, <1>2 DEF OpToRel
<1>4. \A j \in S : i <= j
  BY <1>1, <1>3
<1> QED BY <1>4 DEF Lowest

\* RETURN on a line that touches no entry.
LEMMA EntriesKept ==
  ASSUME Types, Return(<<>>)
  PROVE  \A a \in IgnoreAt : mem'[a] = mem[a]
<1>1. DOMAIN <<>> = {}
  OBVIOUS
<1>2. DOMAIN <<>> \subseteq IgnoreAt
  BY <1>1
<1>3. \A a \in IgnoreAt : mem'[a] = IF a \in DOMAIN <<>> THEN <<>>[a] ELSE mem[a]
  BY <1>2, ReturnWrites
<1> QED BY <1>1, <1>3

\* RETURN on a line that sets one: it is the lowest, and the only one.
LEMMA EntryWritten ==
  ASSUME Types, NEW S \in SUBSET Entries, S # {}, NEW x, Return(Entered(S, x))
  PROVE  /\ DOMAIN Entered(S, x) \subseteq IgnoreAt
         /\ \A a \in DOMAIN Entered(S, x) : Entered(S, x)[a] = x
         /\ \A i \in Entries : entry(i)' = IF i = Lowest(S) THEN x ELSE entry(i)
<1> DEFINE m == Lowest(S)
           at == IGNORE_BASE + m - 1
           e == Entered(S, x)
<1>1. m \in S /\ m \in Entries
  BY LowestIs
<1> HIDE DEF m
<1>2. e = [a \in {at} |-> x]
  BY DEF Entered, m
<1>3. at \in IgnoreAt
  BY <1>1, Tenants
<1> HIDE DEF e, at
<1>4. DOMAIN e = {at} /\ DOMAIN e \subseteq IgnoreAt /\ e[at] = x
  BY <1>2, <1>3
<1>5. \A a \in IgnoreAt : mem'[a] = IF a = at THEN x ELSE mem[a]
  <2>1. \A a \in IgnoreAt : mem'[a] = IF a \in DOMAIN e THEN e[a] ELSE mem[a]
    BY <1>4, ReturnWrites DEF e
  <2> QED BY <1>4, <2>1
<1>6. ASSUME NEW i \in Entries PROVE entry(i)' = IF i = m THEN x ELSE entry(i)
  <2>1. IGNORE_BASE + i - 1 \in IgnoreAt
    BY Tenants
  <2>2. IGNORE_BASE + i - 1 = at <=> i = m
    BY <1>1, Sizes DEF at, IGNORE_BASE, HIST_BASE, Entries
  <2>3. entry(i)' = mem'[IGNORE_BASE + i - 1] /\ entry(i) = mem[IGNORE_BASE + i - 1]
    BY DEF entry, IGNORE_BASE, HIST_BASE
  <2> QED BY <1>5, <2>1, <2>2, <2>3
<1> QED BY <1>4, <1>6 DEF e, m

\* The names, as a fact of their own.
LEMMA Names ==
  /\ folded \in [Nick -> Nick] /\ stored \in [Nick -> Nick] /\ None \notin Nick
  /\ \A n \in Nick : stored[stored[n]] = stored[n]
  /\ \A m, n \in Nick : folded[m] = folded[n] => (stored[m] = m <=> stored[n] = n)
<1>1. folded \in [Nick -> Nick] /\ stored \in [Nick -> Nick]
  BY AtticAssumption, Zenon DEF AtticAssumption
<1>2. \A n \in Nick : stored[stored[n]] = stored[n]
  BY AtticAssumption, Zenon DEF AtticAssumption
<1>3. \A m, n \in Nick : folded[m] = folded[n] => (stored[m] = m <=> stored[n] = n)
  BY AtticAssumption, Zenon DEF AtticAssumption
<1>4. {Noise, None} \cap (Row \cup Line \cup Nick \cup {Blank}) = {}
  BY AtticAssumption, Zenon DEF AtticAssumption
<1>5. None \notin Nick
  BY <1>4
<1> QED BY <1>1, <1>2, <1>3, <1>5

\* The entries hold names or nothing.
LEMMA EntryTypes ==
  ASSUME Types
  PROVE  /\ \A i \in Entries : entry(i) \in Nick \cup {None}
         /\ \A i \in InUse : i \in Entries /\ entry(i) \in Nick
<1>1. \A i \in Entries : entry(i) \in Nick \cup {None}
  BY Tenants DEF Types, entry
<1> QED BY <1>1 DEF InUse

\* /ignore n, with room for an n who is not there.
LEMMA IgnoreEnters ==
  ASSUME IInv, NEW n \in Nick, GetsEntry(n), ReturnIgnore(n)
  PROVE  Silence'
<1> DEFINE x == stored[n]
<1>1. Matching(n) = {} /\ FreeEntries # {} /\ FreeEntries \in SUBSET Entries
  BY DEF GetsEntry, FreeEntries
<1>2. Return(Entered(FreeEntries, x))
  BY DEF ReturnIgnore, ignore_add
<1>3. /\ told' = told \cup {folded[n]}
      /\ cut' = IF stored[n] = n THEN cut ELSE cut \cup {folded[x]}
  BY Zenon DEF ReturnIgnore, Told
<1> PICK m \in Entries : m = Lowest(FreeEntries) /\ m \notin InUse
  BY <1>1, LowestIs DEF FreeEntries
<1>4. \A i \in Entries : entry(i)' = IF i = m THEN x ELSE entry(i)
  BY <1>1, <1>2, EntryWritten DEF IInv
<1>5. m \in Entries /\ m \notin InUse
  OBVIOUS
<1>6. x \in Nick /\ stored[x] = x /\ x # None
  BY Names
<1>7. InUse' = InUse \cup {m} /\ entry(m)' = x /\ \A i \in InUse : entry(i)' = entry(i) /\ i # m
  BY <1>4, <1>5, <1>6 DEF InUse
<1>8. \A i \in InUse : i \in Entries /\ entry(i) \in Nick
  BY EntryTypes DEF IInv
<1>9. \A i \in InUse : folded[entry(i)] # folded[n]
  BY <1>1 DEF Matching, same_ci
<1>10. \A who : ignored(who)' <=> ignored(who) \/ folded[x] = folded[who]
  BY <1>7 DEF ignored, same_ci
<1>11. /\ \A who \in Nick : stored[who] = who /\ folded[who] \notin cut => (ignored(who) <=> folded[who] \in told)
       /\ \A i \in InUse : stored[entry(i)] = entry(i)
       /\ \A i, j \in InUse : folded[entry(i)] = folded[entry(j)] /\ folded[entry(i)] \notin cut => i = j
  BY DEF IInv, Silence, IgnoredAreSilent, same_ci
<1> HIDE DEF x
<1>12. IgnoredAreSilent'
  <2> SUFFICES ASSUME NEW who \in Nick, stored[who] = who, folded[who] \notin cut'
               PROVE  ignored(who)' <=> folded[who] \in told'
    BY DEF IgnoredAreSilent
  <2>1. folded[who] \notin cut
    BY <1>3
  <2>2. ignored(who) <=> folded[who] \in told
    BY <1>11, <2>1
  <2>3. CASE stored[n] = n
    BY <1>3, <1>10, <2>2, <2>3 DEF x
  <2>4. CASE stored[n] # n
    <3>1. folded[who] # folded[x]
      BY <1>3, <2>4
    <3>2. folded[who] # folded[n]
      BY <2>4, Names
    <3> QED BY <1>3, <1>10, <2>2, <3>1, <3>2
  <2> QED BY <2>3, <2>4
<1>13. \A i \in InUse' : stored[entry(i)'] = entry(i)'
  BY <1>6, <1>7, <1>11
<1>14. \A i, j \in InUse' : folded[entry(i)'] = folded[entry(j)'] /\ folded[entry(i)'] \notin cut' => i = j
  <2> SUFFICES ASSUME NEW i \in InUse', NEW j \in InUse', folded[entry(i)'] = folded[entry(j)'],
                      folded[entry(i)'] \notin cut', i # j
               PROVE  FALSE
    OBVIOUS
  <2>1. cut \subseteq cut'
    BY <1>3
  <2>2. CASE i # m /\ j # m
    BY <1>7, <1>11, <2>1, <2>2
  <2>3. CASE i = m \/ j = m
    <3>1. folded[entry(i)'] = folded[x] /\ folded[entry(j)'] = folded[x]
      BY <1>7, <2>3
    <3>2. stored[n] = n
      BY <1>3, <3>1
    <3>3. PICK k \in InUse : folded[entry(k)] = folded[x]
      BY <1>7, <3>1
    <3> QED BY <1>9, <3>2, <3>3 DEF x
  <2> QED BY <2>2, <2>3
<1> QED BY <1>12, <1>13, <1>14 DEF Silence, same_ci

\* /ignore -n, of an n who is there.
LEMMA UnignoreEmpties ==
  ASSUME IInv, NEW n \in Nick, Matching(n) # {}, ReturnUnignore(n)
  PROVE  Silence'
<1>1. Matching(n) \in SUBSET Entries
  BY DEF Matching, InUse
<1>2. Return(Entered(Matching(n), None))
  BY DEF ReturnUnignore, ignore_remove
<1>3. told' = told \ {folded[n]} /\ cut' = cut
  BY DEF ReturnUnignore, Untold
<1> PICK m \in Matching(n) : m = Lowest(Matching(n))
  BY <1>1, LowestIs
<1>4. \A i \in Entries : entry(i)' = IF i = m THEN None ELSE entry(i)
  BY <1>1, <1>2, EntryWritten DEF IInv
<1>5. m \in InUse /\ folded[entry(m)] = folded[n]
  BY DEF Matching, same_ci
<1>6. InUse' = InUse \ {m} /\ \A i \in InUse \ {m} : entry(i)' = entry(i)
  BY <1>4, <1>5 DEF InUse
<1>7. /\ \A who \in Nick : stored[who] = who /\ folded[who] \notin cut => (ignored(who) <=> folded[who] \in told)
      /\ \A i \in InUse : stored[entry(i)] = entry(i)
      /\ \A i, j \in InUse : folded[entry(i)] = folded[entry(j)] /\ folded[entry(i)] \notin cut => i = j
  BY DEF IInv, Silence, IgnoredAreSilent, same_ci
<1>8. \A who : ignored(who)' <=> \E i \in InUse \ {m} : folded[entry(i)] = folded[who]
  BY <1>6 DEF ignored, same_ci
<1>9. IgnoredAreSilent'
  <2> SUFFICES ASSUME NEW who \in Nick, stored[who] = who, folded[who] \notin cut'
               PROVE  ignored(who)' <=> folded[who] \in told'
    BY DEF IgnoredAreSilent
  <2>1. ignored(who) <=> folded[who] \in told
    BY <1>3, <1>7
  <2>2. ignored(who) <=> \E i \in InUse : folded[entry(i)] = folded[who]
    BY DEF ignored, same_ci
  <2>3. CASE folded[who] = folded[n]
    <3>1. \A i \in InUse : folded[entry(i)] = folded[who] => i = m
      BY <1>3, <1>5, <1>7, <2>3
    <3> QED BY <1>3, <1>8, <2>3, <3>1
  <2>4. CASE folded[who] # folded[n]
    BY <1>3, <1>5, <1>8, <2>1, <2>2, <2>4
  <2> QED BY <2>3, <2>4
<1>10. \A i \in InUse' : stored[entry(i)'] = entry(i)'
  BY <1>6, <1>7
<1>11. \A i, j \in InUse' : folded[entry(i)'] = folded[entry(j)'] /\ folded[entry(i)'] \notin cut' => i = j
  BY <1>3, <1>6, <1>7
<1> QED BY <1>9, <1>10, <1>11 DEF Silence, same_ci

\* Every line sent, whatever it says.
LEMMA SentStep ==
  ASSUME IInv, ReturnLine \/ \E n \in Nick : ReturnIgnore(n) \/ ReturnUnignore(n)
  PROVE  IInv' /\ UNCHANGED <<kept, page>> /\ hist_at' = 0
<1>1. CASE Return(<<>>) /\ UNCHANGED list
  <2>1. Silence'
    BY <1>1, EntriesKept, SamePeople DEF IInv
  <2>2. DOMAIN <<>> \subseteq IgnoreAt /\ \A a \in DOMAIN <<>> : <<>>[a] \in Nick \cup {None}
    OBVIOUS
  <2>3. Types' /\ History' /\ UNCHANGED <<kept, page>> /\ hist_at' = 0
    BY <1>1, <2>2, ReturnStep
  <2> QED BY <2>1, <2>3 DEF IInv
<1>2. ASSUME NEW n \in Nick, ReturnIgnore(n), GetsEntry(n)
      PROVE  IInv' /\ UNCHANGED <<kept, page>> /\ hist_at' = 0
  <2>1. FreeEntries # {} /\ FreeEntries \in SUBSET Entries
    BY <1>2 DEF GetsEntry, FreeEntries
  <2>2. Return(Entered(FreeEntries, stored[n])) /\ stored[n] \in Nick
    BY <1>2, Names DEF ReturnIgnore, ignore_add
  <2>3. /\ DOMAIN Entered(FreeEntries, stored[n]) \subseteq IgnoreAt
        /\ \A a \in DOMAIN Entered(FreeEntries, stored[n]) : Entered(FreeEntries, stored[n])[a] = stored[n]
    BY <2>1, <2>2, EntryWritten DEF IInv
  <2>4. Types' /\ History' /\ UNCHANGED <<kept, page>> /\ hist_at' = 0
    BY <2>2, <2>3, ReturnStep
  <2> QED BY <1>2, <2>4, IgnoreEnters DEF IInv
<1>3. ASSUME NEW n \in Nick, ReturnUnignore(n), Matching(n) # {}
      PROVE  IInv' /\ UNCHANGED <<kept, page>> /\ hist_at' = 0
  <2>1. Matching(n) \in SUBSET Entries
    BY DEF Matching, InUse
  <2>2. Return(Entered(Matching(n), None))
    BY <1>3 DEF ReturnUnignore, ignore_remove
  <2>3. /\ DOMAIN Entered(Matching(n), None) \subseteq IgnoreAt
        /\ \A a \in DOMAIN Entered(Matching(n), None) : Entered(Matching(n), None)[a] = None
    BY <1>3, <2>1, <2>2, EntryWritten DEF IInv
  <2>4. Types' /\ History' /\ UNCHANGED <<kept, page>> /\ hist_at' = 0
    BY <2>2, <2>3, ReturnStep
  <2> QED BY <1>3, <2>4, UnignoreEmpties DEF IInv
<1>4. ASSUME NEW n \in Nick, ReturnIgnore(n), ~GetsEntry(n)
      PROVE  Return(<<>>) /\ UNCHANGED list
  BY <1>4 DEF ReturnIgnore, ignore_add, Told
<1>5. ASSUME NEW n \in Nick, ReturnUnignore(n), Matching(n) = {}
      PROVE  Return(<<>>) /\ UNCHANGED list
  BY <1>5 DEF ReturnUnignore, ignore_remove, Untold, list
<1> QED BY <1>1, <1>2, <1>3, <1>4, <1>5 DEF ReturnLine

-----------------------------------------------------------------------------
(* The theorems *)

\* At power-on the rows and lines are noise and nobody is ignored.
LEMMA InitInv ==
  ASSUME Init
  PROVE  IInv /\ Abs!Init
<1>1. Types
  <2>1. \A a \in Address : a \in IgnoreAt <=> a >= IGNORE_BASE
    BY Sizes DEF Address, IgnoreAt, IGNORE_BASE, HIST_BASE
  <2>2. mem = [a \in Address |-> IF a \in IgnoreAt THEN None ELSE Noise]
    BY <2>1 DEF Init
  <2>3. mem \in [Address -> Held]
    BY <2>2 DEF Held
  <2>4. /\ \A a \in RingAt : mem[a] = Noise
        /\ \A a \in HistAt : mem[a] = Noise
        /\ \A a \in IgnoreAt : mem[a] = None
    BY <2>2, Tenants
  <2> QED BY <2>3, <2>4, Sizes DEF Init, Types
<1>2. History
  <2>1. Recallable = 0
    BY Sizes DEF Init, Recallable
  <2> QED BY <2>1, Sizes DEF Init, History
<1>3. Silence
  <2>1. \A i \in Entries : entry(i) = None
    <3>1. \A i \in Entries : /\ IGNORE_BASE + i - 1 \in Address
                             /\ IGNORE_BASE + i - 1 >= IGNORE_BASE
      BY Sizes DEF Entries, Address, IGNORE_BASE, HIST_BASE
    <3> QED BY <3>1 DEF Init, entry
  <2>2. InUse = {}
    BY <2>1 DEF InUse
  <2> QED BY <2>2 DEF Init, Silence, IgnoredAreSilent, ignored
<1>4. Abs!Init
  <2>1. kept = [i \in 1..have |-> Ago[have - i + 1]]
    BY <1>1, KeptIs
  <2>2. have = 0 /\ page = <<>>
    BY DEF Init
  <2>3. kept = <<>>
    BY <2>1, <2>2
  <2> QED BY <2>2, <2>3 DEF Abs!Init
<1> QED BY <1>1, <1>2, <1>3, <1>4 DEF IInv

\* What the cursor keys do in a step from a state of IInv.
Recalls == hist_at' # hist_at /\ hist_at' > 0 => hist_at' <= Len(sent) /\ input' = sent[hist_at']

\* Every step keeps the invariant, is a step of the scrollback or none, and
\* recalls what was sent.
LEMMA StepInv ==
  ASSUME IInv, [Next]_vars
  PROVE  /\ IInv'
         /\ [Abs!Next]_Abs!vars
         /\ Recalls
<1> USE DEF Recalls
<1>0. hist_at' = 0 => Recalls
  OBVIOUS
<1>1. ASSUME NEW r \in Row, log_row(r) PROVE IInv' /\ Abs!Next /\ hist_at' = hist_at
  <2>1. hist_at' = hist_at
    BY <1>1 DEF log_row, typing
  <2> QED BY <1>1, <2>1, LogRowStep DEF Abs!Next
<1>2. ASSUME log_clear PROVE IInv' /\ Abs!Next /\ hist_at' = hist_at
  <2>1. hist_at' = hist_at
    BY <1>2 DEF log_clear, typing
  <2> QED BY <1>2, <2>1, LogClearStep DEF Abs!Next
<1>3. ASSUME NEW top \in 0..Ring, NEW n \in 1..Rows, log_draw(top, n)
      PROVE  IInv' /\ Abs!Next /\ hist_at' = hist_at
  <2>1. hist_at' = hist_at
    BY <1>3 DEF log_draw, typing
  <2> QED BY <1>3, <2>1, LogDrawStep DEF Abs!Next
<1>4. ASSUME Up \/ Down PROVE IInv' /\ UNCHANGED Abs!vars /\ Recalls
  BY <1>4, RecallStep DEF Abs!vars
<1>5. ASSUME session PROVE IInv' /\ Abs!Next /\ hist_at' = 0
  <2>1. hist_at' = 0
    BY <1>5 DEF session
  <2> QED BY <1>5, <2>1, SessionStep DEF Abs!Next
<1>6. ASSUME NEW l \in Line, Type(l) PROVE IInv' /\ UNCHANGED Abs!vars /\ hist_at' = hist_at
  <2>1. hist_at' = hist_at
    BY <1>6 DEF Type
  <2> QED BY <1>6, <2>1, TypeStep DEF Abs!vars
<1>7. ASSUME ReturnLine \/ \E n \in Nick : ReturnIgnore(n) \/ ReturnUnignore(n)
      PROVE  IInv' /\ UNCHANGED Abs!vars /\ hist_at' = 0
  BY <1>7, SentStep DEF Abs!vars
<1>8. ASSUME UNCHANGED vars PROVE IInv' /\ UNCHANGED Abs!vars /\ hist_at' = hist_at
  <2>1. /\ UNCHANGED <<mem, total, have, page, hist_count, hist_at, input, sent, told, cut>>
    BY <1>8 DEF vars, rows, typing, list
  <2>2. Types'
    BY <2>1 DEF IInv, Types
  <2>3. History'
    BY <2>1, SameLines DEF IInv, History
  <2>4. Silence'
    BY <2>1, SamePeople DEF IInv, list
  <2>5. kept' = kept
    BY <2>1, <2>2, SameRows DEF IInv
  <2> QED BY <2>1, <2>2, <2>3, <2>4, <2>5 DEF IInv, Abs!vars
<1> QED
  BY <1>0, <1>1, <1>2, <1>3, <1>4, <1>5, <1>6, <1>7, <1>8 DEF Next

\* IInv holds throughout.
THEOREM Invariant == Spec => []IInv
<1>1. Init => IInv
  BY InitInv
<1>2. IInv /\ [Next]_vars => IInv'
  BY StepInv
<1> QED BY <1>1, <1>2, PTL DEF Spec

\* The rows, the lines sent and the ignore list stay in their own slots, and
\* the counts that log.c and hist_add index them by within bounds.
THEOREM SlotsAreKept == Spec => []AtticOK
<1>1. IInv => AtticOK
  <2> SUFFICES ASSUME IInv PROVE AtticOK
    OBVIOUS
  <2>1. \A a \in 0..Ring - 1 : mem[a] \in Row \cup {Noise}
    BY Sizes DEF IInv, Types, RingAt
  <2>2. ASSUME NEW k \in 1..HIST_MAX PROVE mem[hist_slot(k)] \in Line \cup {Noise}
    <3>1. k \in Nat
      BY Sizes
    <3> QED BY <3>1, Slots DEF IInv, Types
  <2>3. \A i \in Entries : entry(i) \in Nick \cup {None}
    BY EntryTypes DEF IInv
  <2> QED BY <2>1, <2>2, <2>3 DEF AtticOK, IInv, Types
<1> QED BY <1>1, Invariant, PTL

\* ignore_add and ignore_remove silence exactly those the user was told, of
\* the people whose names fit an entry and are no longer name's first bytes.
THEOREM IgnoringIsExact == Spec => []IgnoredAreSilent
<1>1. IInv => IgnoredAreSilent
  BY DEF IInv, Silence
<1> QED BY <1>1, Invariant, PTL

\* hist_add and hist_recall offer the k-th newest line sent, k lines back.
THEOREM RecallIsExact == Spec => RecallsTheLines
<1>1. IInv /\ [Next]_vars => Recalls
  BY StepInv
<1>2. Spec => [][Recalls]_vars
  BY <1>1, Invariant, PTL DEF Spec
<1> QED BY <1>2 DEF RecallsTheLines, Recalls

\* The ring of log.c implements the sequence of the newest rows.
THEOREM ScrollbackImplemented == Spec => KeepsTheNewestRows
<1>1. Init => Abs!Init
  BY InitInv
<1>2. IInv /\ [Next]_vars => [Abs!Next]_Abs!vars
  BY StepInv
<1> QED BY <1>1, <1>2, Invariant, PTL DEF Spec, Abs!Spec, KeepsTheNewestRows
=============================================================================

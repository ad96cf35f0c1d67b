----------------------------- MODULE ViewsProofs -----------------------------
(***************************************************************************)
(* Theorems about Views, for every number of views, ring and screen size.  *)
(***************************************************************************)
EXTENDS Views, FiniteSetTheorems, TLAPS

-----------------------------------------------------------------------------
(* The rows on the screen *)

\* A redraw fills the area with rows of the log and blanks.
LEMMA WindowType ==
  ASSUME NEW k \in Seq(Row), NEW b \in Nat
  PROVE  Window(k, b) \in [1..Rows -> Row \cup {Blank}]
<1> DEFINE avail == IF Len(k) > b THEN Len(k) - b ELSE 0
<1>1. avail \in Nat /\ avail <= Len(k) /\ Rows \in Nat
  BY ViewsAssumption
<1>2. ASSUME NEW p \in 1..Rows, avail - Rows + p >= 1
      PROVE  k[avail - Rows + p] \in Row
  <2>1. avail - Rows + p \in 1..Len(k)
    BY <1>1, <1>2
  <2> QED BY <2>1
<1> QED BY <1>1, <1>2 DEF Window

\* Logging a row keeps the scrollback a sequence of at most Ring rows.
LEMMA LoggedType ==
  ASSUME NEW k \in Seq(Row), Len(k) <= Ring, NEW r \in Row
  PROVE  /\ LogOf!Logged(k, r) \in Seq(Row)
         /\ Len(LogOf!Logged(k, r)) <= Ring
         /\ Len(LogOf!Logged(k, r)) > 0
<1>1. Ring \in Nat /\ Ring >= 3
  BY ViewsAssumption
<1>2. CASE Len(k) < Ring
  BY <1>1, <1>2 DEF LogOf!Logged
<1>3. CASE ~(Len(k) < Ring)
  <2>1. k # <<>>
    BY <1>1, <1>3
  <2>2. Tail(k) \in Seq(Row) /\ Len(Tail(k)) = Len(k) - 1
    BY <2>1
  <2> QED BY <1>1, <1>3, <2>2 DEF LogOf!Logged
<1> QED BY <1>2, <1>3

\* Moving the area up and drawing the new row at its foot is a redraw: the step
\* that makes LiveIsRedraw inductive.  It needs a ring no shorter than the
\* screen.
LEMMA LiveRowIsRedraw ==
  ASSUME NEW k \in Seq(Row), Len(k) <= Ring, NEW r \in Row
  PROVE  Scrolled(Window(k, 0), LogOf!Logged(k, r)) = Window(LogOf!Logged(k, r), 0)
<1> DEFINE k2 == LogOf!Logged(k, r)
           L == Len(k)
<1> SUFFICES Scrolled(Window(k, 0), k2) = Window(k2, 0)
  OBVIOUS
<1>1. Ring \in Nat /\ Rows \in Nat /\ Rows >= 3 /\ Rows <= Ring /\ L \in Nat
  BY ViewsAssumption
<1>2. CASE L < Ring
  <2>1. Len(k2) = L + 1 /\ k2[L + 1] = r /\ \A i \in 1..L : k2[i] = k[i]
    BY <1>2 DEF LogOf!Logged
  <2> HIDE DEF k2
  <2>2. ASSUME NEW p \in 1..Rows
        PROVE  Scrolled(Window(k, 0), k2)[p] = Window(k2, 0)[p]
    <3>1. Window(k2, 0)[p] = IF L + 1 - Rows + p >= 1 THEN k2[L + 1 - Rows + p] ELSE Blank
      BY <1>1, <2>1 DEF Window
    <3>2. Scrolled(Window(k, 0), k2)[p] = IF p < Rows THEN Window(k, 0)[p + 1] ELSE r
      BY <2>1 DEF Scrolled
    <3>3. CASE p = Rows
      BY <1>1, <2>1, <3>1, <3>2, <3>3
    <3>4. CASE p < Rows
      <4>1. p + 1 \in 1..Rows
        BY <1>1, <3>4
      <4>2. Window(k, 0)[p + 1] = IF L - Rows + p + 1 >= 1 THEN k[L - Rows + p + 1] ELSE Blank
        BY <1>1, <4>1 DEF Window
      <4>3. L + 1 - Rows + p = L - Rows + p + 1 /\ L - Rows + p + 1 \in Int
            /\ (L - Rows + p + 1 >= 1 => L - Rows + p + 1 \in 1..L)
        BY <1>1, <3>4
      <4> QED BY <2>1, <3>1, <3>2, <3>4, <4>2, <4>3
    <3> QED BY <1>1, <3>3, <3>4
  <2> QED BY <2>2 DEF Scrolled, Window
<1>3. CASE ~(L < Ring)
  <2>1. L = Ring /\ k # <<>>
    BY <1>1, <1>3
  <2>2. Tail(k) \in Seq(Row) /\ Len(Tail(k)) = L - 1 /\ \A i \in 1..(L - 1) : Tail(k)[i] = k[i + 1]
    BY <2>1
  <2>3. Len(k2) = L /\ k2[L] = r /\ \A i \in 1..(L - 1) : k2[i] = k[i + 1]
    BY <1>1, <1>3, <2>1, <2>2 DEF LogOf!Logged
  <2> HIDE DEF k2
  <2>4. ASSUME NEW p \in 1..Rows
        PROVE  Scrolled(Window(k, 0), k2)[p] = Window(k2, 0)[p]
    <3>1. CASE p < Rows
      <4>1. L - Rows + p \in 1..(L - 1)
        BY <1>1, <2>1, <3>1
      <4>2. k2[L - Rows + p] = k[L - Rows + p + 1]
        BY <2>3, <4>1
      <4>3. Window(k2, 0)[p] = k2[L - Rows + p]
        BY <1>1, <2>3, <4>1 DEF Window
      <4>4. Window(k, 0)[p + 1] = k[L - Rows + (p + 1)]
        BY <1>1, <3>1, <4>1 DEF Window
      <4> QED BY <1>1, <3>1, <4>2, <4>3, <4>4 DEF Scrolled
    <3>2. CASE p = Rows
      BY <1>1, <2>1, <2>3, <3>2 DEF Scrolled, Window
    <3> QED BY <1>1, <3>1, <3>2
  <2> QED BY <2>4 DEF Scrolled, Window
<1> QED BY <1>2, <1>3

-----------------------------------------------------------------------------
(* The slots and their keys *)

\* The parts of the invariant about the slot table and the key order.
LayoutOK ==
  /\ used \in [Slot -> BOOLEAN]
  /\ name \in [Slot -> Name \cup {StatusName}]
  /\ order \in [Slot -> Slot]
  /\ positions \in 1..ViewMax
  /\ KeysAreTheOpenViews

\* While a slot is free a key position is: the order lists the open slots
\* without repetition (the pigeonhole argument behind order[positions++]).
LEMMA RoomForAKey ==
  ASSUME LayoutOK, NEW v \in FreeSlots
  PROVE  positions < ViewMax
<1> DEFINE P == 0..(positions - 1)
           O == Slot \ {v}
           f == [p \in P |-> order[p]]
<1>1. ViewMax \in Nat /\ ViewMax > 0 /\ positions \in 1..ViewMax
  BY ViewsAssumption DEF LayoutOK
<1>2. v \in Slot /\ ~used[v]
  BY DEF FreeSlots
<1>3. \A p \in P : p \in Slot /\ order[p] \in Slot /\ order[p] # v
  BY <1>1, <1>2 DEF LayoutOK, KeysAreTheOpenViews, Slot
<1>4. f \in Injection(P, O)
  <2>1. f \in [P -> O]
    BY <1>3
  <2>2. ASSUME NEW p \in P, NEW q \in P, f[p] = f[q]
        PROVE  p = q
    BY <2>2 DEF LayoutOK, KeysAreTheOpenViews
  <2> QED BY <2>1, <2>2 DEF Injection, IsInjective
<1>5. IsFiniteSet(Slot) /\ Cardinality(Slot) = ViewMax
  BY <1>1, FS_Interval DEF Slot
<1>6. IsFiniteSet(O) /\ Cardinality(O) = ViewMax - 1
  BY <1>2, <1>5, FS_RemoveElement
<1>7. Cardinality(P) = positions
  BY <1>1, FS_Interval
<1>8. Cardinality(P) <= Cardinality(O)
  BY <1>4, <1>6, FS_Injection
<1> QED BY <1>1, <1>6, <1>7, <1>8

\* view_open keeps the keys in step with the open slots.
LEMMA OpenKeepsLayout ==
  ASSUME LayoutOK, NEW n \in Name, NEW v \in FreeSlots, NEW b, view_open(n, v, b)
  PROVE  LayoutOK'
<1>1. ViewMax \in Nat /\ positions \in 1..ViewMax /\ positions < ViewMax
  BY RoomForAKey, ViewsAssumption DEF LayoutOK
<1>2. v \in Slot /\ v # Status /\ ~used[v] /\ positions \in Slot
  BY <1>1 DEF FreeSlots, Slot
<1>3. /\ used' \in [Slot -> BOOLEAN]
      /\ name' \in [Slot -> Name \cup {StatusName}]
      /\ order' \in [Slot -> Slot]
      /\ positions' \in 1..ViewMax
  <2>1. Cut[n] \in Name
    BY ViewsAssumption
  <2> QED BY <1>1, <1>2, <2>1 DEF LayoutOK, view_open
<1>4. KeysAreTheOpenViews'
  <2>1. order'[positions] = v /\ \A p \in Slot : p # positions => order'[p] = order[p]
    BY <1>2 DEF LayoutOK, view_open
  <2>2. positions' - 1 = positions
    BY <1>1 DEF view_open
  <2>3. \A p \in 0..(positions - 1) : p \in Slot /\ p # positions /\ order[p] # v
    BY <1>1, <1>2 DEF LayoutOK, KeysAreTheOpenViews, Slot
  <2>4. order'[0] = Status
    BY <1>1, <2>1, <2>3 DEF LayoutOK, KeysAreTheOpenViews, Slot
  <2>5. ASSUME NEW p \in 0..positions, NEW q \in 0..positions, order'[p] = order'[q]
        PROVE  p = q
    BY <1>1, <2>1, <2>3, <2>5 DEF LayoutOK, KeysAreTheOpenViews
  <2>6. ASSUME NEW w \in Slot
        PROVE  used'[w] <=> \E p \in 0..positions : order'[p] = w
    <3>1. CASE w = v
      BY <1>1, <1>2, <2>1, <3>1 DEF LayoutOK, view_open
    <3>2. CASE w # v
      <4>1. used'[w] <=> used[w]
        BY <1>2, <3>2 DEF LayoutOK, view_open
      <4>2. used[w] <=> \E p \in 0..(positions - 1) : order[p] = w
        BY DEF LayoutOK, KeysAreTheOpenViews
      <4> QED BY <1>1, <2>1, <2>3, <3>2, <4>1, <4>2
    <3> QED BY <3>1, <3>2
  <2> QED BY <2>2, <2>4, <2>5, <2>6 DEF KeysAreTheOpenViews
<1> QED BY <1>3, <1>4 DEF LayoutOK

\* So does taking an open slot's position out of the order.
LEMMA CloseKeepsLayout ==
  ASSUME LayoutOK, NEW v \in Slot \ {Status}, used[v],
         NEW at \in 1..positions, At(v, at),
         used' = [used EXCEPT ![v] = FALSE],
         order' = Without(at),
         positions' = positions - 1,
         UNCHANGED name
  PROVE  LayoutOK'
<1>1. ViewMax \in Nat /\ positions \in 1..ViewMax
  BY ViewsAssumption DEF LayoutOK
<1>2. PICK c \in 0..(positions - 1) : order[c] = v
  BY DEF LayoutOK, KeysAreTheOpenViews
<1>3. at < positions /\ order[at] = v /\ at = c /\ at >= 1
  BY <1>1, <1>2 DEF LayoutOK, KeysAreTheOpenViews, At
<1>4. \A p \in 0..(positions - 2) :
         /\ p < at => order'[p] = order[p]
         /\ p >= at => order'[p] = order[p + 1]
  BY <1>1, <1>3 DEF Without, Slot
<1>5. order' \in [Slot -> Slot]
  BY <1>1 DEF LayoutOK, Without, Slot
<1>6. order'[0] = Status
  BY <1>1, <1>3, <1>4 DEF LayoutOK, KeysAreTheOpenViews
<1>7. ASSUME NEW p \in 0..(positions - 2), NEW q \in 0..(positions - 2), order'[p] = order'[q]
      PROVE  p = q
  BY <1>1, <1>3, <1>4, <1>7 DEF LayoutOK, KeysAreTheOpenViews
<1>8. ASSUME NEW w \in Slot
      PROVE  used'[w] <=> \E p \in 0..(positions - 2) : order'[p] = w
  <2>1. CASE w = v
    <3>1. \A p \in 0..(positions - 2) : order'[p] # v
      BY <1>1, <1>3, <1>4 DEF LayoutOK, KeysAreTheOpenViews
    <3> QED BY <2>1, <3>1 DEF LayoutOK
  <2>2. CASE w # v
    <3>1. used'[w] <=> \E p \in 0..(positions - 1) : order[p] = w
      BY <2>2 DEF LayoutOK, KeysAreTheOpenViews
    <3>2. ASSUME NEW p \in 0..(positions - 1), order[p] = w
          PROVE  \E q \in 0..(positions - 2) : order'[q] = w
      <4>1. CASE p < at
        BY <1>1, <1>3, <1>4, <3>2, <4>1
      <4>2. CASE p > at
        <5>1. p - 1 \in 0..(positions - 2) /\ order'[p - 1] = w
          BY <1>1, <1>3, <1>4, <3>2, <4>2
        <5> QED BY <5>1
      <4> QED BY <1>3, <2>2, <3>2, <4>1, <4>2
    <3>3. ASSUME NEW q \in 0..(positions - 2), order'[q] = w
          PROVE  \E p \in 0..(positions - 1) : order[p] = w
      <4>1. CASE q < at
        BY <1>1, <1>4, <3>3, <4>1
      <4>2. CASE q >= at
        <5>1. q + 1 \in 0..(positions - 1) /\ order[q + 1] = w
          BY <1>1, <1>4, <3>3, <4>2
        <5> QED BY <5>1
      <4> QED BY <1>1, <4>1, <4>2
    <3> QED BY <3>1, <3>2, <3>3
  <2> QED BY <2>1, <2>2
<1>9. positions' - 1 = positions - 2 /\ positions' \in 1..ViewMax
  BY <1>1, <1>3
<1>10. used' \in [Slot -> BOOLEAN]
  BY DEF LayoutOK
<1> QED BY <1>5, <1>6, <1>7, <1>8, <1>9, <1>10 DEF LayoutOK, KeysAreTheOpenViews

-----------------------------------------------------------------------------
(* The inductive invariant *)

\* StarredIffMissed made inductive: what is on the screen at its newest row is
\* neither starred nor missed, and only the view a line is being written to may
\* for the moment be missed and not yet starred.
Stars ==
  /\ ~unread[view_active]
  /\ back[view_active] = 0 => ~missed[view_active]
  /\ \A v \in Slot :
       used[v] /\ back[v] = 0 /\ ~(v = saying.v /\ saying.left > 0) => (unread[v] <=> missed[v])

IInv ==
  /\ TypeOK
  /\ KeysAreTheOpenViews
  /\ ShowingIsOpen
  /\ LiveIsRedraw
  /\ Stars

\* The slot table's part of the invariant.
LEMMA LayoutOfIInv == IInv => LayoutOK
  BY DEF IInv, TypeOK, LayoutOK

\* The status view is a slot, VIEW_NONE is not.
LEMMA SlotFacts == Status \in Slot /\ None \notin Slot /\ Ring \in Nat
  BY ViewsAssumption DEF Slot, Status, None

\* What the callers of view_for rely on.
LEMMA ViewForEffect ==
  ASSUME IInv, NEW n \in Name, NEW v \in Slot \cup {None}, NEW b \in [Slot -> Nat],
         view_for(n, v, b)
  PROVE  /\ LayoutOK'
         /\ back' \in [Slot -> Nat]
         /\ kept' \in [Slot -> Seq(Row)]
         /\ \A u \in Slot : Len(kept'[u]) <= Ring
         /\ \A u \in Slot : used[u] => used'[u] /\ kept'[u] = kept[u] /\ back'[u] = b[u]
         /\ \A u \in Slot : used'[u] /\ ~used[u] => u = v /\ ~Found(n, v)
         /\ v # None => v \in Slot /\ used'[v]
         /\ v = None => used' = used /\ kept' = kept /\ back' = b
<1>0. LayoutOK /\ Ring \in Nat /\ \A u \in Slot : u # None
  BY LayoutOfIInv, SlotFacts
<1>1. CASE v # None /\ Found(n, v) /\ back' = b /\ UNCHANGED <<layout, kept>>
  <2>1. used[v] /\ v \in Slot
    BY <1>1 DEF Found, Named
  <2>2. LayoutOK'
    BY <1>0, <1>1 DEF LayoutOK, layout, KeysAreTheOpenViews
  <2> QED BY <1>1, <2>1, <2>2 DEF IInv, TypeOK, layout
<1>2. CASE Found(n, None) /\ v # None /\ FirstFree(v) /\ view_open(n, v, b)
  <2>1. v \in FreeSlots /\ v \in Slot /\ ~used[v]
    BY <1>2 DEF FirstFree, FreeSlots
  <2>2. LayoutOK'
    BY <1>0, <1>2, <2>1, OpenKeepsLayout
  <2>3. ~Found(n, v)
    BY <1>2, <2>1 DEF Found, Named
  <2>4. <<>> \in Seq(Row) /\ Len(<<>>) <= Ring
    BY <1>0
  <2>5. /\ back' \in [Slot -> Nat]
        /\ kept' \in [Slot -> Seq(Row)]
        /\ \A u \in Slot : Len(kept'[u]) <= Ring
    BY <1>2, <2>1, <2>4 DEF IInv, TypeOK, view_open
  <2>6. \A u \in Slot : u # v => used'[u] = used[u] /\ kept'[u] = kept[u] /\ back'[u] = b[u]
    BY <1>2, <2>1 DEF IInv, TypeOK, view_open
  <2>7. used'[v]
    BY <1>2, <2>1 DEF IInv, TypeOK, view_open
  <2> QED BY <1>2, <2>1, <2>2, <2>3, <2>5, <2>6, <2>7
<1>3. CASE v = None /\ back' = b /\ UNCHANGED <<layout, kept>>
  <2>1. LayoutOK'
    BY <1>0, <1>3 DEF LayoutOK, layout, KeysAreTheOpenViews
  <2> QED BY <1>3, <2>1 DEF IInv, TypeOK, layout
<1> QED BY <1>1, <1>2, <1>3 DEF view_for

\* What the callers of view_show rely on.
LEMMA ViewShowEffect ==
  ASSUME IInv, NEW v \in Slot, NEW m \in [Slot -> BOOLEAN],
         back' \in [Slot -> Nat], kept' \in [Slot -> Seq(Row)],
         view_show(v, m)
  PROVE  /\ view_active' = v
         /\ unread' \in [Slot -> BOOLEAN]
         /\ missed' \in [Slot -> BOOLEAN]
         /\ screen' \in [1..Rows -> Row \cup {Blank}]
         /\ LiveIsRedraw'
         /\ ~unread'[v]
         /\ back'[v] = 0 => ~missed'[v]
         /\ \A u \in Slot : u # v => unread'[u] = unread[u] /\ missed'[u] = m[u]
<1>1. view_active' = v /\ screen' = Window(kept'[v], back'[v])
  BY DEF view_show
<1>2. screen' \in [1..Rows -> Row \cup {Blank}]
  BY <1>1, WindowType
<1>3. LiveIsRedraw'
  BY <1>1 DEF LiveIsRedraw, Window
<1>4. unread' \in [Slot -> BOOLEAN] /\ ~unread'[v] /\ \A u \in Slot : u # v => unread'[u] = unread[u]
  BY DEF view_show, IInv, TypeOK
<1>5. missed' = [m EXCEPT ![v] = m[v] /\ back'[v] # 0]
  BY DEF view_show, SeenIfAtNewest
<1>6. /\ missed' \in [Slot -> BOOLEAN]
      /\ back'[v] = 0 => ~missed'[v]
      /\ \A u \in Slot : u # v => missed'[u] = m[u]
  BY <1>5
<1> QED BY <1>1, <1>2, <1>3, <1>4, <1>6

\* What the callers of view_close rely on: nothing happens but the removal of
\* slot v, and the status view is shown if v was.
LEMMA ViewCloseEffect ==
  ASSUME IInv, NEW v \in Slot \cup {None}, NEW b \in [Slot -> Nat], NEW s,
         NEW m \in [Slot -> BOOLEAN], view_close(v, b, s, m)
  PROVE  /\ LayoutOK'
         /\ back' = b /\ kept' = kept
         /\ \A u \in Slot : used'[u] => used[u]
         /\ used'[Status]
         /\ \/ /\ view_show(Status, m)
            \/ /\ screen' = s /\ missed' = m
               /\ view_active' = view_active /\ unread' = unread
               /\ used'[view_active]
<1>0. LayoutOK /\ Status \in Slot /\ view_active \in Slot /\ used[view_active]
  BY LayoutOfIInv, SlotFacts DEF IInv, TypeOK, ShowingIsOpen
<1>1. used[Status]
  <2>1. order[0] = Status /\ 0 \in 0..(positions - 1)
    BY <1>0, ViewsAssumption DEF LayoutOK, KeysAreTheOpenViews
  <2> QED BY <1>0, <2>1 DEF LayoutOK, KeysAreTheOpenViews
<1>2. CASE v \in Slot \ {Status} /\ used[v]
  <2>1. used' = [used EXCEPT ![v] = FALSE] /\ positions' = positions - 1 /\ UNCHANGED name
    BY <1>2 DEF view_close
  <2>2. PICK p \in 1..positions : At(v, p) /\ order' = Without(p)
    BY <1>2 DEF view_close
  <2>3. LayoutOK'
    BY <1>0, <1>2, <2>1, <2>2, CloseKeepsLayout
  <2>4. \A u \in Slot : used'[u] = (used[u] /\ u # v)
    BY <1>0, <1>2, <2>1 DEF LayoutOK
  <2>5. CASE view_active = v
    BY <1>0, <1>1, <1>2, <2>3, <2>4, <2>5 DEF view_close
  <2>6. CASE view_active # v
    BY <1>0, <1>1, <1>2, <2>3, <2>4, <2>6 DEF view_close
  <2> QED BY <2>5, <2>6
<1>3. CASE ~(v \in Slot \ {Status} /\ used[v])
  <2>1. used' = used /\ order' = order /\ positions' = positions /\ name' = name
    BY <1>3 DEF view_close
  <2>2. LayoutOK'
    BY <1>0, <2>1 DEF LayoutOK, KeysAreTheOpenViews
  <2> QED BY <1>0, <1>1, <1>3, <2>1, <2>2 DEF view_close
<1> QED BY <1>2, <1>3

\* A line begins in an open view.
LEMMA StartLineEffect ==
  ASSUME NEW v, NEW rows \in 1..MaxWrap, NEW close \in BOOLEAN, used'[Status],
         StartLine(v, rows, close)
  PROVE  saying' \in Line /\ used'[saying'.v]
  BY SlotFacts, ViewsAssumption DEF StartLine, Line

-----------------------------------------------------------------------------
(* One lemma per kind of action *)

\* Handlers that open no view, close none and only begin a line.
LEMMA LineBegins ==
  ASSUME IInv, UNCHANGED <<layout, back, unread, view_active, kept, screen, missed>>,
         NEW v, NEW rows \in 1..MaxWrap, NEW close \in BOOLEAN, Quiet,
         StartLine(v, rows, close)
  PROVE  IInv'
<1>1. used[Status]
  BY DEF IInv, ShowingIsOpen, Quiet, Silent
<1>2. saying' \in Line /\ used'[saying'.v]
  BY <1>1, StartLineEffect DEF layout
<1>3. TypeOK'
  BY <1>2 DEF IInv, TypeOK, layout
<1>4. KeysAreTheOpenViews' /\ LiveIsRedraw' /\ ShowingIsOpen'
  BY <1>2 DEF IInv, layout, KeysAreTheOpenViews, LiveIsRedraw, ShowingIsOpen, Window
<1>5. Stars'
  BY DEF IInv, layout, Stars, Quiet, Silent
<1> QED BY <1>3, <1>4, <1>5 DEF IInv

\* One row of a line.
LEMMA RowStep ==
  ASSUME IInv, NEW r \in Row, LineRow(r)
  PROVE  IInv'
<1> DEFINE v == saying.v
           live == v = view_active /\ back[v] = 0
<1>1. v \in Slot /\ used[v] /\ saying \in Line /\ saying.left \in 1..MaxWrap
  BY ViewsAssumption DEF IInv, TypeOK, ShowingIsOpen, LineRow, Line
<1>2. kept[v] \in Seq(Row) /\ Len(kept[v]) <= Ring /\ view_active \in Slot
  BY <1>1 DEF IInv, TypeOK
<1>3. kept' = [kept EXCEPT ![v] = LogOf!Logged(kept[v], r)]
  BY DEF LineRow
<1>4. /\ kept' \in [Slot -> Seq(Row)]
      /\ \A u \in Slot : Len(kept'[u]) <= Ring
      /\ kept'[v] = LogOf!Logged(kept[v], r)
      /\ \A u \in Slot : u # v => kept'[u] = kept[u]
  BY <1>1, <1>2, <1>3, LoggedType DEF IInv, TypeOK
<1>5. saying' \in Line /\ (saying'.left = 0 \/ saying'.v = v) /\ used[saying'.v]
  <2>1. Silent \in Line /\ used[Status]
    <3>1. 0 \in 0..MaxWrap
      BY ViewsAssumption
    <3>2. order[0] = Status /\ 0 \in 0..(positions - 1)
      BY ViewsAssumption DEF IInv, TypeOK, KeysAreTheOpenViews
    <3> QED BY <3>1, <3>2, SlotFacts DEF Silent, Line, IInv, KeysAreTheOpenViews
  <2>2. CASE saying' = Silent
    BY <2>1, <2>2 DEF Silent
  <2>3. CASE saying' = [saying EXCEPT !.left = saying.left - 1]
    <3>1. saying.left - 1 \in 0..MaxWrap
      BY <1>1, ViewsAssumption
    <3> QED BY <1>1, <2>3, <3>1 DEF Line
  <2> QED BY <2>2, <2>3 DEF LineRow
<1>6. LiveIsRedraw' /\ screen' \in [1..Rows -> Row \cup {Blank}]
  <2>1. CASE live
    <3>1. screen = Window(kept[v], 0)
      BY <2>1 DEF IInv, LiveIsRedraw
    <3>2. screen' = Scrolled(screen, kept'[v]) /\ view_active' = v
      BY <2>1 DEF LineRow
    <3>3. screen' = Window(kept'[v], 0)
      BY <1>2, <1>4, <3>1, <3>2, LiveRowIsRedraw
    <3>4. Window(kept'[v], 0) \in [1..Rows -> Row \cup {Blank}]
      BY <1>1, <1>4, WindowType
    <3> QED BY <3>2, <3>3, <3>4 DEF LiveIsRedraw, Window
  <2>2. CASE ~live
    <3>1. screen' = screen /\ view_active' = view_active /\ back' = back
      BY <2>2 DEF LineRow
    <3>2. back[view_active] = 0 => kept'[view_active] = kept[view_active]
      BY <1>2, <1>4, <2>2
    <3> QED BY <3>1, <3>2 DEF IInv, TypeOK, LiveIsRedraw, Window
  <2> QED BY <2>1, <2>2
<1>7. /\ used' = used /\ name' = name /\ order' = order /\ positions' = positions
      /\ back' = back /\ view_active' = view_active
  BY DEF LineRow, layout
<1>8. /\ missed' \in [Slot -> BOOLEAN]
      /\ missed'[v] = (missed[v] \/ ~live)
      /\ \A u \in Slot : u # v => missed'[u] = missed[u]
  BY <1>1 DEF IInv, TypeOK, LineRow
<1>9. /\ unread' \in [Slot -> BOOLEAN]
      /\ unread'[v] = (unread[v] \/ (saying.left = 1 /\ v # view_active))
      /\ \A u \in Slot : u # v => unread'[u] = unread[u]
  BY <1>1 DEF IInv, TypeOK, LineRow
<1>10. TypeOK'
  BY <1>4, <1>5, <1>6, <1>7, <1>8, <1>9 DEF IInv, TypeOK
<1>11. KeysAreTheOpenViews' /\ ShowingIsOpen'
  BY <1>5, <1>7 DEF IInv, KeysAreTheOpenViews, ShowingIsOpen
<1>12. Stars'
  <2>1. ~unread'[view_active']
    BY <1>1, <1>2, <1>7, <1>9 DEF IInv, Stars
  <2>2. back'[view_active'] = 0 => ~missed'[view_active']
    BY <1>1, <1>2, <1>7, <1>8 DEF IInv, Stars
  <2>3. ASSUME NEW u \in Slot, used'[u], back'[u] = 0, ~(u = saying'.v /\ saying'.left > 0)
        PROVE  unread'[u] <=> missed'[u]
    <3>1. CASE u # v
      BY <1>7, <1>8, <1>9, <2>3, <3>1 DEF IInv, Stars
    <3>2. CASE u = v /\ v = view_active
      BY <1>7, <2>1, <2>2, <2>3, <3>2
    <3>3. CASE u = v /\ v # view_active
      <4>1. missed'[u]
        BY <1>8, <3>3
      <4>2. saying.left = 1
        <5>1. CASE saying.left = 1 /\ ~saying.close
          BY <5>1
        <5>2. CASE ~(saying.left = 1 /\ ~saying.close)
          <6>1. saying' = [saying EXCEPT !.left = saying.left - 1]
            BY <5>2 DEF LineRow
          <6>2. saying'.v = v /\ saying'.left = saying.left - 1
            BY <1>1, <6>1 DEF Line
          <6> QED BY <1>1, <2>3, <3>3, <6>2, ViewsAssumption
        <5> QED BY <5>1, <5>2
      <4> QED BY <1>9, <3>3, <4>1, <4>2
    <3> QED BY <3>1, <3>2, <3>3
  <2> QED BY <2>1, <2>2, <2>3 DEF Stars
<1> QED BY <1>6, <1>10, <1>11, <1>12 DEF IInv

\* A step that ends in view_show(v): the other open views must already be
\* starred if and only if missed.
LEMMA ShowStep ==
  ASSUME IInv, LayoutOK', back' \in [Slot -> Nat], kept' \in [Slot -> Seq(Row)],
         \A u \in Slot : Len(kept'[u]) <= Ring,
         NEW v \in Slot, used'[v], NEW m \in [Slot -> BOOLEAN], view_show(v, m),
         saying' \in Line, used'[saying'.v],
         \A u \in Slot : u # v /\ used'[u] /\ back'[u] = 0 => (unread[u] <=> m[u])
  PROVE  IInv'
<1>1. /\ view_active' = v
      /\ unread' \in [Slot -> BOOLEAN]
      /\ missed' \in [Slot -> BOOLEAN]
      /\ screen' \in [1..Rows -> Row \cup {Blank}]
      /\ LiveIsRedraw'
      /\ ~unread'[v]
      /\ back'[v] = 0 => ~missed'[v]
      /\ \A u \in Slot : u # v => unread'[u] = unread[u] /\ missed'[u] = m[u]
  BY ViewShowEffect
<1>2. TypeOK'
  BY <1>1 DEF TypeOK, LayoutOK
<1>3. KeysAreTheOpenViews' /\ ShowingIsOpen'
  BY <1>1 DEF LayoutOK, ShowingIsOpen
<1>4. Stars'
  BY <1>1 DEF Stars
<1> QED BY <1>1, <1>2, <1>3, <1>4 DEF IInv

\* A step that leaves the showing view on the screen at its newest row.
LEMMA StayStep ==
  ASSUME IInv, LayoutOK', back' \in [Slot -> Nat], kept' = kept,
         view_active' = view_active, used'[view_active], unread' = unread,
         back'[view_active] = 0, screen' = Window(kept[view_active], 0),
         missed' = SeenNow, saying' \in Line, used'[saying'.v],
         \A u \in Slot : used'[u] /\ u # view_active =>
             used[u] /\ (back'[u] = 0 => back[u] = 0),
         Quiet
  PROVE  IInv'
<1>1. view_active \in Slot /\ kept[view_active] \in Seq(Row)
  BY DEF IInv, TypeOK
<1>2. screen' \in [1..Rows -> Row \cup {Blank}]
  BY <1>1, WindowType
<1>3. /\ missed' \in [Slot -> BOOLEAN]
      /\ ~missed'[view_active]
      /\ \A u \in Slot : u # view_active => missed'[u] = missed[u]
  BY <1>1 DEF IInv, TypeOK, SeenNow
<1>4. TypeOK'
  BY <1>2, <1>3 DEF IInv, TypeOK, LayoutOK
<1>5. KeysAreTheOpenViews' /\ ShowingIsOpen'
  BY DEF LayoutOK, ShowingIsOpen
<1>6. LiveIsRedraw'
  BY DEF LiveIsRedraw, Window
<1>7. Stars'
  <2>1. ~unread[view_active]
    BY DEF IInv, Stars
  <2>2. \A u \in Slot : used[u] /\ back[u] = 0 => (unread[u] <=> missed[u])
    BY DEF IInv, Stars, Quiet, Silent
  <2> QED BY <1>1, <1>3, <2>1, <2>2 DEF Stars
<1> QED BY <1>4, <1>5, <1>6, <1>7 DEF IInv

\* Between lines every open view at its newest row is starred iff missed.
LEMMA QuietFacts ==
  ASSUME IInv, Quiet
  PROVE  /\ \A u \in Slot : used[u] /\ back[u] = 0 => (unread[u] <=> missed[u])
         /\ used[Status] /\ saying \in Line /\ used[saying.v]
         /\ view_active \in Slot /\ used[view_active]
         /\ AtNewest \in [Slot -> Nat] /\ AtNewest[view_active] = 0
         /\ \A u \in Slot : u # view_active => AtNewest[u] = back[u]
         /\ SeenNow \in [Slot -> BOOLEAN] /\ ~SeenNow[view_active]
         /\ \A u \in Slot : u # view_active => SeenNow[u] = missed[u]
<1>1. \A u \in Slot : used[u] /\ back[u] = 0 => (unread[u] <=> missed[u])
  BY DEF IInv, Stars, Quiet, Silent
<1>2. used[Status] /\ saying \in Line /\ used[saying.v]
  BY DEF IInv, TypeOK, ShowingIsOpen, Quiet, Silent
<1>3. view_active \in Slot /\ used[view_active]
  BY DEF IInv, TypeOK, ShowingIsOpen
<1> QED BY <1>1, <1>2, <1>3 DEF IInv, TypeOK, AtNewest, SeenNow

\* A typed handler that ends in view_close.
LEMMA TypedCloseStep ==
  ASSUME IInv, Quiet, NEW v \in Slot \cup {None},
         view_close(v, AtNewest, NewestRows, SeenNow), saying' = saying
  PROVE  IInv'
<1> USE QuietFacts
<1>1. /\ LayoutOK'
      /\ back' = AtNewest /\ kept' = kept
      /\ \A u \in Slot : used'[u] => used[u]
      /\ used'[Status]
      /\ \/ /\ view_show(Status, SeenNow)
         \/ /\ screen' = NewestRows /\ missed' = SeenNow
            /\ view_active' = view_active /\ unread' = unread
            /\ used'[view_active]
  BY ViewCloseEffect
<1>2. saying' \in Line /\ used'[saying'.v]
  BY <1>1 DEF Quiet, Silent
<1>3. CASE view_show(Status, SeenNow)
  <2>1. ~unread[view_active]
    BY DEF IInv, Stars
  <2>2. \A u \in Slot : used'[u] /\ back'[u] = 0 => (unread[u] <=> SeenNow[u])
    <3> TAKE u \in Slot
    <3>1. CASE u = view_active
      BY <2>1, <3>1
    <3>2. CASE u # view_active
      BY <1>1, <3>2
    <3> QED BY <3>1, <3>2
  <2>3. kept' \in [Slot -> Seq(Row)] /\ \A u \in Slot : Len(kept'[u]) <= Ring
    BY <1>1 DEF IInv, TypeOK
  <2> QED BY <1>1, <1>2, <1>3, <2>2, <2>3, SlotFacts, ShowStep
<1>4. CASE /\ screen' = NewestRows /\ missed' = SeenNow
           /\ view_active' = view_active /\ unread' = unread
           /\ used'[view_active]
  BY <1>1, <1>2, <1>4, StayStep DEF NewestRows
<1> QED BY <1>1, <1>3, <1>4

\* A typed handler that only says a line.
LEMMA TypedLineStep ==
  ASSUME IInv, Quiet, back' = AtNewest, screen' = NewestRows, missed' = SeenNow,
         UNCHANGED <<layout, unread, view_active, kept>>,
         saying' \in Line, used'[saying'.v]
  PROVE  IInv'
<1>1. LayoutOK'
  BY LayoutOfIInv DEF LayoutOK, layout, KeysAreTheOpenViews
<1> QED BY <1>1, QuietFacts, StayStep DEF NewestRows, layout

-----------------------------------------------------------------------------
(* The actions *)

\* The close after our own PART or KICK keeps the invariant.
LEMMA LineCloseStep ==
  ASSUME IInv, LineClose
  PROVE  IInv'
<1>1. saying.v \in Slot /\ back \in [Slot -> Nat] /\ missed \in [Slot -> BOOLEAN]
  BY DEF IInv, TypeOK, Line
<1>2. view_close(saying.v, back, screen, missed) /\ saying' = Silent /\ saying.left = 0
  BY DEF LineClose
<1>3. /\ LayoutOK'
      /\ back' = back /\ kept' = kept
      /\ \A u \in Slot : used'[u] => used[u]
      /\ used'[Status]
      /\ \/ /\ view_show(Status, missed)
         \/ /\ screen' = screen /\ missed' = missed
            /\ view_active' = view_active /\ unread' = unread
            /\ used'[view_active]
  BY <1>1, <1>2, ViewCloseEffect
<1>4. saying' \in Line /\ used'[saying'.v]
  <2>1. 0 \in 0..MaxWrap
    BY ViewsAssumption
  <2> QED BY <1>2, <1>3, <2>1, SlotFacts DEF Silent, Line
<1>5. \A u \in Slot : used'[u] /\ back'[u] = 0 => (unread[u] <=> missed[u])
  BY <1>2, <1>3 DEF IInv, Stars
<1>6. CASE view_show(Status, missed)
  <2>1. back' \in [Slot -> Nat] /\ kept' \in [Slot -> Seq(Row)] /\ \A u \in Slot : Len(kept'[u]) <= Ring
    BY <1>3 DEF IInv, TypeOK
  <2> QED BY <1>1, <1>3, <1>4, <1>5, <1>6, <2>1, SlotFacts, ShowStep
<1>7. CASE /\ screen' = screen /\ missed' = missed
           /\ view_active' = view_active /\ unread' = unread
           /\ used'[view_active]
  <2>1. TypeOK'
    BY <1>3, <1>4, <1>7 DEF IInv, TypeOK, LayoutOK
  <2>2. KeysAreTheOpenViews' /\ ShowingIsOpen'
    BY <1>3, <1>4, <1>7 DEF LayoutOK, ShowingIsOpen
  <2>3. LiveIsRedraw'
    BY <1>3, <1>7 DEF IInv, LiveIsRedraw, Window
  <2>4. Stars'
    BY <1>3, <1>5, <1>7 DEF IInv, Stars
  <2> QED BY <2>1, <2>2, <2>3, <2>4 DEF IInv
<1> QED BY <1>3, <1>6, <1>7

\* A handler that shows view v after view_for, with the scroll positions b and
\* the ghost m so far.
LEMMA OpenAndShow ==
  ASSUME IInv, Quiet, NEW n \in Name, NEW v \in Slot, NEW b \in [Slot -> Nat],
         NEW m \in [Slot -> BOOLEAN],
         view_for(n, v, b), view_show(v, m), saying' \in Line, used'[saying'.v],
         \A u \in Slot : used[u] /\ b[u] = 0 => (unread[u] <=> m[u])
  PROVE  IInv'
<1>1. /\ LayoutOK'
      /\ back' \in [Slot -> Nat]
      /\ kept' \in [Slot -> Seq(Row)]
      /\ \A u \in Slot : Len(kept'[u]) <= Ring
      /\ \A u \in Slot : used[u] => used'[u] /\ kept'[u] = kept[u] /\ back'[u] = b[u]
      /\ \A u \in Slot : used'[u] /\ ~used[u] => u = v /\ ~Found(n, v)
      /\ v # None => v \in Slot /\ used'[v]
  BY ViewForEffect
<1>2. used'[v]
  BY <1>1, SlotFacts
<1>3. \A u \in Slot : u # v /\ used'[u] /\ back'[u] = 0 => (unread[u] <=> m[u])
  BY <1>1
<1> QED BY <1>1, <1>2, <1>3, ShowStep

\* Our own JOIN keeps the invariant.
LEMMA JoinEchoStep ==
  ASSUME IInv, NEW chan \in Channel, NEW rows \in 1..MaxWrap, JoinEcho(chan, rows)
  PROVE  IInv'
<1>0. Quiet /\ chan \in Name /\ back \in [Slot -> Nat] /\ missed \in [Slot -> BOOLEAN]
  BY ViewsAssumption DEF JoinEcho, IInv, TypeOK
<1>1. PICK v \in Slot \cup {None} :
         /\ view_for(chan, v, back)
         /\ IF v # None THEN view_show(v, missed)
                        ELSE UNCHANGED <<view_active, unread, screen, missed>>
         /\ StartLine(v, rows, FALSE)
  BY DEF JoinEcho
<1>2. /\ \A u \in Slot : used[u] => used'[u]
      /\ v = None => used' = used /\ kept' = kept /\ back' = back
  <2>1. view_for(chan, v, back) /\ chan \in Name /\ back \in [Slot -> Nat]
    BY <1>0, <1>1
  <2>2. /\ \A u \in Slot : used[u] => used'[u] /\ kept'[u] = kept[u] /\ back'[u] = back[u]
        /\ v = None => used' = used /\ kept' = kept /\ back' = back
    BY <2>1, ViewForEffect
  <2> QED BY <2>2
<1>3. used'[Status]
  BY <1>0, <1>2, QuietFacts, SlotFacts
<1>4. saying' \in Line /\ used'[saying'.v]
  BY <1>1, <1>3, StartLineEffect
<1>5. CASE v # None
  BY <1>0, <1>1, <1>4, <1>5, QuietFacts, OpenAndShow
<1>6. CASE v = None
  <2>1. ~(v # None)
    BY <1>6
  <2>2. UNCHANGED <<layout, kept, back>>
    BY <1>1, <1>6 DEF view_for
  <2> QED BY <1>0, <1>1, <2>1, <2>2, LineBegins
<1> QED BY <1>5, <1>6

\* So does a channel joined once registered.
LEMMA AutoJoinStep ==
  ASSUME IInv, NEW chan \in Channel, NEW rows \in 1..MaxWrap, AutoJoin(chan, rows)
  PROVE  IInv'
<1>0. Quiet /\ chan \in Name /\ back \in [Slot -> Nat] /\ missed \in [Slot -> BOOLEAN]
  BY ViewsAssumption DEF AutoJoin, IInv, TypeOK
<1>1. PICK v \in Slot \cup {None} :
         /\ view_for(chan, v, back)
         /\ IF v # None
              THEN view_show(v, missed) /\ UNCHANGED saying
              ELSE /\ UNCHANGED <<view_active, unread, screen, missed>>
                   /\ StartLine(view_active, rows, FALSE)
  BY DEF AutoJoin
<1>2. \A u \in Slot : used[u] => used'[u]
  <2>1. view_for(chan, v, back) /\ chan \in Name /\ back \in [Slot -> Nat]
    BY <1>0, <1>1
  <2>2. \A u \in Slot : used[u] => used'[u] /\ kept'[u] = kept[u] /\ back'[u] = back[u]
    BY <2>1, ViewForEffect
  <2> QED BY <2>2
<1>3. used'[Status]
  BY <1>0, <1>2, QuietFacts, SlotFacts
<1>4. CASE v # None
  <2>1. v \in Slot /\ view_for(chan, v, back) /\ view_show(v, missed) /\ saying' = saying
    BY <1>1, <1>4
  <2>2. saying' \in Line /\ used'[saying'.v]
    BY <1>0, <1>3, <2>1, QuietFacts, SlotFacts DEF Quiet, Silent
  <2> QED BY <1>0, <2>1, <2>2, QuietFacts, OpenAndShow
<1>5. CASE v = None
  <2>1. /\ UNCHANGED <<view_active, unread, screen, missed>>
        /\ StartLine(view_active, rows, FALSE)
    BY <1>1, <1>5
  <2>2. UNCHANGED <<layout, kept, back>>
    BY <1>1, <1>5 DEF view_for
  <2>3. saying' \in Line /\ used'[saying'.v]
    BY <1>3, <2>1, StartLineEffect
  <2> QED BY <1>0, <2>1, <2>2, <2>3, LineBegins
<1> QED BY <1>4, <1>5

\* A private message keeps the invariant.
LEMMA PrivateMessageStep ==
  ASSUME IInv, NEW who \in Name, NEW rows \in 0..MaxWrap, PrivateMessage(who, rows)
  PROVE  IInv'
<1>0. Quiet /\ back \in [Slot -> Nat] /\ UNCHANGED <<view_active, screen>>
  BY DEF PrivateMessage, IInv, TypeOK
<1>1. PICK v \in Slot \cup {None} :
         /\ view_for(who, v, back)
         /\ IF ~ Found(who, v) /\ v # None
              THEN /\ unread' = [unread EXCEPT ![v] = FALSE]
                   /\ missed' = [missed EXCEPT ![v] = FALSE]
              ELSE UNCHANGED <<unread, missed>>
         /\ IF rows = 0 THEN UNCHANGED saying ELSE StartLine(v, rows, FALSE)
  BY DEF PrivateMessage
<1>2. /\ LayoutOK'
      /\ back' \in [Slot -> Nat]
      /\ kept' \in [Slot -> Seq(Row)]
      /\ \A u \in Slot : Len(kept'[u]) <= Ring
      /\ \A u \in Slot : used[u] => used'[u] /\ kept'[u] = kept[u] /\ back'[u] = back[u]
      /\ \A u \in Slot : used'[u] /\ ~used[u] => u = v /\ ~Found(who, v)
      /\ v # None => v \in Slot /\ used'[v]
  <2>1. view_for(who, v, back)
    BY <1>1
  <2> QED BY <1>0, <2>1, ViewForEffect
<1>3. used'[Status] /\ view_active \in Slot /\ used[view_active] /\ used'[view_active]
  BY <1>0, <1>2, QuietFacts, SlotFacts
<1>4. saying' \in Line /\ used'[saying'.v]
  <2>1. CASE rows = 0
    <3>1. saying' = saying
      BY <1>1, <2>1
    <3>2. saying' \in Line /\ saying'.v = Status
      BY <1>0, <3>1, QuietFacts DEF Quiet, Silent
    <3> QED BY <1>3, <3>2
  <2>2. CASE rows # 0
    <3>1. rows \in 1..MaxWrap
      BY <2>2, ViewsAssumption
    <3> QED BY <1>1, <1>3, <2>2, <3>1, StartLineEffect
  <2> QED BY <2>1, <2>2
<1>5. unread' \in [Slot -> BOOLEAN] /\ missed' \in [Slot -> BOOLEAN]
  BY <1>1, <1>2 DEF IInv, TypeOK
<1>6. \A u \in Slot : \/ unread'[u] = unread[u] /\ missed'[u] = missed[u]
                      \/ ~unread'[u] /\ ~missed'[u]
  BY <1>1, <1>2 DEF IInv, TypeOK
<1>7. \A u \in Slot : used'[u] /\ ~used[u] => ~unread'[u] /\ ~missed'[u]
  <2> TAKE u \in Slot
  <2> HAVE used'[u] /\ ~used[u]
  <2>1. u = v /\ ~Found(who, v) /\ v # None
    BY <1>2, SlotFacts
  <2> QED BY <1>1, <2>1 DEF IInv, TypeOK
<1>8. TypeOK'
  BY <1>0, <1>2, <1>4, <1>5 DEF IInv, TypeOK, LayoutOK
<1>9. KeysAreTheOpenViews' /\ ShowingIsOpen'
  BY <1>0, <1>2, <1>3, <1>4 DEF LayoutOK, ShowingIsOpen
<1>10. LiveIsRedraw'
  BY <1>0, <1>2, <1>3 DEF IInv, LiveIsRedraw, Window
<1>11. Stars'
  <2>1. ~unread[view_active] /\ (back[view_active] = 0 => ~missed[view_active])
    BY DEF IInv, Stars
  <2>2. ~unread'[view_active'] /\ (back'[view_active'] = 0 => ~missed'[view_active'])
    BY <1>0, <1>2, <1>3, <1>6, <2>1
  <2>3. \A u \in Slot : used'[u] /\ back'[u] = 0 => (unread'[u] <=> missed'[u])
    <3> TAKE u \in Slot
    <3>1. CASE used[u]
      BY <1>0, <1>2, <1>6, <3>1, QuietFacts
    <3>2. CASE ~used[u]
      BY <1>7, <3>2
    <3> QED BY <3>1, <3>2
  <2> QED BY <2>2, <2>3 DEF Stars
<1> QED BY <1>8, <1>9, <1>10, <1>11 DEF IInv

\* /join and /query keep the invariant.
LEMMA TypedOpenStep ==
  ASSUME IInv, NEW n \in Name, NEW rows \in 1..MaxWrap, TypedOpen(n, rows)
  PROVE  IInv'
<1>0. Quiet
  BY DEF TypedOpen
<1>1. PICK v \in Slot \cup {None} :
         /\ view_for(n, v, AtNewest)
         /\ IF v # None
              THEN view_show(v, SeenNow) /\ UNCHANGED saying
              ELSE /\ screen' = NewestRows
                   /\ missed' = SeenNow
                   /\ UNCHANGED <<view_active, unread>>
                   /\ StartLine(view_active, rows, FALSE)
  BY DEF TypedOpen
<1>2. /\ \A u \in Slot : used[u] => used'[u]
      /\ v = None => used' = used /\ kept' = kept /\ back' = AtNewest
  <2>1. view_for(n, v, AtNewest) /\ AtNewest \in [Slot -> Nat]
    BY <1>0, <1>1, QuietFacts
  <2>2. /\ \A u \in Slot : used[u] => used'[u] /\ kept'[u] = kept[u] /\ back'[u] = AtNewest[u]
        /\ v = None => used' = used /\ kept' = kept /\ back' = AtNewest
    BY <2>1, ViewForEffect
  <2> QED BY <2>2
<1>3. CASE v # None
  <2>1. v \in Slot /\ view_for(n, v, AtNewest) /\ view_show(v, SeenNow) /\ saying' = saying
    BY <1>1, <1>3
  <2>2. saying' \in Line /\ used'[saying'.v]
    BY <1>0, <1>2, <2>1, QuietFacts, SlotFacts DEF Quiet, Silent
  <2>3. \A u \in Slot : used[u] /\ AtNewest[u] = 0 => (unread[u] <=> SeenNow[u])
    <3>1. ~unread[view_active]
      BY DEF IInv, Stars
    <3> TAKE u \in Slot
    <3>2. CASE u = view_active
      BY <1>0, <3>1, <3>2, QuietFacts
    <3>3. CASE u # view_active
      BY <1>0, <3>3, QuietFacts
    <3> QED BY <3>2, <3>3
  <2> QED BY <1>0, <2>1, <2>2, <2>3, QuietFacts, OpenAndShow
<1>4. CASE v = None
  <2>1. /\ screen' = NewestRows /\ missed' = SeenNow
        /\ UNCHANGED <<view_active, unread>>
        /\ StartLine(view_active, rows, FALSE)
    BY <1>1, <1>4
  <2>2. UNCHANGED <<layout, kept>> /\ back' = AtNewest
    BY <1>1, <1>4 DEF view_for
  <2>3. used'[Status]
    BY <1>0, <1>2, QuietFacts, SlotFacts
  <2>4. saying' \in Line /\ used'[saying'.v]
    BY <2>1, <2>3, StartLineEffect
  <2> QED BY <1>0, <2>1, <2>2, <2>4, TypedLineStep
<1> QED BY <1>3, <1>4

\* The slash commands that close a view, empty one or only answer.
LEMMA TypedStep ==
  ASSUME IInv,
         \/ \E rows \in 1..MaxWrap : TypedClose(rows) \/ \E v \in Slot : TypedLine(v, rows)
         \/ \E chan \in Channel : TypedPart(chan)
         \/ TypedClear
  PROVE  IInv'
<1>1. ASSUME NEW rows \in 1..MaxWrap, TypedClose(rows)
      PROVE  IInv'
  <2>0. Quiet
    BY <1>1 DEF TypedClose
  <2>1. CASE view_active # Status /\ name[view_active] \notin Channel
    BY <1>1, <2>0, <2>1, QuietFacts, TypedCloseStep DEF TypedClose
  <2>2. CASE ~(view_active # Status /\ name[view_active] \notin Channel)
    <3>1. /\ back' = AtNewest /\ screen' = NewestRows /\ missed' = SeenNow
          /\ UNCHANGED <<layout, unread, view_active, kept>>
          /\ StartLine(view_active, rows, FALSE)
      BY <1>1, <2>2 DEF TypedClose
    <3>2. saying' \in Line /\ used'[saying'.v]
      BY <2>0, <3>1, QuietFacts, StartLineEffect DEF layout
    <3> QED BY <2>0, <3>1, <3>2, TypedLineStep
  <2> QED BY <2>1, <2>2
<1>2. ASSUME NEW rows \in 1..MaxWrap, NEW v \in Slot, TypedLine(v, rows)
      PROVE  IInv'
  <2>1. /\ Quiet /\ back' = AtNewest /\ screen' = NewestRows /\ missed' = SeenNow
        /\ UNCHANGED <<layout, unread, view_active, kept>>
        /\ StartLine(v, rows, FALSE)
    BY <1>2 DEF TypedLine
  <2>2. saying' \in Line /\ used'[saying'.v]
    BY <2>1, QuietFacts, StartLineEffect DEF layout
  <2> QED BY <2>1, <2>2, TypedLineStep
<1>3. ASSUME NEW chan \in Channel, TypedPart(chan)
      PROVE  IInv'
  <2>1. PICK v \in Slot \cup {None} : view_close(v, AtNewest, NewestRows, SeenNow)
    BY <1>3 DEF TypedPart
  <2> QED BY <1>3, <2>1, TypedCloseStep DEF TypedPart
<1>4. ASSUME TypedClear
      PROVE  IInv'
  <2>0. Quiet
    BY <1>4 DEF TypedClear
  <2> USE <2>0, QuietFacts
  <2>1. /\ back' = AtNewest /\ kept' = [kept EXCEPT ![view_active] = <<>>]
        /\ view_show(view_active, SeenNow) /\ UNCHANGED <<layout, saying>>
    BY <1>4 DEF TypedClear
  <2>2. kept' \in [Slot -> Seq(Row)] /\ \A u \in Slot : Len(kept'[u]) <= Ring
    <3>1. <<>> \in Seq(Row) /\ Len(<<>>) <= Ring
      BY SlotFacts
    <3> QED BY <2>1, <3>1 DEF IInv, TypeOK
  <2>3. LayoutOK'
    BY <2>1, LayoutOfIInv DEF LayoutOK, layout, KeysAreTheOpenViews
  <2>4. \A u \in Slot : u # view_active /\ used'[u] /\ back'[u] = 0 => (unread[u] <=> SeenNow[u])
    BY <2>1 DEF layout
  <2>5. saying' \in Line /\ used'[saying'.v] /\ used'[view_active] /\ back' \in [Slot -> Nat]
    BY <2>1 DEF layout
  <2> QED BY <2>1, <2>2, <2>3, <2>4, <2>5, ShowStep
<1> QED BY <1>1, <1>2, <1>3, <1>4

\* The keys that show a view, and a new session.
LEMMA KeyStep ==
  ASSUME IInv,
         \/ \E pos \in Slot : FunctionKey(pos)
         \/ \E v \in {Status, view_active} : ShowAgain(v)
  PROVE  IInv'
<1>1. PICK v \in Slot : used[v] /\ Quiet /\ UNCHANGED <<layout, back, kept, saying>> /\ view_show(v, missed)
  <2>1. ASSUME NEW pos \in Slot, FunctionKey(pos)
        PROVE  view_at(pos) \in Slot /\ used[view_at(pos)]
    <3>1. pos \in 0..(positions - 1) /\ view_at(pos) = order[pos]
      BY <2>1, ViewsAssumption DEF FunctionKey, view_at, IInv, TypeOK, Slot
    <3>2. order[pos] \in Slot
      BY DEF IInv, TypeOK
    <3> QED BY <3>1, <3>2 DEF IInv, KeysAreTheOpenViews
  <2>2. ASSUME NEW v \in {Status, view_active}, ShowAgain(v)
        PROVE  v \in Slot /\ used[v]
    BY <2>2, QuietFacts, SlotFacts DEF ShowAgain
  <2>3. ASSUME NEW pos \in Slot, FunctionKey(pos)
        PROVE  Quiet /\ UNCHANGED <<layout, back, kept, saying>> /\ view_show(view_at(pos), missed)
    BY <2>3 DEF FunctionKey
  <2>4. ASSUME NEW v \in {Status, view_active}, ShowAgain(v)
        PROVE  Quiet /\ UNCHANGED <<layout, back, kept, saying>> /\ view_show(v, missed)
    BY <2>4 DEF ShowAgain
  <2> QED BY <2>1, <2>2, <2>3, <2>4
<1>2. LayoutOK'
  BY <1>1, LayoutOfIInv DEF LayoutOK, layout, KeysAreTheOpenViews
<1>3. /\ back' \in [Slot -> Nat] /\ kept' \in [Slot -> Seq(Row)]
      /\ \A u \in Slot : Len(kept'[u]) <= Ring
      /\ missed \in [Slot -> BOOLEAN]
  BY <1>1 DEF IInv, TypeOK
<1>4. used'[v] /\ saying' \in Line /\ used'[saying'.v]
  BY <1>1, QuietFacts DEF layout
<1>5. \A u \in Slot : u # v /\ used'[u] /\ back'[u] = 0 => (unread[u] <=> missed[u])
  BY <1>1, QuietFacts DEF layout
<1> QED BY <1>1, <1>2, <1>3, <1>4, <1>5, ShowStep

\* The scroll keys keep the invariant.
LEMMA ScrollStep ==
  ASSUME IInv, NEW rows \in Int, Scroll(rows)
  PROVE  IInv'
<1> DEFINE a == view_active
<1>0. /\ Quiet /\ back' = [back EXCEPT ![a] = ScrollTo(rows)]
      /\ screen' = Window(kept[a], back'[a])
      /\ missed' = SeenIfAtNewest(missed, a)
      /\ UNCHANGED <<layout, unread, view_active, kept, saying>>
  BY DEF Scroll, view_scroll
<1>1. a \in Slot /\ kept[a] \in Seq(Row) /\ back[a] \in Nat
  BY DEF IInv, TypeOK
<1>2. ScrollTo(rows) \in Nat
  <2>1. Len(kept[a]) \in Nat /\ Rows \in Nat
    BY <1>1, ViewsAssumption
  <2> QED BY <1>1, <2>1 DEF ScrollTo
<1>3. back' \in [Slot -> Nat] /\ \A u \in Slot : u # a => back'[u] = back[u]
  BY <1>0, <1>1, <1>2 DEF IInv, TypeOK
<1>4. screen' \in [1..Rows -> Row \cup {Blank}]
  BY <1>0, <1>1, <1>3, WindowType
<1>5. /\ missed' \in [Slot -> BOOLEAN]
      /\ back'[a] = 0 => ~missed'[a]
      /\ \A u \in Slot : u # a => missed'[u] = missed[u]
  <2>1. missed' = [missed EXCEPT ![a] = missed[a] /\ back'[a] # 0]
    BY <1>0 DEF SeenIfAtNewest
  <2> QED BY <1>1, <2>1 DEF IInv, TypeOK
<1>6. TypeOK'
  BY <1>0, <1>3, <1>4, <1>5 DEF IInv, TypeOK, layout
<1>7. KeysAreTheOpenViews' /\ ShowingIsOpen'
  BY <1>0 DEF IInv, KeysAreTheOpenViews, ShowingIsOpen, layout
<1>8. LiveIsRedraw'
  BY <1>0 DEF LiveIsRedraw, Window
<1>9. Stars'
  <2>1. ~unread[a]
    BY DEF IInv, Stars
  <2>2. \A u \in Slot : used[u] /\ back[u] = 0 => (unread[u] <=> missed[u])
    BY <1>0, QuietFacts
  <2> QED BY <1>0, <1>3, <1>5, <2>1, <2>2 DEF Stars, layout
<1> QED BY <1>6, <1>7, <1>8, <1>9 DEF IInv

\* A new session starts from the status view alone.
LEMMA ViewInitStep ==
  ASSUME IInv, view_init
  PROVE  IInv'
<1>1. Quiet /\ UNCHANGED <<back, saying>> /\ view_show(Status, [v \in Slot |-> FALSE])
  BY DEF view_init
<1>2. /\ used' = [v \in Slot |-> v = Status] /\ positions' = 1
      /\ order' = [order EXCEPT ![0] = Status] /\ name' = [name EXCEPT ![Status] = StatusName]
      /\ kept' = [v \in Slot |-> <<>>]
  BY DEF view_init
<1>3. LayoutOK'
  <2>1. order'[0] = Status /\ order' \in [Slot -> Slot]
    BY <1>2, SlotFacts DEF IInv, TypeOK, Status
  <2>2. used' \in [Slot -> BOOLEAN] /\ positions' \in 1..ViewMax
    BY <1>2, ViewsAssumption
  <2>6. name' \in [Slot -> Name \cup {StatusName}]
    BY <1>2 DEF IInv, TypeOK
  <2>3. positions' - 1 = 0 /\ 0..0 = {0}
    BY <1>2
  <2>4. \A v \in Slot : used'[v] <=> v = Status
    BY <1>2
  <2>5. KeysAreTheOpenViews'
    BY <2>1, <2>3, <2>4 DEF KeysAreTheOpenViews
  <2> QED BY <2>1, <2>2, <2>5, <2>6 DEF LayoutOK
<1>4. kept' \in [Slot -> Seq(Row)] /\ \A u \in Slot : Len(kept'[u]) <= Ring
  BY <1>2, SlotFacts
<1>5. back' \in [Slot -> Nat] /\ used'[Status] /\ saying' \in Line /\ used'[saying'.v]
  <2>1. saying' = saying /\ back' = back /\ saying.v = Status
    BY <1>1 DEF Quiet, Silent
  <2> QED BY <1>2, <2>1, SlotFacts DEF IInv, TypeOK
<1>6. [v \in Slot |-> FALSE] \in [Slot -> BOOLEAN]
  OBVIOUS
<1>7. \A u \in Slot : u # Status => ~used'[u]
  BY <1>2
<1> QED BY <1>1, <1>3, <1>4, <1>5, <1>6, <1>7, SlotFacts, ShowStep

-----------------------------------------------------------------------------
(* The theorems *)

\* The first session starts in the invariant.
LEMMA InitIInv == Init => IInv
<1> SUFFICES ASSUME Init PROVE IInv
  OBVIOUS
<1>1. LayoutOK
  <2>1. order[0] = Status /\ order \in [Slot -> Slot] /\ positions = 1
    BY SlotFacts DEF Init, Status
  <2>2. /\ used \in [Slot -> BOOLEAN] /\ name \in [Slot -> Name \cup {StatusName}]
        /\ positions \in 1..ViewMax
    BY ViewsAssumption DEF Init
  <2>3. positions - 1 = 0 /\ 0..0 = {0}
    BY <2>1
  <2>4. \A v \in Slot : used[v] <=> v = Status
    BY DEF Init
  <2>5. KeysAreTheOpenViews
    BY <2>1, <2>3, <2>4 DEF KeysAreTheOpenViews
  <2> QED BY <2>1, <2>2, <2>5 DEF LayoutOK
<1>2. saying \in Line /\ used[saying.v] /\ used[view_active] /\ saying.left = 0
  <2>1. 0 \in 0..MaxWrap
    BY ViewsAssumption
  <2> QED BY <2>1, SlotFacts DEF Init, Silent, Line
<1>3. /\ kept \in [Slot -> Seq(Row)] /\ \A v \in Slot : Len(kept[v]) <= Ring
      /\ screen \in [1..Rows -> Row \cup {Blank}]
  BY SlotFacts DEF Init
<1>4. TypeOK
  BY <1>1, <1>2, <1>3, SlotFacts DEF Init, TypeOK, LayoutOK
<1>5. LiveIsRedraw
  <2>1. kept[Status] = <<>> /\ view_active = Status /\ screen = [p \in 1..Rows |-> Blank]
    BY SlotFacts DEF Init
  <2>2. Window(<<>>, 0) = [p \in 1..Rows |-> Blank]
    BY ViewsAssumption DEF Window
  <2>3. Window(kept[view_active], 0) = screen
    BY <2>1, <2>2
  <2> QED BY <2>3 DEF LiveIsRedraw
<1>6. Stars
  BY SlotFacts DEF Init, Stars
<1> QED BY <1>1, <1>2, <1>4, <1>5, <1>6 DEF IInv, LayoutOK, ShowingIsOpen

\* Every step keeps it.
LEMMA NextIInv == IInv /\ [Next]_vars => IInv'
<1> SUFFICES ASSUME IInv, [Next]_vars PROVE IInv'
  OBVIOUS
<1>1. CASE UNCHANGED vars
  <2>1. TypeOK'
    BY <1>1 DEF vars, IInv, TypeOK
  <2>2. KeysAreTheOpenViews' /\ ShowingIsOpen'
    BY <1>1 DEF vars, IInv, KeysAreTheOpenViews, ShowingIsOpen
  <2>3. LiveIsRedraw'
    BY <1>1 DEF vars, IInv, LiveIsRedraw, Window
  <2>4. Stars'
    BY <1>1 DEF vars, IInv, Stars
  <2> QED BY <2>1, <2>2, <2>3, <2>4 DEF IInv
<1>2. ASSUME NEW rows \in 1..MaxWrap, NEW v \in Slot \cup {None}, Say(v, rows)
      PROVE  IInv'
  BY <1>2, LineBegins DEF Say
<1>3. ASSUME NEW rows \in 1..MaxWrap, NEW chan \in Channel, JoinEcho(chan, rows)
      PROVE  IInv'
  BY <1>3, JoinEchoStep
<1>4. ASSUME NEW rows \in 1..MaxWrap, NEW chan \in Channel, PartEcho(chan, rows)
      PROVE  IInv'
  <2>1. PICK v \in Slot \cup {None} : StartLine(v, rows, TRUE)
    BY <1>4 DEF PartEcho
  <2> QED BY <1>4, <2>1, LineBegins DEF PartEcho
<1>5. ASSUME NEW who \in Name \ Channel, NEW rows \in 0..MaxWrap, PrivateMessage(who, rows)
      PROVE  IInv'
  BY <1>5, PrivateMessageStep
<1>6. CASE Server
  <2>1. CASE \E who \in Name \ Channel, rows \in 0..MaxWrap : PrivateMessage(who, rows)
    BY <2>1, <1>5
  <2>2. CASE \E rows \in 1..MaxWrap : \E v \in Slot \cup {None} : Say(v, rows)
    BY <2>2, <1>2
  <2>3. CASE \E rows \in 1..MaxWrap : \E chan \in Channel : JoinEcho(chan, rows) \/ PartEcho(chan, rows)
    BY <2>3, <1>3, <1>4
  <2> QED BY <1>6, <2>1, <2>2, <2>3 DEF Server
<1>7. CASE User
  <2>1. ASSUME NEW rows \in 1..MaxWrap, NEW n \in Name, TypedOpen(n, rows)
        PROVE  IInv'
    BY <2>1, TypedOpenStep
  <2>2. ASSUME NEW rows \in {Rows - 2, 2 - Rows, 0}, Scroll(rows)
        PROVE  IInv'
    <3>1. rows \in Int
      BY ViewsAssumption
    <3> QED BY <2>2, <3>1, ScrollStep
  <2>3. ASSUME NEW rows \in 1..MaxWrap, NEW chan \in Channel, AutoJoin(chan, rows)
        PROVE  IInv'
    BY <2>3, AutoJoinStep
  <2> QED BY <1>7, <2>1, <2>2, <2>3, TypedStep, KeyStep, ViewInitStep DEF User
<1>8. CASE Saying
  BY <1>8, RowStep, LineCloseStep DEF Saying
<1> QED BY <1>1, <1>6, <1>7, <1>8 DEF Next

\* So it always holds.
LEMMA Inductive == Spec => []IInv
  BY InitIInv, NextIInv, PTL DEF Spec

\* The variables keep their types: no slot, key position or scroll position out
\* of range, no log longer than the ring.
THEOREM TypeCorrect == Spec => []TypeOK
<1>1. IInv => TypeOK
  BY DEF IInv
<1> QED BY <1>1, Inductive, PTL

\* In every session, whatever opens and closes, the key positions hold exactly
\* the open views, each once, the status view on F1 (view.c, order).
THEOREM KeysNeverSkip == Spec => []KeysAreTheOpenViews
<1>1. IInv => KeysAreTheOpenViews
  BY DEF IInv
<1> QED BY <1>1, Inductive, PTL

\* The screen of a view at its newest row is always what a redraw from the log
\* would draw (view.c, live_row and redraw).
THEOREM ScreenIsTheLog == Spec => []LiveIsRedraw
<1>1. IInv => LiveIsRedraw
  BY DEF IInv
<1> QED BY <1>1, Inductive, PTL

\* The view that is showing, and the one a line is being written to, are open.
THEOREM ShowingStaysOpen == Spec => []ShowingIsOpen
<1>1. IInv => ShowingIsOpen
  BY DEF IInv
<1> QED BY <1>1, Inductive, PTL

\* An open view at its newest row is starred on the bar exactly when it has
\* rows that were not on the screen (view.c, unread).
THEOREM StarsAreRight == Spec => []StarredIffMissed
<1>1. IInv => StarredIffMissed
  BY DEF IInv, Stars, StarredIffMissed, Quiet, Silent
<1> QED BY <1>1, Inductive, PTL

-----------------------------------------------------------------------------
(* How far a channel's view can be scrolled back, and when two open views can *)
(* have one name.  Neither needs anything of the other views, so a step is    *)
(* looked at as what it does to one slot that is open after it.               *)

\* The most a log can be scrolled back: its oldest row at the top of the area.
Most(k) == IF Len(k) > Rows THEN Len(k) - Rows ELSE 0

\* A step scrolls an open channel's view no further than its log allows: to its
\* newest row, or within the log, or not at all while the log loses no row.
ScrollSteady ==
  \A u \in Slot \ {Status} : used'[u] =>
    \/ back'[u] = 0
    \/ back'[u] <= Most(kept'[u])
    \/ used[u] /\ back'[u] = back[u] /\ Len(kept'[u]) >= Len(kept[u])

\* A step leaves the views that stay open their names and opens none.
NamesSteady == \A u \in Slot \ {Status} : used'[u] => used[u] /\ name'[u] = name[u]

-----------------------------------------------------------------------------
(* What a step that is steady keeps *)

LEMMA ScrollSteadyKeeps ==
  ASSUME TypeOK, TypeOK', ChannelScrollWithinLog, ScrollSteady
  PROVE  ChannelScrollWithinLog'
<1> SUFFICES ASSUME NEW u \in Slot \ {Status}, used'[u]
             PROVE  back'[u] <= Most(kept'[u])
  BY DEF ChannelScrollWithinLog, Most
<1>1. Rows \in Nat /\ Len(kept[u]) \in Nat /\ Len(kept'[u]) \in Nat /\ back'[u] \in Nat
  BY ViewsAssumption DEF TypeOK
<1>2. CASE back'[u] = 0
  BY <1>1, <1>2 DEF Most
<1>3. CASE back'[u] <= Most(kept'[u])
  BY <1>3
<1>4. CASE used[u] /\ back'[u] = back[u] /\ Len(kept'[u]) >= Len(kept[u])
  <2>1. back[u] <= Most(kept[u])
    BY <1>4 DEF ChannelScrollWithinLog, Most
  <2> QED BY <1>1, <1>4, <2>1 DEF Most
<1> QED BY <1>2, <1>3, <1>4 DEF ScrollSteady

LEMMA NamesSteadyKeeps ==
  ASSUME OneViewPerName, NamesSteady
  PROVE  OneViewPerName'
  BY DEF OneViewPerName, NamesSteady

-----------------------------------------------------------------------------
(* What the callers of view_for and view_close rely on *)

\* A view that was open keeps its log, its scroll position is the one given;
\* one that is opened is at its newest row.
LEMMA ViewForScroll ==
  ASSUME IInv, NEW n \in Name, NEW v \in Slot \cup {None}, NEW b \in [Slot -> Nat],
         view_for(n, v, b), NEW u \in Slot, used'[u]
  PROVE  back'[u] = 0 \/ (used[u] /\ back'[u] = b[u] /\ kept'[u] = kept[u])
<1>1. CASE back' = b /\ UNCHANGED <<layout, kept>>
  BY <1>1 DEF layout
<1>2. CASE FirstFree(v) /\ v # None /\ view_open(n, v, b)
  <2>1. v \in Slot
    BY <1>2 DEF FirstFree, FreeSlots
  <2>2. CASE u = v
    BY <1>2, <2>1, <2>2 DEF view_open
  <2>3. CASE u # v
    BY <1>2, <2>1, <2>3 DEF view_open, IInv, TypeOK
  <2> QED BY <2>2, <2>3
<1> QED BY <1>1, <1>2 DEF view_for

\* With the scroll positions as they are, or the showing view's at its newest.
LEMMA ViewForSteady ==
  ASSUME IInv, NEW n \in Name, NEW v \in Slot \cup {None},
         view_for(n, v, back) \/ view_for(n, v, AtNewest)
  PROVE  ScrollSteady
<1> SUFFICES ASSUME NEW u \in Slot \ {Status}, used'[u]
             PROVE  \/ back'[u] = 0
                    \/ used[u] /\ back'[u] = back[u] /\ Len(kept'[u]) >= Len(kept[u])
  BY DEF ScrollSteady
<1>1. /\ back \in [Slot -> Nat] /\ AtNewest \in [Slot -> Nat]
      /\ AtNewest[u] = back[u] \/ AtNewest[u] = 0
      /\ Len(kept[u]) \in Nat
  BY DEF IInv, TypeOK, AtNewest
<1>2. CASE view_for(n, v, back)
  <2>1. back'[u] = 0 \/ (used[u] /\ back'[u] = back[u] /\ kept'[u] = kept[u])
    BY <1>1, <1>2, ViewForScroll
  <2> QED BY <1>1, <2>1
<1>3. CASE view_for(n, v, AtNewest)
  <2>1. back'[u] = 0 \/ (used[u] /\ back'[u] = AtNewest[u] /\ kept'[u] = kept[u])
    BY <1>1, <1>3, ViewForScroll
  <2> QED BY <1>1, <2>1
<1> QED BY <1>2, <1>3

\* A view is opened only under a name no open view has, in either case.
LEMMA ViewForNames ==
  ASSUME IInv, OneViewPerName, \A m \in Name : Fold[Cut[m]] = Fold[m],
         NEW n \in Name, NEW v \in Slot \cup {None}, NEW b, view_for(n, v, b)
  PROVE  OneViewPerName'
<1>1. CASE UNCHANGED <<layout, kept>>
  BY <1>1 DEF layout, OneViewPerName
<1>2. CASE Found(n, None) /\ FirstFree(v) /\ v # None /\ view_open(n, v, b)
  <2>1. v \in Slot \ {Status} /\ ~used[v]
    BY <1>2 DEF FirstFree, FreeSlots
  <2>2. \A u \in Slot \ {Status} : used[u] => Fold[name[u]] # Fold[n]
    BY <1>2, SlotFacts DEF Found, Named
  <2>3. /\ Fold[name'[v]] = Fold[n]
        /\ \A u \in Slot \ {Status} : u # v => used'[u] = used[u] /\ name'[u] = name[u]
    BY <1>2, <2>1 DEF view_open, IInv, TypeOK
  <2> QED BY <2>1, <2>2, <2>3 DEF OneViewPerName
<1> QED BY <1>1, <1>2 DEF view_for

\* Closing a view opens none, and names and logs stay.
LEMMA ViewCloseSteady ==
  ASSUME IInv, NEW v \in Slot \cup {None}, NEW s, NEW m \in [Slot -> BOOLEAN],
         view_close(v, back, s, m) \/ view_close(v, AtNewest, s, m)
  PROVE  ScrollSteady /\ NamesSteady
<1>1. back \in [Slot -> Nat] /\ AtNewest \in [Slot -> Nat]
  BY DEF IInv, TypeOK, AtNewest
<1>2. /\ kept' = kept /\ name' = name /\ (back' = back \/ back' = AtNewest)
      /\ \A u \in Slot : used'[u] => used[u]
  <2>1. CASE view_close(v, back, s, m)
    BY <1>1, <2>1, ViewCloseEffect DEF view_close
  <2>2. CASE view_close(v, AtNewest, s, m)
    BY <1>1, <2>2, ViewCloseEffect DEF view_close
  <2> QED BY <2>1, <2>2
<1>3. \A u \in Slot : Len(kept[u]) \in Nat /\ (AtNewest[u] = back[u] \/ AtNewest[u] = 0)
  BY DEF IInv, TypeOK, AtNewest
<1> QED BY <1>2, <1>3 DEF ScrollSteady, NamesSteady

\* A step that opens and closes nothing, and keeps or resets scroll positions.
LEMMA StaySteady ==
  ASSUME IInv, UNCHANGED <<layout, kept>>, back' = back \/ back' = AtNewest
  PROVE  ScrollSteady /\ NamesSteady
<1>1. \A u \in Slot : Len(kept[u]) \in Nat /\ (AtNewest[u] = back[u] \/ AtNewest[u] = 0)
  BY DEF IInv, TypeOK, AtNewest
<1> QED BY <1>1 DEF layout, ScrollSteady, NamesSteady

-----------------------------------------------------------------------------
(* Every step looks for a view by its name or is steady *)

LooksForAView ==
  \E n \in Name, v \in Slot \cup {None} : view_for(n, v, back) \/ view_for(n, v, AtNewest)

\* The lines from the server.
LEMMA ServerSteps ==
  ASSUME IInv, Server
  PROVE  LooksForAView \/ (ScrollSteady /\ NamesSteady)
<1>1. ASSUME NEW who \in Name \ Channel, NEW rows \in 0..MaxWrap, PrivateMessage(who, rows)
      PROVE  LooksForAView
  BY <1>1 DEF PrivateMessage, LooksForAView
<1>2. ASSUME NEW rows \in 1..MaxWrap, NEW v \in Slot \cup {None}, Say(v, rows)
      PROVE  ScrollSteady /\ NamesSteady
  BY <1>2, StaySteady DEF Say
<1>3. ASSUME NEW rows \in 1..MaxWrap, NEW chan \in Channel, JoinEcho(chan, rows)
      PROVE  LooksForAView
  BY <1>3, ViewsAssumption DEF JoinEcho, LooksForAView
<1>4. ASSUME NEW rows \in 1..MaxWrap, NEW chan \in Channel, PartEcho(chan, rows)
      PROVE  ScrollSteady /\ NamesSteady
  BY <1>4, StaySteady DEF PartEcho
<1> QED BY <1>1, <1>2, <1>3, <1>4 DEF Server

\* What is typed.
LEMMA TypedSteps ==
  ASSUME IInv,
         \/ \E rows \in 1..MaxWrap :
              \/ \E n \in Name : TypedOpen(n, rows)
              \/ TypedClose(rows)
              \/ \E v \in Slot : TypedLine(v, rows)
         \/ \E chan \in Channel : TypedPart(chan)
         \/ TypedClear
  PROVE  LooksForAView \/ (ScrollSteady /\ NamesSteady)
<1>0. SeenNow \in [Slot -> BOOLEAN] /\ view_active \in Slot
  BY DEF IInv, TypeOK, SeenNow
<1>1. ASSUME NEW rows \in 1..MaxWrap, NEW n \in Name, TypedOpen(n, rows)
      PROVE  LooksForAView
  BY <1>1 DEF TypedOpen, LooksForAView
<1>2. ASSUME NEW rows \in 1..MaxWrap, TypedClose(rows)
      PROVE  ScrollSteady /\ NamesSteady
  <2>1. CASE view_close(view_active, AtNewest, NewestRows, SeenNow)
    BY <1>0, <2>1, ViewCloseSteady
  <2>2. CASE back' = AtNewest /\ UNCHANGED <<layout, unread, view_active, kept>>
    BY <2>2, StaySteady
  <2> QED BY <1>2, <2>1, <2>2 DEF TypedClose
<1>3. ASSUME NEW rows \in 1..MaxWrap, NEW v \in Slot, TypedLine(v, rows)
      PROVE  ScrollSteady /\ NamesSteady
  BY <1>3, StaySteady DEF TypedLine
<1>4. ASSUME NEW chan \in Channel, TypedPart(chan)
      PROVE  ScrollSteady /\ NamesSteady
  <2>1. PICK v \in Slot \cup {None} : view_close(v, AtNewest, NewestRows, SeenNow)
    BY <1>4 DEF TypedPart
  <2> QED BY <1>0, <2>1, ViewCloseSteady
<1>5. ASSUME TypedClear
      PROVE  ScrollSteady /\ NamesSteady
  <2>1. back' = AtNewest /\ kept' = [kept EXCEPT ![view_active] = <<>>] /\ UNCHANGED layout
    BY <1>5 DEF TypedClear
  <2>2. ASSUME NEW u \in Slot
        PROVE  back'[u] = 0 \/ (back'[u] = back[u] /\ kept'[u] = kept[u] /\ Len(kept[u]) \in Nat)
    BY <1>0, <2>1 DEF IInv, TypeOK, AtNewest
  <2> QED BY <2>1, <2>2 DEF layout, ScrollSteady, NamesSteady
<1> QED BY <1>1, <1>2, <1>3, <1>4, <1>5

\* A page of scrolling stops at the oldest row.
LEMMA ScrollSteps ==
  ASSUME IInv, NEW rows \in Int, Scroll(rows)
  PROVE  ScrollSteady /\ NamesSteady
<1>1. view_active \in Slot /\ back \in [Slot -> Nat] /\ kept \in [Slot -> Seq(Row)] /\ Rows \in Nat
  BY ViewsAssumption DEF IInv, TypeOK
<1>2. /\ back' = [back EXCEPT ![view_active] = ScrollTo(rows)]
      /\ kept' = kept /\ used' = used /\ name' = name
  BY DEF Scroll, view_scroll, layout
<1>3. ScrollTo(rows) <= Most(kept[view_active])
  BY <1>1 DEF ScrollTo, Most
<1>4. ASSUME NEW u \in Slot
      PROVE  back'[u] <= Most(kept'[u]) \/ (back'[u] = back[u] /\ Len(kept'[u]) >= Len(kept[u]))
  BY <1>1, <1>2, <1>3
<1> QED BY <1>2, <1>4 DEF ScrollSteady, NamesSteady

\* The session's keys and events.
LEMMA KeySteps ==
  ASSUME IInv,
         \/ \E rows \in 1..MaxWrap, chan \in Channel : AutoJoin(chan, rows)
         \/ \E pos \in Slot : FunctionKey(pos)
         \/ \E rows \in {Rows - 2, 2 - Rows, 0} : Scroll(rows)
         \/ \E v \in {Status, view_active} : ShowAgain(v)
         \/ view_init
  PROVE  LooksForAView \/ (ScrollSteady /\ NamesSteady)
<1>1. ASSUME NEW rows \in 1..MaxWrap, NEW chan \in Channel, AutoJoin(chan, rows)
      PROVE  LooksForAView
  BY <1>1, ViewsAssumption DEF AutoJoin, LooksForAView
<1>2. ASSUME NEW pos \in Slot, FunctionKey(pos)
      PROVE  ScrollSteady /\ NamesSteady
  BY <1>2, StaySteady DEF FunctionKey
<1>3. ASSUME NEW rows \in {Rows - 2, 2 - Rows, 0}, Scroll(rows)
      PROVE  ScrollSteady /\ NamesSteady
  <2>1. rows \in Int
    BY ViewsAssumption
  <2> QED BY <1>3, <2>1, ScrollSteps
<1>4. ASSUME NEW v \in {Status, view_active}, ShowAgain(v)
      PROVE  ScrollSteady /\ NamesSteady
  BY <1>4, StaySteady DEF ShowAgain
<1>5. ASSUME view_init
      PROVE  ScrollSteady /\ NamesSteady
  <2>1. \A u \in Slot \ {Status} : ~used'[u]
    BY <1>5 DEF view_init
  <2> QED BY <2>1 DEF ScrollSteady, NamesSteady
<1> QED BY <1>1, <1>2, <1>3, <1>4, <1>5

\* A line being written.
LEMMA SayingSteps ==
  ASSUME IInv, Saying
  PROVE  ScrollSteady /\ NamesSteady
<1>0. saying.v \in Slot /\ missed \in [Slot -> BOOLEAN] /\ kept \in [Slot -> Seq(Row)] /\ Ring \in Nat
  BY ViewsAssumption DEF IInv, TypeOK, Line
<1>1. ASSUME NEW r \in Row, LineRow(r)
      PROVE  ScrollSteady /\ NamesSteady
  <2>1. kept' = [kept EXCEPT ![saying.v] = LogOf!Logged(kept[saying.v], r)] /\ UNCHANGED <<layout, back>>
    BY <1>1 DEF LineRow
  <2>2. ASSUME NEW k \in Seq(Row)
        PROVE  Len(LogOf!Logged(k, r)) >= Len(k)
    <3>1. CASE Len(k) < Ring
      BY <3>1 DEF LogOf!Logged
    <3>2. CASE ~(Len(k) < Ring)
      <4>1. k # <<>>
        BY <3>2, ViewsAssumption
      <4>2. Tail(k) \in Seq(Row) /\ Len(Tail(k)) = Len(k) - 1
        BY <4>1
      <4> QED BY <3>2, <4>2 DEF LogOf!Logged
    <3> QED BY <3>1, <3>2
  <2>3. \A u \in Slot : Len(kept'[u]) >= Len(kept[u])
    BY <1>0, <2>1, <2>2
  <2> QED BY <2>1, <2>3 DEF layout, ScrollSteady, NamesSteady
<1>2. ASSUME LineClose
      PROVE  ScrollSteady /\ NamesSteady
  BY <1>0, <1>2, ViewCloseSteady DEF LineClose
<1> QED BY <1>1, <1>2 DEF Saying

\* And so every step.
LEMMA Steps ==
  ASSUME IInv, [Next]_vars
  PROVE  LooksForAView \/ (ScrollSteady /\ NamesSteady)
<1>1. CASE UNCHANGED vars
  BY <1>1, StaySteady DEF vars, layout
<1>2. CASE Server
  BY <1>2, ServerSteps
<1>3. CASE User
  BY <1>3, TypedSteps, KeySteps DEF User
<1>4. CASE Saying
  BY <1>4, SayingSteps
<1> QED BY <1>1, <1>2, <1>3, <1>4 DEF Next

-----------------------------------------------------------------------------
(* The theorems *)

\* No channel's and no person's view is ever scrolled past its oldest row,
\* whatever is said, cleared, opened and closed while it is scrolled back
\* (view.c, view_scroll and view_open); the status view's position survives a
\* new session and is left out.
THEOREM ChannelsStayWithinTheirLogs == Spec => []ChannelScrollWithinLog
<1>1. Init => ChannelScrollWithinLog
  BY DEF Init, ChannelScrollWithinLog
<1>2. IInv /\ IInv' /\ ChannelScrollWithinLog /\ [Next]_vars => ChannelScrollWithinLog'
  <2> SUFFICES ASSUME IInv, IInv', ChannelScrollWithinLog, [Next]_vars
               PROVE  ChannelScrollWithinLog'
    OBVIOUS
  <2>1. ScrollSteady
    BY Steps, ViewForSteady DEF LooksForAView
  <2> QED BY <2>1, ScrollSteadyKeeps DEF IInv
<1> QED BY <1>1, <1>2, Inductive, PTL DEF Spec

\* When every name fits a slot (or is cut without becoming another, the case
\* apart), no two open views have one name: view_for opens a view only when
\* view_find has found none (view.c, ircc.c).
THEOREM NamesAreUnique ==
  ASSUME \A n \in Name : Fold[Cut[n]] = Fold[n]
  PROVE  Spec => []OneViewPerName
<1>1. Init => OneViewPerName
  BY DEF Init, OneViewPerName
<1>2. IInv /\ OneViewPerName /\ [Next]_vars => OneViewPerName'
  <2> SUFFICES ASSUME IInv, OneViewPerName, [Next]_vars
               PROVE  OneViewPerName'
    OBVIOUS
  <2>1. CASE NamesSteady
    BY <2>1, NamesSteadyKeeps
  <2>2. ASSUME NEW n \in Name, NEW v \in Slot \cup {None}, NEW b, view_for(n, v, b)
        PROVE  OneViewPerName'
    BY <2>2, ViewForNames
  <2> QED BY <2>1, <2>2, Steps DEF LooksForAView
<1> QED BY <1>1, <1>2, Inductive, PTL DEF Spec
=============================================================================

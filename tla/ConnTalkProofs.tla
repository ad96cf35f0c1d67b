--------------------------- MODULE ConnTalkProofs ---------------------------
(***************************************************************************)
(* What the client is handed, and what an honest server brings about: the  *)
(* lines are the server's, in its order and each once, whatever befell the *)
(* records on the way.                                                     *)
(***************************************************************************)
EXTENDS ConnProofs

-----------------------------------------------------------------------------
(* Lines handed over *)

\* Of the first k things in d, those that are taken for lines; and how many are.
Heading == {"line", "garbage"}
LinesIn(d, k) == {i \in 1..k : d[i][1] \in Heading}
Count(d) == Cardinality(LinesIn(d, Len(d)))

\* The n-th of them is the n-th line, and no more than m are.
AsSaid(d, k, m) ==
  \A i \in LinesIn(d, k) :
    /\ d[i] = <<"line", Cardinality(LinesIn(d, i))>>
    /\ Cardinality(LinesIn(d, i)) <= m

\* Handing over one thing more leaves the lines that were.
LEMMA LinesMore ==
  ASSUME NEW d \in Seq(Said), NEW x \in Said, NEW k \in 0..Len(d)
  PROVE  LinesIn(Append(d, x), k) = LinesIn(d, k)
<1>1. \A i \in 1..k : Append(d, x)[i] = d[i]
  OBVIOUS
<1> QED BY <1>1 DEF LinesIn

\* ... as they were said.
LEMMA AsSaidMore ==
  ASSUME NEW d \in Seq(Said), NEW x \in Said, NEW k \in 0..Len(d), NEW m \in Nat, NEW m1 \in Nat,
         m <= m1, AsSaid(d, k, m)
  PROVE  AsSaid(d, k, m1) /\ AsSaid(Append(d, x), k, m1)
<1>1. \A i \in 0..k : i \in 0..Len(d)
  OBVIOUS
<1>2. ASSUME NEW i \in LinesIn(d, k)
      PROVE  /\ i \in 1..k /\ LinesIn(Append(d, x), i) = LinesIn(d, i)
             /\ Append(d, x)[i] = d[i] /\ Cardinality(LinesIn(d, i)) <= m1
             /\ d[i] = <<"line", Cardinality(LinesIn(d, i))>>
  <2>1. i \in 1..k
    BY DEF LinesIn
  <2>2. /\ d[i] = <<"line", Cardinality(LinesIn(d, i))>>
        /\ Cardinality(LinesIn(d, i)) <= m
    BY DEF AsSaid
  <2>3. Cardinality(LinesIn(d, i)) \in Nat
    <3>1. IsFiniteSet(1..i) /\ LinesIn(d, i) \subseteq 1..i
      BY <2>1, FS_Interval DEF LinesIn
    <3>2. IsFiniteSet(LinesIn(d, i))
      BY <3>1, FS_Subset
    <3> QED BY <3>2, FS_CardinalityType
  <2>4. LinesIn(Append(d, x), i) = LinesIn(d, i)
    BY <1>1, <2>1, LinesMore
  <2>5. Append(d, x)[i] = d[i]
    BY <2>1
  <2>6. Cardinality(LinesIn(d, i)) <= m1
    BY <2>2, <2>3
  <2> QED BY <2>1, <2>2, <2>4, <2>5, <2>6
<1>3. LinesIn(Append(d, x), k) = LinesIn(d, k)
  BY LinesMore
<1> QED BY <1>2, <1>3 DEF AsSaid

\* One line more, or none.
LEMMA CountMore ==
  ASSUME NEW d \in Seq(Said), NEW x \in Said
  PROVE  /\ Count(d) \in Nat
         /\ x[1] \notin Heading => Count(Append(d, x)) = Count(d)
         /\ x[1] \in Heading => Count(Append(d, x)) = Count(d) + 1
<1> DEFINE e == Append(d, x)
<1>1. Len(d) \in Nat /\ Len(e) = Len(d) + 1 /\ e[Len(d) + 1] = x
      /\ \A i \in 1..Len(d) : e[i] = d[i]
  OBVIOUS
<1>2. LinesIn(e, Len(d)) = LinesIn(d, Len(d))
  BY <1>1, LinesMore
<1> HIDE DEF e
<1>3. IsFiniteSet(LinesIn(d, Len(d)))
  <2>1. IsFiniteSet(1..Len(d)) /\ LinesIn(d, Len(d)) \subseteq 1..Len(d)
    BY <1>1, FS_Interval DEF LinesIn
  <2> QED BY <2>1, FS_Subset
<1>4. Count(d) \in Nat
  BY <1>3, FS_CardinalityType DEF Count
<1>5. ASSUME x[1] \notin Heading PROVE Count(e) = Count(d)
  <2>1. LinesIn(e, Len(d) + 1) = LinesIn(e, Len(d))
    BY <1>1, <1>5 DEF LinesIn
  <2> QED BY <1>1, <1>2, <2>1 DEF Count
<1>6. ASSUME x[1] \in Heading PROVE Count(e) = Count(d) + 1
  <2>1. LinesIn(e, Len(d) + 1) = LinesIn(e, Len(d)) \cup {Len(d) + 1}
    BY <1>1, <1>6 DEF LinesIn
  <2>2. Len(d) + 1 \notin LinesIn(d, Len(d))
    BY <1>1 DEF LinesIn
  <2>3. Cardinality(LinesIn(d, Len(d)) \cup {Len(d) + 1}) = Cardinality(LinesIn(d, Len(d))) + 1
    BY <1>3, <2>2, FS_AddElement
  <2> QED BY <1>1, <1>2, <2>1, <2>3 DEF Count
<1> QED BY <1>4, <1>5, <1>6 DEF e

\* The next line handed over is as said.
LEMMA AsSaidOn ==
  ASSUME NEW d \in Seq(Said), NEW x \in Said, NEW m \in Nat, AsSaid(d, Len(d), m),
         x[1] \in Heading => x = <<"line", Count(d) + 1>> /\ Count(d) + 1 <= m
  PROVE  AsSaid(Append(d, x), Len(Append(d, x)), m)
<1> DEFINE e == Append(d, x)
<1>1. Len(d) \in Nat /\ Len(e) = Len(d) + 1 /\ e[Len(d) + 1] = x
  OBVIOUS
<1>2. AsSaid(e, Len(d), m)
  BY <1>1, AsSaidMore
<1>3. x[1] \in Heading => Count(e) = Count(d) + 1
  BY CountMore
<1> HIDE DEF e
<1>4. ASSUME NEW i \in LinesIn(e, Len(e))
      PROVE  e[i] = <<"line", Cardinality(LinesIn(e, i))>> /\ Cardinality(LinesIn(e, i)) <= m
  <2>1. i \in 1..Len(e) /\ e[i][1] \in Heading
    BY DEF LinesIn
  <2>2. CASE i = Len(e)
    <3>1. Cardinality(LinesIn(e, i)) = Count(d) + 1
      BY <1>1, <1>3, <2>1, <2>2 DEF Count
    <3> QED BY <1>1, <2>1, <2>2, <3>1
  <2>3. CASE i # Len(e)
    <3>1. i \in LinesIn(e, Len(d))
      BY <1>1, <2>1, <2>3 DEF LinesIn
    <3> QED BY <1>2, <3>1 DEF AsSaid
  <2> QED BY <2>2, <2>3
<1> QED BY <1>4 DEF AsSaid, e

-----------------------------------------------------------------------------
(* Lines on their way *)

\* A record, or what is left of it, hands over line c, the one after line a; or
\* it has none and c is a.
LineSteps ==
  {s \in Nat \X Records \X Nat :
     \/ s[3] = s[1] /\ \A i \in 1..Len(s[2].items) : s[2].items[i].m # "line"
     \/ /\ s[3] = s[1] + 1 /\ s[2].outer = "appdata" /\ Len(s[2].items) = 1
        /\ s[2].items[1].m = "line" /\ s[2].items[1].at = "data" /\ s[2].items[1].n = s[3]}

\* What was handed over, what is left of the record being read and what is on the
\* wire are the m lines the server said.
Follows(q, r, d, m) ==
  /\ AsSaid(d, Len(d), m)
  /\ \E c \in 0..m :
       /\ IF r = NoRec THEN c = Count(d) ELSE <<Count(d), r, c>> \in LineSteps
       /\ Way(q, 0, LineSteps, 0..m, c, m)

\* So it is while the client reads on, but in a record whose tag will not match.
Sound(r, on, p) == on /\ r.outer = "appdata" => r.good /\ r.key = p.key /\ r.seq = p.seq
Following == Reading /\ Sound(rec, rd_on, rd) => Follows(wire, rec, delivered, Len(srv.said))

InOrder == \A n \in 1..Len(srv.said) : srv.said[n] = <<"line", n>>
Talk == InOrder /\ AsSaid(delivered, kept, Len(srv.said)) /\ Following
LInv == CInv /\ Talk

\* The next state's is the next state's.
LEMMA FollowsLater ==
  Following' <=>
    (Reading' /\ Sound(rec', rd_on', rd') => Follows(wire', rec', delivered', Len(srv'.said)))
BY DEF Following, Sound, Follows, Way, LineSteps, AsSaid, LinesIn, Heading, Count, NoRec

\* A way is one among more places.
LEMMA WayWider ==
  ASSUME NEW q, NEW R, NEW P, NEW P1, P \subseteq P1, NEW a, NEW b, Way(q, 0, R, P, a, b)
  PROVE  Way(q, 0, R, P1, a, b)
BY DEF Way

\* What changes nothing of it.
LEMMA TalkSame ==
  ASSUME LInv, UNCHANGED <<wire, rec, delivered, kept, rd_on, rd>>, srv'.said = srv.said,
         Reading' => Reading
  PROVE  Talk'
<1>1. Following'
  BY FollowsLater DEF LInv, Talk, Following
<1>2. InOrder'
  BY DEF LInv, Talk, InOrder
<1>3. AsSaid(delivered, kept, Len(srv.said))'
  BY DEF LInv, Talk, AsSaid, LinesIn, Heading
<1> QED BY <1>1, <1>2, <1>3 DEF Talk

\* A record begun.
LEMMA StartTalk ==
  ASSUME LInv, ReadStart
  PROVE  Talk'
<1>1. /\ Reading /\ rec = NoRec /\ rec' = Head(wire) /\ wire # <<>> /\ wire' = Tail(wire)
      /\ UNCHANGED <<rd_on, rd, delivered, kept, srv>>
  BY DEF ReadStart, record_start, keys, data
<1>2. wire \in Seq(Records)
  BY DEF LInv, CInv, ServerTypes
<1>3. Follows(wire, rec, delivered, Len(srv.said))
  BY <1>1, NoRecord DEF LInv, Talk, Following, Sound
<1> PICK c \in 0..Len(srv.said) :
      /\ c = Count(delivered)
      /\ Way(wire, 0, LineSteps, 0..Len(srv.said), c, Len(srv.said))
  BY <1>1, <1>3 DEF Follows
<1> PICK b \in 0..Len(srv.said) :
      /\ <<c, Head(wire), b>> \in LineSteps
      /\ Way(Tail(wire), 0, LineSteps, 0..Len(srv.said), b, Len(srv.said))
  BY <1>1, <1>2, WayTail
<1>4. Head(wire) # NoRec
  BY <1>1, <1>2, NoRecord
<1>5. Follows(wire', rec', delivered', Len(srv'.said))
  BY <1>1, <1>3, <1>4 DEF Follows
<1>6. Following'
  BY <1>5, FollowsLater
<1>7. InOrder'
  BY <1>1 DEF LInv, Talk, InOrder
<1>8. AsSaid(delivered, kept, Len(srv.said))'
  BY <1>1 DEF LInv, Talk, AsSaid, LinesIn, Heading
<1> QED BY <1>6, <1>7, <1>8 DEF Talk

\* A record ended: what it held is kept only if its tag matched, or if it had
\* none and handed nothing over.
LEMMA EndTalk ==
  ASSUME LInv, ReadEnd
  PROVE  Talk'
<1>1. record_end /\ UNCHANGED <<wire, srv>>
  BY DEF ReadEnd
<1>2. EngineTypes /\ Keys /\ delivered \in Seq(Said) /\ kept \in 0..Len(delivered)
  BY DEF LInv, CInv, EngineTypes
<1>3. /\ Reading /\ rec \in Records /\ rec.items = <<>> /\ rec' = NoRec /\ rec # NoRec
      /\ UNCHANGED <<rd_on, delivered>>
  BY <1>1, <1>2, EndEffect, NoRecord
<1>4. kept' = IF ~Sealed \/ TagOk THEN Len(delivered) ELSE kept
  BY <1>1 DEF record_end
<1>5. ASSUME Sound(rec, rd_on, rd) PROVE Follows(wire', rec', delivered', Len(srv'.said))
  <2>1. Follows(wire, rec, delivered, Len(srv.said))
    BY <1>3, <1>5 DEF LInv, Talk, Following
  <2> PICK c \in 0..Len(srv.said) :
        /\ <<Count(delivered), rec, c>> \in LineSteps
        /\ Way(wire, 0, LineSteps, 0..Len(srv.said), c, Len(srv.said))
    BY <1>3, <2>1 DEF Follows
  <2>2. c = Count(delivered)
    <3>1. Len(rec.items) = 0
      BY <1>3
    <3> QED BY <3>1 DEF LineSteps
  <2> QED BY <1>1, <1>3, <2>1, <2>2 DEF Follows
<1>6. Reading' => Sound(rec, rd_on, rd)
  <2> SUFFICES ASSUME Reading', Sealed PROVE Genuine
    BY DEF Sound, Sealed, Genuine
  <2>1. TagOk
    BY <1>1 DEF record_end, Fail, Reading
  <2> QED BY <2>1 DEF TagOk
<1>7. Following'
  BY <1>5, <1>6, FollowsLater
<1>8. InOrder'
  BY <1>1 DEF LInv, Talk, InOrder
<1>9. AsSaid(delivered', kept', Len(srv'.said))
  <2>1. CASE ~Sealed \/ TagOk
    <3>1. Sound(rec, rd_on, rd)
      BY <2>1 DEF Sound, Sealed, TagOk, Genuine
    <3> QED BY <1>3, <1>4, <1>5, <2>1, <3>1 DEF Follows
  <2>2. CASE ~(~Sealed \/ TagOk)
    BY <1>1, <1>3, <1>4, <2>2 DEF LInv, Talk
  <2> QED BY <2>1, <2>2
<1>10. AsSaid(delivered, kept, Len(srv.said))'
  BY <1>9 DEF AsSaid, LinesIn, Heading
<1> QED BY <1>7, <1>8, <1>10 DEF Talk

\* An item handed over is what its record held, if that was sealed as it is
\* opened; and no line is read otherwise.
LEMMA ItemSaid ==
  ASSUME EngineTypes, Keys, Content
  PROVE  /\ kept' = kept
         /\ \/ delivered' = delivered
            \/ \E o \in Said : delivered' = Append(delivered, o)
         /\ Reading' /\ Sound(rec, rd_on, rd) =>
              LET x == Head(rec.items)
              IN  \/ delivered' = Append(delivered, <<x.m, x.n>>)
                  \/ delivered' = delivered /\ (x.at # "data" \/ rec.outer # "appdata")
<1> DEFINE x == Head(rec.items)
<1>1. /\ rec \in Records /\ rec.items # <<>> /\ rec # NoRec /\ x \in Items
  <2>1. rec \in Records /\ rec.items # <<>> /\ rec # NoRec
    BY NoRecord DEF Content, EngineTypes
  <2> QED BY <2>1, ItemRead
<1>2. Opened(x) \in Said
  <2>1. <<x.m, x.n>> \in Said
    BY <1>1 DEF Items, Said, Messages
  <2>2. <<"garbage", 0>> \in Said
    BY DEF Said
  <2> QED BY <2>1, <2>2 DEF Opened
<1>3. CASE /\ Sealed /\ state = "CONNECTED"
           /\ delivered' = Append(delivered, Opened(x))
           /\ UNCHANGED kept
  <2>1. Sound(rec, rd_on, rd) => Opened(x) = <<x.m, x.n>>
    BY <1>1, <1>3 DEF Sound, Sealed, Opened, Genuine
  <2> QED BY <1>2, <1>3, <2>1
<1>4. CASE hs_feed(x)
  <2>1. UNCHANGED <<delivered, kept>>
    BY <1>4 DEF hs_feed, data
  <2>2. x.at = "data" => ~Reading'
    BY <1>4 DEF hs_feed, Reading, Fail
  <2> QED BY <2>1, <2>2
<1>5. CASE /\ rec.outer \in {"alert", "ccs"} \/ Fail("RECORD")
           /\ UNCHANGED data
  BY <1>5 DEF data, Fail, Reading
<1> HIDE DEF x
<1>6. \/ Sealed /\ state = "CONNECTED" /\ delivered' = Append(delivered, Opened(x)) /\ UNCHANGED kept
      \/ hs_feed(x)
      \/ (rec.outer \in {"alert", "ccs"} \/ Fail("RECORD")) /\ UNCHANGED data
  BY DEF Content, data, x
<1> QED BY <1>3, <1>4, <1>5, <1>6 DEF x

\* A record read on by an item.
LEMMA ContentTalk ==
  ASSUME LInv, ReadContent
  PROVE  Talk'
<1>1. Content /\ UNCHANGED <<wire, srv>>
  BY DEF ReadContent
<1>2. EngineTypes /\ Keys /\ delivered \in Seq(Said) /\ kept \in 0..Len(delivered)
  BY DEF LInv, CInv, EngineTypes
<1>3. state = "WAIT_HS" => Room
  BY NothingQueued DEF LInv, CInv
<1>4. /\ Reading /\ rec \in Records /\ rec # NoRec /\ rec.items # <<>>
      /\ rec' = [rec EXCEPT !.items = Tail(@)]
      /\ UNCHANGED <<rd_on, rd>> \/ rec.outer = "handshake"
  <2>1. Quiet \/ HelloTaken \/ FinishedTaken
    BY <1>1, <1>2, <1>3, ContentEffect
  <2>2. UNCHANGED <<rd_on, rd>> \/ rec.outer = "handshake"
    BY <2>1 DEF Quiet, HelloTaken, FinishedTaken
  <2> QED BY <1>1, <1>2, <1>3, <2>2, ContentEffect, NoRecord
<1>5. /\ rec' \in Records /\ rec'.items = Tail(rec.items) /\ rec'.outer = rec.outer
      /\ rec'.good = rec.good /\ rec'.key = rec.key /\ rec'.seq = rec.seq /\ rec' # NoRec /\ Head(rec.items) \in Items
  <2>1. rec' \in Records /\ rec'.items = Tail(rec.items) /\ rec'.outer = rec.outer
        /\ rec'.key = rec.key /\ rec'.seq = rec.seq /\ Head(rec.items) \in Items
    BY <1>4, ItemRead
  <2>2. rec'.good = rec.good
    BY <1>4 DEF Records
  <2> QED BY <2>1, <2>2, NoRecord
<1>6. Sound(rec', rd_on', rd') => Sound(rec, rd_on, rd)
  BY <1>4, <1>5 DEF Sound
<1> DEFINE m == Len(srv.said)
           x == Head(rec.items)
<1>7. m \in Nat
  BY DEF LInv, CInv, ServerTypes
<1>8. ASSUME Reading', Sound(rec, rd_on, rd) PROVE Follows(wire', rec', delivered', m)
  <2>1. Follows(wire, rec, delivered, m)
    BY <1>4, <1>8 DEF LInv, Talk, Following
  <2> PICK c \in 0..m : /\ <<Count(delivered), rec, c>> \in LineSteps
                        /\ Way(wire, 0, LineSteps, 0..m, c, m)
    BY <1>4, <2>1 DEF Follows
  <2>2. rec.items \in Seq(Items) /\ rec.items # <<>> /\ x = rec.items[1]
    BY <1>4 DEF Records
  <2>3. /\ Len(rec.items) \in Nat /\ 1 \in 1..Len(rec.items)
        /\ Len(rec'.items) = Len(rec.items) - 1
        /\ \A i \in 1..Len(rec'.items) : i + 1 \in 1..Len(rec.items) /\ rec'.items[i] = rec.items[i + 1]
    BY <1>5, <2>2
  <2>4. \/ delivered' = Append(delivered, <<x.m, x.n>>)
        \/ delivered' = delivered /\ (x.at # "data" \/ rec.outer # "appdata")
    BY <1>1, <1>2, <1>8, ItemSaid
  <2>5. <<x.m, x.n>> \in Said /\ x.m # "garbage" /\ Count(delivered) \in Nat
    <3>1. x \in Items
      BY <1>5
    <3>2. <<x.m, x.n>> \in Said /\ x.m # "garbage"
      BY <3>1 DEF Items, Said, Messages
    <3> QED BY <1>2, <3>2, CountMore
  <2> HIDE DEF x, m
  <2>6. CASE c = Count(delivered) /\ \A i \in 1..Len(rec.items) : rec.items[i].m # "line"
    <3>1. x.m # "line"
      BY <2>2, <2>3, <2>6
    <3>2. Count(delivered') = Count(delivered) /\ AsSaid(delivered', Len(delivered'), m)
      <4>1. CASE delivered' = delivered
        BY <2>1, <4>1 DEF Follows
      <4>2. CASE delivered' = Append(delivered, <<x.m, x.n>>)
        <5>1. <<x.m, x.n>>[1] \notin Heading
          BY <2>5, <3>1 DEF Heading
        <5> QED BY <1>2, <1>7, <2>1, <2>5, <4>2, <5>1, CountMore, AsSaidOn DEF Follows
      <4> QED BY <2>4, <4>1, <4>2
    <3>3. \A i \in 1..Len(rec'.items) : rec'.items[i].m # "line"
      BY <2>3, <2>6
    <3>4. <<Count(delivered'), rec', c>> \in LineSteps
      BY <1>5, <1>7, <2>5, <2>6, <3>2, <3>3 DEF LineSteps
    <3> QED BY <1>1, <1>5, <3>2, <3>4 DEF Follows
  <2>7. CASE /\ c = Count(delivered) + 1 /\ rec.outer = "appdata" /\ Len(rec.items) = 1
             /\ rec.items[1].m = "line" /\ rec.items[1].at = "data" /\ rec.items[1].n = c
    <3>1. delivered' = Append(delivered, <<"line", c>>) /\ <<"line", c>> \in Said
      BY <2>2, <2>4, <2>5, <2>7
    <3>2. <<"line", c>>[1] \in Heading
      BY DEF Heading
    <3>3. Count(delivered') = c
      BY <1>2, <2>7, <3>1, <3>2, CountMore
    <3>4. AsSaid(delivered', Len(delivered'), m)
      <4>1. c <= m
        BY <1>7
      <4> QED BY <1>2, <1>7, <2>1, <2>7, <3>1, <4>1, AsSaidOn DEF Follows
    <3>5. \A i \in 1..Len(rec'.items) : rec'.items[i].m # "line"
      <4>1. Len(rec'.items) = 0
        BY <2>3, <2>7
      <4> QED BY <4>1
    <3>6. c \in Nat
      BY <1>7
    <3>7. <<Count(delivered'), rec', c>> \in LineSteps
      BY <1>5, <3>3, <3>5, <3>6 DEF LineSteps
    <3> QED BY <1>1, <1>5, <3>4, <3>7 DEF Follows
  <2> QED BY <2>6, <2>7 DEF LineSteps
<1>9. Following'
  BY <1>1, <1>6, <1>8, FollowsLater
<1>10. InOrder'
  BY <1>1 DEF LInv, Talk, InOrder
<1>11. AsSaid(delivered', kept', m)
  <2>1. AsSaid(delivered, kept, m)
    BY DEF LInv, Talk
  <2>2. kept' = kept
    BY <1>1, <1>2, ItemSaid
  <2>3. \/ delivered' = delivered
        \/ \E o \in Said : delivered' = Append(delivered, o)
    BY <1>1, <1>2, ItemSaid
  <2> HIDE DEF m
  <2>4. CASE delivered' = delivered
    BY <2>1, <2>2, <2>4
  <2>5. ASSUME NEW o \in Said, delivered' = Append(delivered, o)
        PROVE  AsSaid(delivered', kept', m)
    <3>1. AsSaid(Append(delivered, o), kept, m)
      BY <1>2, <1>7, <2>1, AsSaidMore
    <3> QED BY <2>2, <2>5, <3>1
  <2> QED BY <2>3, <2>4, <2>5
<1>12. AsSaid(delivered, kept, Len(srv.said))'
  BY <1>1, <1>11 DEF AsSaid, LinesIn, Heading
<1> QED BY <1>9, <1>10, <1>12 DEF Talk

\* What conn.c, the socket, and a connection begun have to do with it.
LEMMA OtherTalk ==
  ASSUME LInv,
         \/ PumpFed \/ PumpRound \/ PumpGivesUp \/ conn_sent \/ conn_closed \/ conn_abort
         \/ Drop \/ WindowShuts \/ WindowOpens \/ UNCHANGED vars
         \/ PushOut \/ Verify \/ conn_send \/ conn_close
  PROVE  Talk'
<1>1. CASE UNCHANGED <<engine, wire, srv>>
  <2>1. UNCHANGED <<wire, srv, rec, delivered, kept, rd_on, rd, state>>
    BY <1>1 DEF engine, keys, record, data
  <2> QED BY <2>1, TalkSame DEF Reading
<1>2. CASE PushOut \/ conn_send \/ conn_close
  <2>1. UNCHANGED <<wire, srv, rec, delivered, kept, rd_on, rd, state>>
    BY <1>2 DEF PushOut, conn_send, conn_close, tls_write, tls_close, keys, record, data
  <2> QED BY <2>1, TalkSame DEF Reading
<1>3. CASE Verify
  <2>1. UNCHANGED <<wire, srv, rec, delivered, kept, rd_on, rd>> /\ (Reading' => Reading)
    BY <1>3 DEF Verify, tls_verify, keys, record, data, Reading, Fail, Enter, Proceed
  <2> QED BY <2>1, TalkSame
<1> QED BY <1>1, <1>2, <1>3 DEF PumpFed, PumpRound, PumpGivesUp, conn_sent, conn_closed, conn_abort,
                                Drop, WindowShuts, WindowOpens, vars

\* A connection begun: nothing said, nothing handed over.
LEMMA OpenTalk ==
  ASSUME LInv, conn_open
  PROVE  Talk'
<1>1. CASE UNCHANGED <<engine, wire, srv>>
  <2>1. UNCHANGED <<wire, srv, rec, delivered, kept, rd_on, rd, state>>
    BY <1>1 DEF engine, keys, record, data
  <2> QED BY <2>1, TalkSame DEF Reading
<1>2. CASE tls_start /\ wire' = <<>> /\ srv'.said = <<>>
  <2> DEFINE none == <<>>
  <2>1. none \in Seq(Said) /\ none \in Seq(Records) /\ Len(none) = 0 /\ 1..0 = {}
    OBVIOUS
  <2>2. delivered' = none /\ kept' = 0 /\ rec' = NoRec /\ wire' = none /\ srv'.said = none
    BY <1>2 DEF tls_start
  <2> HIDE DEF none
  <2>3. InOrder'
    BY <2>1, <2>2 DEF InOrder
  <2>4. AsSaid(none, 0, 0) /\ Count(none) = 0
    <3>1. LinesIn(none, 0) = {}
      BY <2>1 DEF LinesIn
    <3> QED BY <2>1, <3>1, FS_EmptySet DEF AsSaid, Count
  <2>5. AsSaid(delivered, kept, Len(srv.said))'
    BY <2>1, <2>2, <2>4 DEF AsSaid, LinesIn, Heading
  <2>6. Way(none, 0, LineSteps, 0..0, 0, 0)
    <3>1. 0 \in 0..0
      OBVIOUS
    <3>2. Way(none, Len(none), LineSteps, 0..0, 0, 0)
      BY <2>1, <3>1, WayNone
    <3> QED BY <2>1, <3>2
  <2>7. Follows(none, NoRec, none, 0)
    BY <2>1, <2>4, <2>6 DEF Follows
  <2>8. Following'
    BY <2>1, <2>2, <2>7, FollowsLater
  <2> QED BY <2>3, <2>5, <2>8 DEF Talk
<1> QED BY <1>1, <1>2 DEF conn_open

\* A record that leaves the server, with what it says.
LEMMA ServerTalk ==
  ASSUME LInv, ServerStep, NEW r \in Records, wire' = Append(wire, r),
         srv'.said \in Seq(Said), InOrder', Len(srv.said) <= Len(srv'.said),
         <<Len(srv.said), r, Len(srv'.said)>> \in LineSteps
  PROVE  Talk'
<1> DEFINE m == Len(srv.said)
           m1 == Len(srv'.said)
<1>1. UNCHANGED <<state, rec, rd_on, rd, delivered, kept>>
  BY DEF ServerStep, engine, keys, record, data
<1>2. /\ wire \in Seq(Records) /\ m \in Nat /\ m1 \in Nat /\ m <= m1
      /\ delivered \in Seq(Said) /\ kept \in 0..Len(delivered)
  BY DEF LInv, CInv, ServerTypes, EngineTypes
<1>3. ASSUME Follows(wire, rec, delivered, m) PROVE Follows(wire', rec, delivered, m1)
  <2> HIDE DEF m, m1
  <2>1. AsSaid(delivered, Len(delivered), m1)
    <3>1. <<"garbage", 0>> \in Said
      BY DEF Said
    <3>2. AsSaid(delivered, Len(delivered), m) /\ Len(delivered) \in 0..Len(delivered)
      BY <1>2, <1>3 DEF Follows
    <3> QED BY <1>2, <3>1, <3>2, AsSaidMore
  <2> PICK c \in 0..m :
        /\ IF rec = NoRec THEN c = Count(delivered) ELSE <<Count(delivered), rec, c>> \in LineSteps
        /\ Way(wire, 0, LineSteps, 0..m, c, m)
    BY <1>3 DEF Follows
  <2>2. Way(wire, 0, LineSteps, 0..m1, c, m)
    <3>1. 0..m \subseteq 0..m1
      BY <1>2
    <3> QED BY <3>1, WayWider
  <2>3. <<m, r, m1>> \in LineSteps
    BY DEF m, m1
  <2>4. Way(Append(wire, r), 0, LineSteps, 0..m1, c, m1)
    <3>1. 0 \in 0..Len(wire) /\ m1 \in 0..m1
      BY <1>2
    <3> QED BY <1>2, <2>2, <2>3, <3>1, WayAppend
  <2>5. c \in 0..m1
    BY <1>2
  <2> QED BY <2>1, <2>4, <2>5 DEF Follows
<1>4. Following'
  <2>1. Reading' /\ Sound(rec', rd_on', rd') => Reading /\ Sound(rec, rd_on, rd)
    BY <1>1 DEF Reading
  <2> QED BY <1>1, <1>3, <2>1, FollowsLater DEF LInv, Talk, Following
<1>5. AsSaid(delivered', kept', m1)
  <2>1. AsSaid(delivered, kept, m)
    BY DEF LInv, Talk
  <2>2. <<"garbage", 0>> \in Said
    BY DEF Said
  <2> HIDE DEF m, m1
  <2>3. AsSaid(delivered, kept, m1)
    BY <1>2, <2>1, <2>2, AsSaidMore
  <2> QED BY <1>1, <2>3
<1>6. AsSaid(delivered, kept, Len(srv.said))'
  BY <1>5 DEF AsSaid, LinesIn, Heading
<1> QED BY <1>4, <1>6 DEF Talk

\* What a server sends before its handshake is over, or to refuse, has no line.
LEMMA HandshakeTalk ==
  ASSUME LInv, ServerHello \/ ServerFlight \/ ServerCCS \/ ServerRefuses
  PROVE  Talk'
<1>1. ServerStep /\ ServerTypes /\ InOrder /\ srv.said \in Seq(Said) /\ Len(srv.said) \in Nat
  <2>1. ServerTypes /\ InOrder
    BY DEF LInv, CInv, Talk
  <2>2. srv.said \in Seq(Said)
    BY <2>1 DEF ServerTypes
  <2>3. ServerStep
    BY DEF ServerHello, ServerFlight, ServerCCS, ServerRefuses
  <2> QED BY <2>1, <2>2, <2>3
<1> SUFFICES \E r \in Records :
               /\ wire' = Append(wire, r) /\ srv'.said = srv.said
               /\ \A i \in 1..Len(r.items) : r.items[i].m # "line"
  <2> PICK r \in Records :
        /\ wire' = Append(wire, r) /\ srv'.said = srv.said
        /\ \A i \in 1..Len(r.items) : r.items[i].m # "line"
    OBVIOUS
  <2>1. <<Len(srv.said), r, Len(srv'.said)>> \in LineSteps
    BY <1>1 DEF LineSteps
  <2>2. InOrder' /\ srv'.said \in Seq(Said)
    BY <1>1 DEF InOrder, ServerTypes
  <2> QED BY <1>1, <2>1, <2>2, ServerTalk
<1>2. CASE ServerHello
  <2> PICK ok \in HelloKinds, flight \in Flights :
         Onto([srv EXCEPT !.at = "flight", !.key = "s_hs", !.seq = 0,
                          !.rd = [key |-> "c_hs", seq |-> 0],
                          !.todo = flight,
                          !.honest = ok = "good" /\ Proves(flight),
                          !.proves = ok = "good" /\ Proves(flight)],
              "handshake", "none",
              <<Part("SH", "header", "good"), Part("SH", "body", ok)>>, "none")
    BY <1>2 DEF ServerHello
  <2> DEFINE s == [srv EXCEPT !.at = "flight", !.key = "s_hs", !.seq = 0,
                              !.rd = [key |-> "c_hs", seq |-> 0],
                              !.todo = flight,
                              !.honest = ok = "good" /\ Proves(flight),
                              !.proves = ok = "good" /\ Proves(flight)]
             items == <<Part("SH", "header", "good"), Part("SH", "body", ok)>>
  <2>1. DOMAIN s = SrvFields /\ s.said = srv.said
    BY <1>1 DEF ServerTypes, SrvFields
  <2>2. items \in Seq(Items) /\ \A i \in 1..Len(items) : items[i].m # "line"
    <3>1. "good" \in Oks /\ ok \in Oks
      BY DEF Oks
    <3>2. Part("SH", "header", "good") \in Items /\ Part("SH", "body", ok) \in Items
      BY <3>1, PartItem
    <3>3. Part("SH", "header", "good").m = "SH" /\ Part("SH", "body", ok).m = "SH"
      BY DEF Part
    <3> HIDE DEF Part
    <3> QED BY <3>2, <3>3
  <2>3. Onto(s, "handshake", "none", items, "none")
    OBVIOUS
  <2> HIDE DEF s, items
  <2>4. Left(s, "handshake", "none", items, "none")
    BY <1>1, <2>1, <2>2, <2>3, OntoLeft
  <2> QED BY <2>1, <2>2, <2>4 DEF Left
<1>3. CASE ServerFlight
  <2> PICK k \in Cuts \cap 1..Len(srv.todo) :
         LET rest == SubSeq(srv.todo, k + 1, Len(srv.todo))
         IN  Onto(IF rest = <<>>
                    THEN [srv EXCEPT !.todo = rest, !.at = "done", !.key = "s_ap", !.seq = 0]
                    ELSE [srv EXCEPT !.todo = rest, !.seq = @ + 1],
                  "appdata", "handshake", SubSeq(srv.todo, 1, k), "none")
    BY <1>3 DEF ServerFlight
  <2> DEFINE rest == SubSeq(srv.todo, k + 1, Len(srv.todo))
             items == SubSeq(srv.todo, 1, k)
             s == IF rest = <<>>
                    THEN [srv EXCEPT !.todo = rest, !.at = "done", !.key = "s_ap", !.seq = 0]
                    ELSE [srv EXCEPT !.todo = rest, !.seq = @ + 1]
  <2>1. DOMAIN s = SrvFields /\ s.said = srv.said
    BY <1>1 DEF ServerTypes, SrvFields
  <2>2. items \in Seq(FlightParts)
    BY <1>1, RestCut DEF ServerTypes
  <2>3. Onto(s, "appdata", "handshake", items, "none")
    OBVIOUS
  <2> HIDE DEF s, items
  <2>4. items \in Seq(Items) /\ \A i \in 1..Len(items) : items[i].m # "line"
    <3>1. items \in Seq(Items)
      BY <2>2, FlightItems
    <3>2. \A i \in 1..Len(items) : items[i] \in FlightParts
      BY <2>2
    <3> QED BY <3>1, <3>2 DEF FlightParts
  <2>5. Left(s, "appdata", "handshake", items, "none")
    BY <1>1, <2>1, <2>3, <2>4, OntoLeft
  <2> QED BY <2>1, <2>4, <2>5 DEF Left
<1>4. CASE ServerCCS
  <2> DEFINE items == <<Part("ccs", "data", "good")>>
             r == [outer |-> "ccs", inner |-> "none", key |-> "plain", seq |-> 0,
                   items |-> items, desc |-> "none", framed |-> TRUE, good |-> TRUE]
  <2>1. wire' = Append(wire, r) /\ srv'.said = srv.said
    BY <1>4 DEF ServerCCS
  <2>2. items \in Seq(Items) /\ \A i \in 1..Len(items) : items[i].m # "line"
    BY PartItem DEF Oks, Part
  <2> HIDE DEF items
  <2>3. r \in Records /\ r.items = items
    BY <2>2 DEF Records
  <2> HIDE DEF r
  <2> QED BY <2>1, <2>2, <2>3
<1>5. CASE ServerRefuses
  <2> DEFINE outer == IF srv.key = "plain" THEN "alert" ELSE "appdata"
             items == <<Part("fatal", "alert", "good")>>
             s == [srv EXCEPT !.at = "closed", !.honest = FALSE]
  <2>1. Onto(s, outer, "alert", items, "fatal")
    BY <1>5 DEF ServerRefuses
  <2>2. items \in Seq(Items) /\ \A i \in 1..Len(items) : items[i].m # "line"
    BY PartItem DEF Oks, Part
  <2>3. DOMAIN s = SrvFields /\ s.said = srv.said
    BY <1>1 DEF ServerTypes, SrvFields
  <2>4. outer \in {"handshake", "appdata", "alert", "ccs"}
    OBVIOUS
  <2> HIDE DEF s, items, outer
  <2>5. Left(s, outer, "alert", items, "fatal")
    BY <1>1, <2>1, <2>2, <2>3, <2>4, OntoLeft
  <2> QED BY <2>2, <2>3, <2>5 DEF Left
<1> QED BY <1>2, <1>3, <1>4, <1>5

\* A reply: a line is the next one.
LEMMA ReplyTalk ==
  ASSUME LInv, ServerReplies, ServerTypes'
  PROVE  Talk'
<1> PICK q \in Replies :
       LET x == [m |-> q, ok |-> "good",
                 at |-> CASE q = "ticket" -> "body" [] q = "line" -> "data" [] OTHER -> "alert",
                 n |-> IF q = "line" THEN Len(srv.said) + 1 ELSE 0]
           s == [srv EXCEPT !.replies = @ + 1, !.seq = @ + 1,
                            !.at = IF q \in {"close", "fatal"} THEN "closed" ELSE @,
                            !.honest = @ /\ q # "fatal",
                            !.said = IF q = "line" THEN Append(@, <<x.m, x.n>>) ELSE @]
       IN  Onto(s, "appdata",
                CASE q = "ticket" -> "handshake" [] q = "line" -> "appdata" [] OTHER -> "alert",
                <<x>>, q)
  BY DEF ServerReplies
<1> DEFINE place == CASE q = "ticket" -> "body" [] q = "line" -> "data" [] OTHER -> "alert"
           inner == CASE q = "ticket" -> "handshake" [] q = "line" -> "appdata" [] OTHER -> "alert"
           num == IF q = "line" THEN Len(srv.said) + 1 ELSE 0
           x == [m |-> q, ok |-> "good", at |-> place, n |-> num]
           s == [srv EXCEPT !.replies = @ + 1, !.seq = @ + 1,
                            !.at = IF q \in {"close", "fatal"} THEN "closed" ELSE @,
                            !.honest = @ /\ q # "fatal",
                            !.said = IF q = "line" THEN Append(@, <<x.m, x.n>>) ELSE @]
           items == <<x>>
<1>1. ServerStep /\ ServerTypes /\ InOrder /\ srv.said \in Seq(Said) /\ Len(srv.said) \in Nat
  BY DEF ServerReplies, LInv, CInv, Talk, ServerTypes
<1>2. q \in {"line", "ticket", "close", "fatal"}
  BY ConnAssumption DEF ConnAssumption
<1>3. /\ place \in {"body", "data", "alert"} /\ inner \in {"none", "handshake", "appdata", "alert"}
      /\ q = "line" => place = "data"
  BY <1>2
<1>4. num \in Nat /\ (q = "line" => num = Len(srv.said) + 1)
  BY <1>1
<1>5. Onto(s, "appdata", inner, items, q)
  OBVIOUS
<1> HIDE DEF place, inner, num
<1>6. x \in Items /\ x.m = q /\ x.at = place /\ x.n = num
  BY <1>2, <1>3, <1>4 DEF Items, Oks
<1>7. /\ DOMAIN s = SrvFields
      /\ s.said = IF q = "line" THEN Append(srv.said, <<x.m, x.n>>) ELSE srv.said
  BY <1>1 DEF ServerTypes, SrvFields
<1> HIDE DEF x
<1>8. items \in Seq(Items) /\ Len(items) = 1 /\ items[1] = x
  BY <1>6
<1> HIDE DEF s, items
<1>9. /\ "appdata" \in {"handshake", "appdata", "alert", "ccs"}
      /\ q \in {"none", "line", "ticket", "close", "fatal"}
  BY <1>2
<1>10. /\ \E r \in Records : wire' = Append(wire, r) /\ r.outer = "appdata" /\ r.items = items
       /\ srv'.said = s.said
  <2>1. ServerTypes
    BY <1>1
  <2>2. DOMAIN s = SrvFields
    BY <1>7
  <2>3. inner \in {"none", "handshake", "appdata", "alert"}
    BY <1>3
  <2>4. items \in Seq(Items)
    BY <1>8
  <2>5. Left(s, "appdata", inner, items, q)
    BY <2>1, <2>2, <2>3, <2>4, <1>5, <1>9, OntoLeft
  <2> QED BY <2>5 DEF Left
<1> PICK r \in Records : wire' = Append(wire, r) /\ r.outer = "appdata" /\ r.items = items
  BY <1>10
<1>11. srv'.said \in Seq(Said)
  BY DEF ServerTypes
<1>12. CASE q = "line"
  <2>1. srv'.said = Append(srv.said, <<"line", Len(srv.said) + 1>>)
    BY <1>4, <1>6, <1>7, <1>10, <1>12
  <2>2. <<"line", Len(srv.said) + 1>> \in Said
    BY <1>1 DEF Said, Messages
  <2>3. /\ Len(srv'.said) = Len(srv.said) + 1
        /\ \A i \in 1..Len(srv.said) : srv'.said[i] = srv.said[i]
        /\ srv'.said[Len(srv.said) + 1] = <<"line", Len(srv.said) + 1>>
    BY <1>1, <2>1, <2>2
  <2>4. InOrder'
    <3>1. ASSUME NEW i \in 1..Len(srv'.said) PROVE srv'.said[i] = <<"line", i>>
      <4>1. CASE i = Len(srv.said) + 1
        BY <2>3, <4>1
      <4>2. CASE i # Len(srv.said) + 1
        <5>1. i \in 1..Len(srv.said)
          BY <1>1, <2>3, <4>2
        <5> QED BY <1>1, <2>3, <5>1 DEF InOrder
      <4> QED BY <4>1, <4>2
    <3> QED BY <3>1 DEF InOrder
  <2>5. <<Len(srv.said), r, Len(srv'.said)>> \in LineSteps
    BY <1>1, <1>3, <1>4, <1>6, <1>8, <1>12, <2>3 DEF LineSteps
  <2>6. Len(srv.said) <= Len(srv'.said)
    BY <1>1, <2>3
  <2> QED BY <1>1, <1>11, <2>4, <2>5, <2>6, ServerTalk
<1>13. CASE q # "line"
  <2>1. srv'.said = srv.said
    BY <1>7, <1>10, <1>13
  <2>2. \A i \in 1..Len(r.items) : r.items[i].m # "line"
    BY <1>6, <1>8, <1>13
  <2>3. InOrder'
    BY <1>1, <2>1 DEF InOrder
  <2>4. <<Len(srv.said), r, Len(srv'.said)>> \in LineSteps
    BY <1>1, <2>1, <2>2 DEF LineSteps
  <2>5. Len(srv.said) <= Len(srv'.said)
    BY <1>1, <2>1
  <2> QED BY <1>1, <1>11, <2>3, <2>4, <2>5, ServerTalk
<1> QED BY <1>12, <1>13

\* A record of the client's heard.
LEMMA HearTalk ==
  ASSUME LInv, ServerHears
  PROVE  Talk'
<1> DEFINE r == sent[srv.heard + 1]
           s == [srv EXCEPT !.heard = @ + 1]
<1>1. /\ ServerStep /\ UNCHANGED wire
      /\ srv' = IF r.key # srv.rd.key \/ r.seq # srv.rd.seq THEN [s EXCEPT !.at = "broken"]
                ELSE IF r.kind = "hello" THEN [s EXCEPT !.at = "hello"]
                ELSE IF r.kind \in {"finished", "empty+finished"}
                  THEN [s EXCEPT !.at = "up", !.rd = [key |-> "c_ap", seq |-> 0]]
                ELSE [s EXCEPT !.rd.seq = @ + 1]
  BY DEF ServerHears
<1>2. DOMAIN s = SrvFields /\ s.said = srv.said
  BY DEF LInv, CInv, ServerTypes, SrvFields
<1> HIDE DEF s, r
<1>3. srv'.said = srv.said
  BY <1>1, <1>2 DEF SrvFields
<1>4. UNCHANGED <<state, rec, rd_on, rd, delivered, kept>>
  BY <1>1 DEF ServerStep, engine, keys, record, data
<1> QED BY <1>1, <1>3, <1>4, TalkSame DEF Reading

-----------------------------------------------------------------------------
(* The theorem *)

\* Where a program starts.
LEMMA LInvInit == Init => LInv
<1> SUFFICES ASSUME Init PROVE LInv
  OBVIOUS
<1>1. CInv
  BY CInvInit
<1>2. /\ state = "IDLE" /\ delivered = <<>> /\ kept = 0 /\ srv.said = <<>>
  BY DEF Init, EngineInit
<1>3. Following
  BY <1>2 DEF Following, Reading
<1>4. InOrder
  BY <1>2 DEF InOrder
<1>5. AsSaid(delivered, kept, Len(srv.said))
  BY <1>2 DEF AsSaid, LinesIn
<1> QED BY <1>1, <1>3, <1>4, <1>5 DEF LInv, Talk

\* Every step keeps it.
LEMMA LInvStep == LInv /\ [Next]_vars => LInv'
<1> SUFFICES ASSUME LInv, [Next]_vars PROVE LInv'
  OBVIOUS
<1>1. CInv'
  BY CInvStep DEF LInv
<1>2. ASSUME Client PROVE Talk'
  BY <1>2, StartTalk, ContentTalk, EndTalk, OtherTalk DEF Client
<1>3. ASSUME Choice PROVE Talk'
  BY <1>3, OpenTalk, OtherTalk DEF Choice
<1>4. ASSUME Server PROVE Talk'
  <2>1. ServerTypes'
    BY <1>1 DEF CInv
  <2> QED BY <1>4, <2>1, HandshakeTalk, HearTalk, ReplyTalk DEF Server
<1>5. ASSUME Socket PROVE Talk'
  BY <1>5, OtherTalk DEF Socket
<1>6. ASSUME UNCHANGED vars PROVE Talk'
  BY <1>6, OtherTalk
<1>7. Talk'
  BY <1>2, <1>3, <1>4, <1>5, <1>6 DEF Next
<1> QED BY <1>1, <1>7 DEF LInv

\* The lines the client was handed in records whose tag matched are the first
\* ones the server said: none lost, repeated, reordered or damaged; for any
\* number of connections, lines and damaged records, however deliveries cut
\* them, and whatever the server's flight was.
THEOREM LinesKept == Spec => []LinesAsSaid
<1>1. LInv /\ [Next]_vars => LInv'
  BY LInvStep
<1>2. LInv => LinesAsSaid
  <2> SUFFICES ASSUME LInv, NEW i \in LinesTo(kept)
               PROVE  /\ Cardinality(LinesTo(i)) <= Len(srv.said)
                      /\ delivered[i] = srv.said[Cardinality(LinesTo(i))]
    BY DEF LinesAsSaid
  <2>1. \A k : LinesTo(k) = LinesIn(delivered, k)
    BY DEF LinesTo, LinesIn, Heading
  <2>2. /\ delivered[i] = <<"line", Cardinality(LinesTo(i))>>
        /\ Cardinality(LinesTo(i)) <= Len(srv.said)
    BY <2>1 DEF LInv, Talk, AsSaid
  <2>3. Cardinality(LinesTo(i)) \in 1..Len(srv.said)
    <3>1. i \in 1..kept /\ kept \in Nat /\ i \in LinesTo(i)
      BY DEF LinesTo, LInv, CInv, EngineTypes
    <3>2. IsFiniteSet(1..i) /\ LinesTo(i) \subseteq 1..i
      BY <3>1, FS_Interval DEF LinesTo
    <3>3. IsFiniteSet(LinesTo(i)) /\ LinesTo(i) # {}
      BY <3>1, <3>2, FS_Subset
    <3>4. Cardinality(LinesTo(i)) \in Nat /\ Cardinality(LinesTo(i)) # 0
      BY <3>3, FS_CardinalityType, FS_EmptySet
    <3>5. Len(srv.said) \in Nat
      BY DEF LInv, CInv, ServerTypes
    <3> QED BY <2>2, <3>4, <3>5
  <2> QED BY <2>2, <2>3 DEF LInv, Talk, InOrder
<1> QED BY <1>1, <1>2, LInvInit, PTL DEF Spec

-----------------------------------------------------------------------------
(* An honest server *)

\* The messages of a flight by how far they are from its end: what is asked for,
\* then the certificate, the signature and the Finished; each its header and then
\* its body, all as they should be, or the signature of a scheme the client
\* cannot check.
Kinds(d) ==
  IF d <= 1 THEN {"FIN"} ELSE IF d <= 3 THEN {"CV"} ELSE IF d <= 5 THEN {"CERT"} ELSE {"EE", "CR"}
InPlace(x, d) ==
  /\ x.at = IF d % 2 = 0 THEN "body" ELSE "header"
  /\ x.m \in Kinds(d)
  /\ x.ok = "good" \/ (d = 2 /\ x.ok = "odd")
InStep(t) == \A i \in 1..Len(t) : InPlace(t[i], Len(t) - i)
Standard(f) == Len(f) >= 6 /\ Len(f) % 2 = 0 /\ InStep(f)

\* Where a reader of an honest server's records is: past its hello or not, and
\* what is left of its flight.
Stage == [past : BOOLEAN, todo : Seq(FlightParts)]

\* A record of such a server, or what is left of it, takes the reader from a to
\* c: its hello; a change_cipher_spec; a part of the flight; what comes after.
Greets(a, r, c) ==
  /\ r.outer = "handshake" /\ c.past
  /\ \/ /\ ~a.past /\ Standard(c.todo)
        /\ \/ /\ Len(r.items) = 2
              /\ r.items[1].at = "header" /\ r.items[1].m = "SH"
              /\ r.items[2].at = "body" /\ r.items[2].ok = "good"
           \/ Len(r.items) = 1 /\ r.items[1].at = "body" /\ r.items[1].ok = "good"
     \/ r.items = <<>> /\ c = a
Passes(a, r, c) == r.outer = "ccs" /\ c = a
Goes(a, r, c) ==
  /\ r.outer = "appdata" /\ r.inner = "handshake"
  /\ a.past /\ c.past
  /\ Rest(a.todo, Len(r.items), c.todo)
  /\ \A i \in 1..Len(r.items) : r.items[i] = a.todo[i]
Answers(a, r, c) ==
  /\ r.outer = "appdata" /\ (r.inner = "alert" => r.desc = "close")
  /\ a.past /\ a.todo = <<>> /\ c = a
  /\ \A i \in 1..Len(r.items) : r.items[i].m \in {"line", "ticket", "close"}
GoodSteps ==
  {s \in Stage \X Records \X Stage :
     /\ s[2].framed /\ s[2].good
     /\ \/ Greets(s[1], s[2], s[3]) \/ Passes(s[1], s[2], s[3])
        \/ Goes(s[1], s[2], s[3]) \/ Answers(s[1], s[2], s[3])}

\* On the wire they are whole.
WholeSteps ==
  {s \in GoodSteps : s[2].items # <<>> /\ (s[2].outer = "handshake" => Len(s[2].items) = 2)}

\* What the client has of such a server's flight, t being left of it.
Taken(t, st, m, b, cv, lf) ==
  /\ InStep(t)
  /\ st = "WAIT_HS" <=> Len(t) > 0
  /\ Len(t) > 0 => IF Len(t) % 2 = 0 THEN m = "none" ELSE m \in Kinds(Len(t) - 1)
  /\ Len(t) <= 4 => lf
  /\ Len(t) <= 2 => cv /\ b.type = "CV" /\ b.ok \in {"good", "odd"}
\* ... or it waits for its hello.
Awaiting(r, m) ==
  m = IF r # NoRec /\ r.outer = "handshake" /\ Len(r.items) = 1 THEN "SH" ELSE "none"

Going(q, r, on, st, m, b, cv, lf, there) ==
  \E a \in Stage, c \in Stage :
    /\ IF r = NoRec THEN c = a ELSE <<a, r, c>> \in GoodSteps
    /\ Way(q, 0, WholeSteps, Stage, c, there)
    /\ a.past <=> on
    /\ IF on THEN Taken(a.todo, st, m, b, cv, lf) ELSE Awaiting(r, m)
Dest == [past |-> srv.key # "plain", todo |-> srv.todo]
WellGoing == Going(wire, rec, rd_on, state, msg_type, msg, cv_seen, leaf, Dest)

\* The client's Finished has been sent; what only follows it.
FinSent == \E i \in 1..Len(sent) : IsFin(sent[i])
Reply(r) ==
  r.inner = "appdata" \/ \E i \in 1..Len(r.items) : r.items[i].m \in {"line", "ticket", "close"}

\* A server says nothing of the kind before it, and the client reads nothing
\* after it until the connection is open.
InTurn ==
  /\ srv.at = "up" => FinSent
  /\ \A i \in 1..Len(wire) : Reply(wire[i]) => FinSent
  /\ rec # NoRec => (Reply(rec) => FinSent)
  /\ conn = "pump" => ~FinSent
  /\ conn \in {"open", "send", "close"} => state \in {"CONNECTED", "CLOSED", "FAILED"}
  /\ rec # NoRec => (rec.inner = "appdata" => rec_connected)

\* The multiplier table is the reader's whenever the reader takes it to be.
MacFits ==
  /\ mac \in [for : {"rd", "wr"}, ready : BOOLEAN, garbled : BOOLEAN]
  /\ Sealed => ~mac.garbled /\ (mac.ready => mac.for = "rd")

Unfailed ==
  /\ srv.at \in {"listening", "hello"} => srv.honest
  /\ srv.honest => state # "FAILED" /\ (Reading => WellGoing)
HInv == RInv /\ InTurn /\ MacFits /\ Unfailed

\* What comes next of a flight.
LEMMA NextPart ==
  ASSUME NEW t \in Seq(FlightParts), t # <<>>, InStep(t)
  PROVE  /\ Len(t) \in Nat /\ Len(t) > 0 /\ t[1] \in FlightParts /\ InPlace(t[1], Len(t) - 1)
         /\ Tail(t) \in Seq(FlightParts) /\ Len(Tail(t)) = Len(t) - 1 /\ InStep(Tail(t))
<1> DEFINE u == Tail(t)
<1>1. /\ Len(t) \in Nat /\ Len(t) > 0 /\ t[1] \in FlightParts /\ 1 \in 1..Len(t)
      /\ u \in Seq(FlightParts) /\ Len(u) = Len(t) - 1
      /\ \A i \in 1..Len(u) : u[i] = t[i + 1] /\ i + 1 \in 1..Len(t)
                              /\ Len(t) - (i + 1) = Len(u) - i
  OBVIOUS
<1> HIDE DEF u
<1>2. InPlace(t[1], Len(t) - 1)
  BY <1>1 DEF InStep
<1>3. ASSUME NEW i \in 1..Len(u) PROVE InPlace(u[i], Len(u) - i)
  <2>1. InPlace(t[i + 1], Len(t) - (i + 1))
    BY <1>1 DEF InStep
  <2> QED BY <1>1, <2>1
<1> QED BY <1>1, <1>2, <1>3 DEF InStep, u

\* Headers and bodies take turns, of the same kind two by two.
LEMMA Turns ==
  ASSUME NEW n \in Nat, n > 0
  PROVE  /\ n % 2 = 0 \/ n % 2 = 1
         /\ n % 2 = 0 => n >= 2 /\ (n - 1) % 2 = 1 /\ Kinds(n - 1) = Kinds(n - 2)
                         /\ (n <= 5 => n <= 4) /\ (n <= 3 => n <= 2)
         /\ n % 2 = 1 => /\ (n - 1) % 2 = 0
                         /\ n - 1 <= 1 => n = 1
                         /\ n - 1 > 1 /\ n - 1 <= 3 => n = 3
                         /\ n - 1 > 3 /\ n - 1 <= 5 => n = 5
BY DEF Kinds

\* The part of the flight that comes next is taken, and nothing is the matter.
LEMMA TakenOn ==
  ASSUME Room, NEW t \in Seq(FlightParts), t # <<>>,
         Taken(t, state, msg_type, msg, cv_seen, leaf), hs_feed(t[1])
  PROVE  /\ Taken(Tail(t), state', msg_type', msg', cv_seen', leaf')
         /\ state' # "FAILED" /\ rd_on' = rd_on
<1> DEFINE x == t[1]
           u == Tail(t)
<1> PICK n \in Nat : n = Len(t)
  OBVIOUS
<1>1. /\ n > 0 /\ x \in FlightParts /\ InPlace(x, n - 1)
      /\ u \in Seq(FlightParts) /\ Len(u) = n - 1 /\ InStep(u)
  BY NextPart DEF Taken
<1>2. /\ state = "WAIT_HS"
      /\ IF n % 2 = 0 THEN msg_type = "none" ELSE msg_type \in Kinds(n - 1)
      /\ n <= 4 => leaf
      /\ n <= 2 => cv_seen /\ msg.type = "CV" /\ msg.ok \in {"good", "odd"}
  BY <1>1 DEF Taken
<1>3. /\ n % 2 = 0 \/ n % 2 = 1
      /\ n % 2 = 0 => n >= 2 /\ (n - 1) % 2 = 1 /\ Kinds(n - 1) = Kinds(n - 2)
                      /\ (n <= 5 => n <= 4) /\ (n <= 3 => n <= 2)
      /\ n % 2 = 1 => /\ (n - 1) % 2 = 0
                      /\ n - 1 <= 1 => n = 1
                      /\ n - 1 > 1 /\ n - 1 <= 3 => n = 3
                      /\ n - 1 > 3 /\ n - 1 <= 5 => n = 5
  BY <1>1, Turns
<1> HIDE DEF x, u
<1>4. hs_feed(x)
  BY DEF x
<1>5. SUFFICES /\ state' # "FAILED" /\ rd_on' = rd_on
               /\ state' = "WAIT_HS" <=> n - 1 > 0
               /\ n - 1 > 0 => IF (n - 1) % 2 = 0 THEN msg_type' = "none"
                                                 ELSE msg_type' \in Kinds(n - 2)
               /\ n - 1 <= 4 => leaf'
               /\ n - 1 <= 2 => cv_seen' /\ msg'.type = "CV" /\ msg'.ok \in {"good", "odd"}
  <2>1. (n - 1) - 1 = n - 2
    OBVIOUS
  <2> QED BY <1>1, <2>1 DEF Taken, u
\* A header.
<1>6. CASE n % 2 = 0
  <2>1. x.at = "header" /\ x.m \in Kinds(n - 1)
    BY <1>3, <1>6, <1>1 DEF InPlace
  <2>2. msg_begin(x.m)
    BY <1>4, <2>1 DEF hs_feed
  <2>3. x.m \in {"EE", "CR", "CERT", "CV", "FIN"}
    BY <2>1 DEF Kinds
  <2>4. Proceed /\ msg_type' = x.m /\ UNCHANGED <<msg, cv_seen, rd_on>>
    BY <1>2, <2>2, <2>3 DEF msg_begin, Expected, keys
  <2>5. leaf' = (leaf /\ x.m # "CERT")
    BY <1>2, <2>2 DEF msg_begin
  <2>6. n - 1 <= 4 => leaf'
    <3> SUFFICES ASSUME n - 1 <= 4 PROVE leaf'
      OBVIOUS
    <3>1. n <= 4
      BY <1>3, <1>6
    <3>2. x.m # "CERT"
      BY <2>1, <3>1 DEF Kinds
    <3> QED BY <1>2, <2>5, <3>1, <3>2
  <2>7. n - 1 <= 2 => n <= 2
    BY <1>3, <1>6
  <2>8. n - 1 > 0
    BY <1>3, <1>6
  <2>9. (n - 1) % 2 # 0 /\ msg_type' \in Kinds(n - 2)
    BY <1>3, <1>6, <2>1, <2>4
  <2>10. state' = "WAIT_HS"
    BY <1>2, <2>4 DEF Proceed
  <2> QED BY <1>2, <2>4, <2>6, <2>7, <2>8, <2>9, <2>10
\* A body.
<1>7. CASE n % 2 = 1
  <2>1. /\ x.at = "body" /\ msg_type \in Kinds(n - 1)
        /\ x.ok = "good" \/ (n - 1 = 2 /\ x.ok = "odd")
    BY <1>1, <1>2, <1>3, <1>7 DEF InPlace
  <2>2. msg_type \in {"EE", "CR", "CERT", "CV", "FIN"}
    BY <2>1 DEF Kinds
  <2>3. msg_end(x.ok)
    BY <1>4, <2>1, <2>2 DEF hs_feed
  <2>4. msg_type' = "none"
    BY <2>3 DEF msg_end
  <2>5. CASE n = 1
    <3>1. msg_type = "FIN" /\ x.ok = "good"
      BY <2>1, <2>5 DEF Kinds
    <3>2. server_finished(x.ok) /\ msg' = msg
      BY <2>3, <3>1 DEF msg_end
    <3>3. Enter("VERIFYING") /\ UNCHANGED <<rd_on, cv_seen, leaf>>
      BY <3>1, <3>2 DEF server_finished
    <3> QED BY <1>2, <2>5, <3>2, <3>3 DEF Enter
  <2>6. CASE n # 1
    <3>1. msg_type # "FIN" /\ n > 2
      BY <1>1, <1>3, <1>7, <2>1, <2>6 DEF Kinds
    <3>2. /\ IF msg_type = "EE" \/ x.ok # "malformed" THEN Proceed
             ELSE Fail(IF msg_type = "CERT" THEN "CERT" ELSE "MESSAGE")
          /\ leaf' = (leaf \/ (msg_type = "CERT" /\ x.ok # "malformed"))
          /\ cv_seen' = (cv_seen \/ (msg_type = "CV" /\ x.ok # "malformed"))
          /\ UNCHANGED keys
      BY <2>2, <2>3, <3>1 DEF msg_end
    <3>3. msg' = IF msg_type \in {"SH", "EE", "CR", "CV"} THEN [type |-> msg_type, ok |-> x.ok] ELSE msg
      BY <2>3 DEF msg_end
    <3>4. x.ok # "malformed"
      BY <2>1
    <3>5. Proceed /\ rd_on' = rd_on
      BY <3>2, <3>4 DEF keys
    <3>6. n - 1 <= 2 => msg_type = "CV" /\ x.ok \in {"good", "odd"}
      BY <2>1, <3>1 DEF Kinds
    <3>7. n - 1 <= 2 => cv_seen' /\ msg'.type = "CV" /\ msg'.ok \in {"good", "odd"}
      BY <3>2, <3>3, <3>4, <3>6
    <3>8. n - 1 <= 4 => leaf'
      <4>1. CASE n <= 4
        BY <1>2, <3>2, <4>1
      <4>2. CASE n = 5
        <5>1. msg_type = "CERT"
          BY <2>1, <4>2 DEF Kinds
        <5> QED BY <3>2, <3>4, <5>1
      <4> QED BY <4>1, <4>2
    <3>9. state' = "WAIT_HS" /\ (n - 1) % 2 = 0 /\ n - 1 > 0
      BY <1>2, <1>3, <1>7, <3>1, <3>5 DEF Proceed
    <3> QED BY <2>4, <3>5, <3>7, <3>8, <3>9
  <2> QED BY <2>5, <2>6
<1> QED BY <1>3, <1>6, <1>7

\* The next state's is the next state's.
LEMMA WellGoingLater ==
  WellGoing' <=>
    Going(wire', rec', rd_on', state', msg_type', msg', cv_seen', leaf', Dest')
BY DEF WellGoing, Going, Way, GoodSteps, WholeSteps, Stage, Records, Items, Oks, FlightParts, NoRec, Greets,
       Passes, Goes, Answers, Standard, InStep, InPlace, Kinds, Rest, Taken, Awaiting, Dest

\* How a record is read on.
LEMMA GoesOn ==
  ASSUME UNCHANGED <<wire, srv>>, rec' \in Records, NEW a \in Stage, NEW c \in Stage,
         <<a, rec', c>> \in GoodSteps, Way(wire, 0, WholeSteps, Stage, c, Dest), a.past <=> rd_on',
         IF rd_on' THEN Taken(a.todo, state', msg_type', msg', cv_seen', leaf')
                   ELSE Awaiting(rec', msg_type')
  PROVE  WellGoing'
<1>1. Dest' = Dest
  BY DEF Dest
<1>2. rec' # NoRec
  BY NoRecord
<1>3. Going(wire', rec', rd_on', state', msg_type', msg', cv_seen', leaf', Dest')
  BY <1>1, <1>2 DEF Going
<1> QED BY <1>3, WellGoingLater

\* What changes nothing of it.
LEMMA WellGoingSame ==
  ASSUME WellGoing, UNCHANGED <<wire, rec, rd_on, msg_type, msg, cv_seen, leaf>>, Dest' = Dest,
         state' = "WAIT_HS" <=> state = "WAIT_HS"
  PROVE  WellGoing'
<1>1. \A t : Taken(t, state, msg_type, msg, cv_seen, leaf) => Taken(t, state', msg_type, msg, cv_seen, leaf)
  BY DEF Taken
<1>2. Going(wire, rec, rd_on, state', msg_type, msg, cv_seen, leaf, Dest)
  BY <1>1 DEF WellGoing, Going
<1> QED BY <1>2, WellGoingLater

\* A step of the four is a good one.
LEMMA GoodStep ==
  ASSUME NEW a \in Stage, NEW r \in Records, NEW c \in Stage, r.framed, r.good,
         Greets(a, r, c) \/ Passes(a, r, c) \/ Goes(a, r, c) \/ Answers(a, r, c)
  PROVE  <<a, r, c>> \in GoodSteps
BY DEF GoodSteps

\* A record less its first item.
LEMMA LessOne ==
  ASSUME NEW r \in Records, r.items # <<>>
  PROVE  LET s == [r EXCEPT !.items = Tail(@)]
         IN  /\ s \in Records /\ s.items = Tail(r.items) /\ Head(r.items) = r.items[1]
             /\ s.outer = r.outer /\ s.inner = r.inner /\ s.desc = r.desc
             /\ s.framed = r.framed /\ s.good = r.good
             /\ s.items \in Seq(Items) /\ Len(r.items) \in Nat /\ Len(r.items) > 0
             /\ Len(s.items) = Len(r.items) - 1
             /\ \A i \in 1..Len(s.items) : i + 1 \in 1..Len(r.items) /\ s.items[i] = r.items[i + 1]
             /\ Reply(s) => Reply(r)
<1> DEFINE s == [r EXCEPT !.items = Tail(@)]
<1>1. /\ s \in Records /\ s.items = Tail(r.items)
      /\ s.outer = r.outer /\ s.inner = r.inner /\ s.desc = r.desc
  BY ItemRead
<1>2. s.framed = r.framed /\ s.good = r.good
  BY DEF Records
<1>3. r.items \in Seq(Items) /\ r.items # <<>>
  BY DEF Records
<1> HIDE DEF s
<1>4. /\ s.items \in Seq(Items) /\ Len(r.items) \in Nat /\ Len(r.items) > 0 /\ Head(r.items) = r.items[1]
      /\ Len(s.items) = Len(r.items) - 1
      /\ \A i \in 1..Len(s.items) : i + 1 \in 1..Len(r.items) /\ s.items[i] = r.items[i + 1]
  BY <1>1, <1>3
<1>5. Reply(s) => Reply(r)
  BY <1>1, <1>4 DEF Reply
<1> QED BY <1>1, <1>2, <1>4, <1>5 DEF s

\* A part of the flight read.
LEMMA GoesTail ==
  ASSUME NEW a \in Stage, NEW c \in Stage, NEW r \in Records, r.items # <<>>, Goes(a, r, c),
         r.framed, r.good
  PROVE  /\ a.todo \in Seq(FlightParts) /\ a.todo # <<>> /\ Head(r.items) = a.todo[1]
         /\ [past |-> TRUE, todo |-> Tail(a.todo)] \in Stage
         /\ <<[past |-> TRUE, todo |-> Tail(a.todo)], [r EXCEPT !.items = Tail(@)], c>> \in GoodSteps
<1> DEFINE s == [r EXCEPT !.items = Tail(@)]
           t == a.todo
           u == Tail(t)
           b == [past |-> TRUE, todo |-> u]
<1>1. /\ s \in Records /\ Head(r.items) = r.items[1]
      /\ s.outer = r.outer /\ s.inner = r.inner /\ s.framed /\ s.good
      /\ Len(r.items) \in Nat /\ Len(r.items) > 0
      /\ Len(s.items) = Len(r.items) - 1
      /\ \A i \in 1..Len(s.items) : i + 1 \in 1..Len(r.items) /\ s.items[i] = r.items[i + 1]
  BY LessOne
<1>2. t \in Seq(FlightParts) /\ c.todo \in Seq(FlightParts)
  BY DEF Stage
<1> HIDE DEF s, t
<1>3. /\ r.outer = "appdata" /\ r.inner = "handshake" /\ a.past /\ c.past
      /\ Rest(t, Len(r.items), c.todo)
      /\ \A i \in 1..Len(r.items) : r.items[i] = t[i]
  BY DEF Goes, t
<1>4. Len(t) \in Nat /\ Len(r.items) <= Len(t)
  BY <1>2, <1>3 DEF Rest
<1>5. /\ t # <<>> /\ u \in Seq(FlightParts) /\ Head(r.items) = t[1]
      /\ \A i \in 1..(Len(t) - 1) : u[i] = t[i + 1]
  BY <1>1, <1>2, <1>3, <1>4
<1>6. Rest(u, Len(r.items) - 1, c.todo)
  BY <1>1, <1>2, <1>3, RestTail
<1>7. \A i \in 1..Len(s.items) : s.items[i] = u[i]
  BY <1>1, <1>3, <1>4, <1>5
<1>8. b \in Stage /\ b.past /\ b.todo = u
  BY <1>5 DEF Stage
<1> HIDE DEF b, u
<1>9. Goes(b, s, c)
  BY <1>1, <1>3, <1>6, <1>7, <1>8 DEF Goes
<1>10. <<b, s, c>> \in GoodSteps
  BY <1>1, <1>8, <1>9, GoodStep
<1> QED BY <1>2, <1>5, <1>8, <1>10 DEF b, u, s, t

\* The items of a record that follow the first, in each other case.
LEMMA OthersTail ==
  ASSUME NEW a \in Stage, NEW c \in Stage, NEW r \in Records, r.items # <<>>, r.framed, r.good,
         Passes(a, r, c) \/ Answers(a, r, c)
  PROVE  <<a, [r EXCEPT !.items = Tail(@)], c>> \in GoodSteps
<1> DEFINE s == [r EXCEPT !.items = Tail(@)]
<1>1. /\ s \in Records /\ s.outer = r.outer /\ s.inner = r.inner /\ s.desc = r.desc
      /\ s.framed /\ s.good
      /\ \A i \in 1..Len(s.items) : i + 1 \in 1..Len(r.items) /\ s.items[i] = r.items[i + 1]
  BY LessOne
<1> HIDE DEF s
<1>2. Passes(a, r, c) => Passes(a, s, c)
  BY <1>1 DEF Passes
<1>3. Answers(a, r, c) => Answers(a, s, c)
  BY <1>1 DEF Answers
<1>4. <<a, s, c>> \in GoodSteps
  BY <1>1, <1>2, <1>3, GoodStep
<1> QED BY <1>4 DEF s

\* The ServerHello's header, and its body.
LEMMA GreetsTail ==
  ASSUME NEW a \in Stage, NEW c \in Stage, NEW r \in Records, r.items # <<>>, r.framed, r.good,
         Greets(a, r, c)
  PROVE  /\ r.outer = "handshake" /\ ~a.past /\ c.past /\ Standard(c.todo)
         /\ \/ /\ Len(r.items) = 2 /\ Head(r.items).at = "header" /\ Head(r.items).m = "SH"
               /\ Len(Tail(r.items)) = 1 /\ <<a, [r EXCEPT !.items = Tail(@)], c>> \in GoodSteps
            \/ /\ Len(r.items) = 1 /\ Head(r.items).at = "body" /\ Head(r.items).ok = "good"
               /\ <<c, [r EXCEPT !.items = Tail(@)], c>> \in GoodSteps
<1> DEFINE s == [r EXCEPT !.items = Tail(@)]
<1>1. /\ s \in Records /\ s.outer = r.outer /\ s.framed /\ s.good /\ s.items = Tail(r.items)
      /\ Head(r.items) = r.items[1] /\ s.items \in Seq(Items)
      /\ Len(r.items) \in Nat /\ Len(r.items) > 0 /\ Len(s.items) = Len(r.items) - 1
      /\ \A i \in 1..Len(s.items) : i + 1 \in 1..Len(r.items) /\ s.items[i] = r.items[i + 1]
  BY LessOne
<1> HIDE DEF s
<1>2. /\ r.outer = "handshake" /\ c.past /\ ~a.past /\ Standard(c.todo)
      /\ \/ /\ Len(r.items) = 2
            /\ r.items[1].at = "header" /\ r.items[1].m = "SH"
            /\ r.items[2].at = "body" /\ r.items[2].ok = "good"
         \/ Len(r.items) = 1 /\ r.items[1].at = "body" /\ r.items[1].ok = "good"
  BY DEF Greets
<1>3. CASE /\ Len(r.items) = 2
           /\ r.items[1].at = "header" /\ r.items[1].m = "SH"
           /\ r.items[2].at = "body" /\ r.items[2].ok = "good"
  <2>1. Len(s.items) = 1 /\ s.items[1] = r.items[2]
    BY <1>1, <1>3
  <2>2. Greets(a, s, c)
    BY <1>1, <1>2, <1>3, <2>1 DEF Greets
  <2>3. <<a, s, c>> \in GoodSteps
    BY <1>1, <2>2, GoodStep
  <2> QED BY <1>1, <1>2, <1>3, <2>1, <2>3 DEF s
<1>4. CASE Len(r.items) = 1 /\ r.items[1].at = "body" /\ r.items[1].ok = "good"
  <2>1. s.items = <<>>
    <3>1. Len(s.items) = 0
      BY <1>1, <1>4
    <3> QED BY <1>1, <3>1, EmptySeq
  <2>2. Greets(c, s, c)
    BY <1>1, <1>2, <2>1 DEF Greets
  <2>3. <<c, s, c>> \in GoodSteps
    BY <1>1, <2>2, GoodStep
  <2> QED BY <1>1, <1>2, <1>4, <2>3 DEF s
<1> QED BY <1>2, <1>3, <1>4

-----------------------------------------------------------------------------
(* The multiplier table *)

\* What begins, goes on with or ends no record, and seals nothing.
LEMMA MacSame ==
  ASSUME MacFits, UNCHANGED <<mac, rd_on, rec>>
  PROVE  MacFits'
BY DEF MacFits, Sealed

\* The table as the reader leaves it, and as a record sealed does.
LEMMA MacTypes ==
  ASSUME MacFits
  PROVE  /\ Fresh \in [for : {"rd", "wr"}, ready : BOOLEAN, garbled : BOOLEAN]
         /\ ~Fresh.garbled /\ Fresh.for = "rd"
         /\ Blocked \in [for : {"rd", "wr"}, ready : BOOLEAN, garbled : BOOLEAN]
         /\ SealedOver(mac) \in [for : {"rd", "wr"}, ready : BOOLEAN, garbled : BOOLEAN]
         /\ SealedOver(Blocked) \in [for : {"rd", "wr"}, ready : BOOLEAN, garbled : BOOLEAN]
         /\ ~SealedOver(mac).ready /\ ~SealedOver(Blocked).ready
         /\ SealedOver(mac).garbled = mac.garbled /\ SealedOver(Blocked).garbled = Blocked.garbled
         /\ Sealed => ~Blocked.garbled /\ Blocked.for = "rd"
<1>1. /\ mac \in [for : {"rd", "wr"}, ready : BOOLEAN, garbled : BOOLEAN]
      /\ Sealed => ~mac.garbled /\ (mac.ready => mac.for = "rd")
  BY DEF MacFits
<1>2. /\ mac.for \in {"rd", "wr"} /\ mac.ready \in BOOLEAN /\ mac.garbled \in BOOLEAN
      /\ DOMAIN mac = {"for", "ready", "garbled"}
  BY <1>1
<1>3. /\ Blocked \in [for : {"rd", "wr"}, ready : BOOLEAN, garbled : BOOLEAN]
      /\ Blocked.for = IF mac.ready THEN mac.for ELSE "rd"
      /\ Blocked.garbled <=> mac.garbled \/ (mac.ready /\ mac.for # "rd")
  BY <1>1, <1>2 DEF Blocked
<1>4. ASSUME NEW m \in [for : {"rd", "wr"}, ready : BOOLEAN, garbled : BOOLEAN]
      PROVE  /\ SealedOver(m) \in [for : {"rd", "wr"}, ready : BOOLEAN, garbled : BOOLEAN]
             /\ ~SealedOver(m).ready /\ SealedOver(m).garbled = m.garbled
  BY <1>4 DEF SealedOver
<1>5. /\ Fresh \in [for : {"rd", "wr"}, ready : BOOLEAN, garbled : BOOLEAN]
      /\ ~Fresh.garbled /\ Fresh.for = "rd"
  BY DEF Fresh
<1>6. Sealed => ~Blocked.garbled /\ Blocked.for = "rd"
  BY <1>1, <1>3
<1> QED BY <1>1, <1>3, <1>4, <1>5, <1>6

\* The table is the reader's whenever the reader takes it to be.
LEMMA MacKeeps ==
  ASSUME RInv, MacFits, [Next]_vars
  PROVE  MacFits'
<1>1. EngineTypes /\ ServerTypes /\ Keys /\ (state = "WAIT_HS" => Room)
  BY NothingQueued DEF RInv, CInv
<1>2. CASE ReadStart
  <2>1. rec' = Head(wire) /\ UNCHANGED rd_on
        /\ mac' = IF rd_on /\ rec'.outer = "appdata" THEN Fresh ELSE mac
    BY <1>2 DEF ReadStart, record_start, keys
  <2> QED BY <2>1, MacTypes DEF MacFits, Sealed
<1>3. CASE ReadContent
  <2>1. Content
    BY <1>3 DEF ReadContent
  <2>2. /\ rec \in Records /\ rec.items # <<>> /\ rec' = [rec EXCEPT !.items = Tail(@)]
        /\ Quiet \/ HelloTaken \/ FinishedTaken
    BY <1>1, <2>1, ContentEffect
  <2>3. rec'.outer = rec.outer
    BY <2>2, ItemRead
  <2>4. mac' \in {mac, Blocked, SealedOver(mac), SealedOver(Blocked)}
        /\ (Sealed => mac' \in {Blocked, SealedOver(Blocked)})
    BY <2>1 DEF Content
  <2>5. Sealed' => Sealed
    <3>1. rd_on' = rd_on \/ rec.outer = "handshake"
      BY <2>2 DEF Quiet, HelloTaken, FinishedTaken
    <3> QED BY <2>3, <3>1 DEF Sealed
  <2>6. mac' \in [for : {"rd", "wr"}, ready : BOOLEAN, garbled : BOOLEAN]
    BY <2>4, MacTypes DEF MacFits
  <2>7. Sealed' => ~mac'.garbled /\ (mac'.ready => mac'.for = "rd")
    <3> SUFFICES ASSUME Sealed' PROVE ~mac'.garbled /\ (mac'.ready => mac'.for = "rd")
      OBVIOUS
    <3>1. mac' = Blocked \/ mac' = SealedOver(Blocked)
      BY <2>4, <2>5
    <3>2. ~Blocked.garbled /\ Blocked.for = "rd"
      BY <2>5, MacTypes
    <3>3. ~SealedOver(Blocked).garbled /\ ~SealedOver(Blocked).ready
      BY <3>2, MacTypes
    <3> QED BY <3>1, <3>2, <3>3
  <2> QED BY <2>6, <2>7 DEF MacFits
<1>4. CASE ReadEnd
  <2>1. rec' = NoRec /\ mac' \in {mac, Blocked}
    BY <1>4 DEF ReadEnd, record_end
  <2> QED BY <2>1, MacTypes, NoRecord DEF MacFits, Sealed
<1>5. CASE conn_send \/ conn_close
  <2>1. /\ mac' = mac \/ mac' = SealedOver(mac)
        /\ UNCHANGED <<rd_on, rec>>
    BY <1>5 DEF conn_send, conn_close, tls_write, tls_close, record
  <2>2. CASE mac' = mac
    BY <2>1, <2>2, MacSame
  <2>3. CASE mac' = SealedOver(mac)
    <3>1. Sealed' => Sealed
      BY <2>1 DEF Sealed
    <3>2. ~mac'.ready /\ mac'.garbled = mac.garbled
          /\ mac' \in [for : {"rd", "wr"}, ready : BOOLEAN, garbled : BOOLEAN]
      BY <2>3, MacTypes
    <3> QED BY <3>1, <3>2 DEF MacFits
  <2> QED BY <2>1, <2>2, <2>3
<1>6. CASE conn_open
  <2>1. CASE tls_start
    <3>1. rec' = NoRec /\ mac' = mac
      BY <2>1 DEF tls_start
    <3> QED BY <3>1, NoRecord DEF MacFits, Sealed
  <2>2. CASE UNCHANGED engine
    <3>1. UNCHANGED <<mac, rd_on, rec>>
      BY <2>2 DEF engine, keys, record
    <3> QED BY <3>1, MacSame
  <2> QED BY <1>6, <2>1, <2>2 DEF conn_open
<1>7. CASE Verify \/ PushOut
  <2>1. UNCHANGED <<mac, rd_on, rec>>
    BY <1>7 DEF Verify, tls_verify, PushOut, keys, record
  <2> QED BY <2>1, MacSame
<1>8. CASE UNCHANGED engine
  <2>1. UNCHANGED <<mac, rd_on, rec>>
    BY <1>8 DEF engine, keys, record
  <2> QED BY <2>1, MacSame
<1>9. CASE PumpFed \/ PumpRound \/ PumpGivesUp \/ conn_sent \/ conn_closed \/ conn_abort \/ Socket
            \/ Server \/ UNCHANGED vars
  <2>1. UNCHANGED engine
    BY <1>9 DEF PumpFed, PumpRound, PumpGivesUp, conn_sent, conn_closed, conn_abort, Socket, Drop,
                 WindowShuts, WindowOpens, Server, ServerHello, ServerFlight, ServerCCS, ServerHears,
                 ServerReplies, ServerRefuses, ServerStep, vars
  <2> QED BY <1>8, <2>1
<1> QED BY <1>2, <1>3, <1>4, <1>5, <1>6, <1>7, <1>9 DEF Next, Client, Choice

-----------------------------------------------------------------------------
(* The steps of the client's that read *)

\* What was sent stays sent.
LEMMA FinStays ==
  ASSUME sent \in Seq(OutRecords), FinSent,
         sent' = sent \/ \E x \in OutRecords : sent' = Append(sent, x)
  PROVE  FinSent'
<1> PICK i \in 1..Len(sent) : IsFin(sent[i])
  BY DEF FinSent
<1>1. i \in 1..Len(sent') /\ sent'[i] = sent[i]
  OBVIOUS
<1>2. IsFin(sent'[i])
  BY <1>1
<1> QED BY <1>1, <1>2 DEF FinSent, IsFin

\* A record begun.
LEMMA StartGoes ==
  ASSUME HInv, ReadStart
  PROVE  InTurn' /\ Unfailed'
<1>1. /\ Reading /\ rec = NoRec /\ rec' = Head(wire) /\ wire # <<>> /\ wire' = Tail(wire)
      /\ rec_connected' = (state = "CONNECTED")
      /\ IF ~rec'.framed \/ (rd_on /\ rec'.outer = "handshake") THEN Fail("RECORD") ELSE Proceed
      /\ UNCHANGED <<rd_on, msg_type, msg, cv_seen, leaf, srv, sent, conn>> /\ InPhase
  BY DEF ReadStart, record_start, keys, message
<1>2. wire \in Seq(Records)
  BY DEF HInv, RInv, CInv, ServerTypes
<1>3. /\ rec' \in Records /\ rec' = wire[1] /\ 1 \in 1..Len(wire)
      /\ \A i \in 1..Len(wire') : i + 1 \in 1..Len(wire) /\ wire'[i] = wire[i + 1]
  BY <1>1, <1>2
<1>4. rec' # NoRec
  BY <1>3, NoRecord
<1>5. InTurn'
  <2>1. FinSent' <=> FinSent
    BY <1>1 DEF FinSent, IsFin
  <2>2. InTurn
    BY DEF HInv
  <2>3. \A i \in 1..Len(wire') : Reply(wire'[i]) => FinSent
    BY <1>3, <2>2 DEF InTurn
  <2>4. Reply(rec') => FinSent
    BY <1>3, <2>2 DEF InTurn
  <2>5. rec'.inner = "appdata" => rec_connected'
    <3> SUFFICES ASSUME rec'.inner = "appdata" PROVE state = "CONNECTED"
      BY <1>1
    <3>1. FinSent
      BY <2>4 DEF Reply
    <3>2. conn = "open"
      BY <1>1, <2>2, <3>1 DEF InTurn, InPhase
    <3> QED BY <1>1, <2>2, <3>2 DEF InTurn, Reading
  <2>6. conn \in {"open", "send", "close"} => state' \in {"CONNECTED", "CLOSED", "FAILED"}
    BY <1>1, <2>2 DEF InTurn, Fail, Proceed
  <2>7. \A i \in 1..Len(wire') : Reply(wire[i])' => FinSent'
    BY <2>1, <2>3 DEF Reply
  <2>8. Reply(rec)' => FinSent'
    BY <2>1, <2>4 DEF Reply
  <2> QED BY <1>1, <2>1, <2>2, <2>5, <2>6, <2>7, <2>8 DEF InTurn
<1>6. ASSUME srv.honest PROVE state' # "FAILED" /\ WellGoing'
  <2>1. WellGoing /\ state # "FAILED"
    BY <1>1, <1>6 DEF HInv, Unfailed
  <2> PICK a \in Stage, c \in Stage :
        /\ IF rec = NoRec THEN c = a ELSE <<a, rec, c>> \in GoodSteps
        /\ Way(wire, 0, WholeSteps, Stage, c, Dest)
        /\ a.past <=> rd_on
        /\ IF rd_on THEN Taken(a.todo, state, msg_type, msg, cv_seen, leaf) ELSE Awaiting(rec, msg_type)
    BY <2>1 DEF WellGoing, Going
  <2> PICK b \in Stage : <<c, Head(wire), b>> \in WholeSteps /\ Way(Tail(wire), 0, WholeSteps, Stage, b, Dest)
    BY <1>1, <1>2, WayTail
  <2>2. /\ <<a, rec', b>> \in GoodSteps /\ rec'.framed
        /\ rec'.outer = "handshake" => Len(rec'.items) = 2 /\ rec'.items # <<>>
        /\ Greets(a, rec', b) \/ rec'.outer # "handshake"
    <3>1. <<a, rec', b>> \in WholeSteps
      BY <1>1
    <3>2. <<a, rec', b>> \in GoodSteps
      BY <3>1 DEF WholeSteps
    <3>3. rec'.outer = "handshake" => Len(rec'.items) = 2 /\ rec'.items # <<>>
      BY <3>1 DEF WholeSteps, GoodSteps
    <3>4. rec'.framed /\ (Greets(a, rec', b) \/ rec'.outer # "handshake")
      BY <3>2 DEF GoodSteps, Passes, Goes, Answers
    <3> QED BY <3>2, <3>3, <3>4
  <2>3. rec'.outer = "handshake" => ~rd_on
    <3> SUFFICES ASSUME rec'.outer = "handshake" PROVE ~a.past
      OBVIOUS
    <3>1. Greets(a, rec', b) /\ rec'.items # <<>>
      BY <2>2
    <3> QED BY <3>1 DEF Greets
  <2>4. Proceed
    BY <1>1, <2>2, <2>3
  <2>5. ~rd_on => Awaiting(rec', msg_type)
    <3>1. ~rd_on => msg_type = "none"
      BY <1>1 DEF Awaiting
    <3>2. rec'.outer # "handshake" \/ Len(rec'.items) # 1
      <4>1. rec'.outer = "handshake" => Len(rec'.items) = 2
        BY <2>2
      <4> QED BY <4>1
    <3> QED BY <3>1, <3>2 DEF Awaiting
  <2>6. Dest' = Dest
    BY <1>1 DEF Dest
  <2>7. Going(wire', rec', rd_on, state, msg_type, msg, cv_seen, leaf, Dest)
    BY <1>1, <1>4, <2>2, <2>5 DEF Going
  <2>8. WellGoing'
    BY <1>1, <2>4, <2>6, <2>7, WellGoingLater DEF Proceed
  <2> QED BY <2>1, <2>4, <2>8 DEF Proceed
<1> QED BY <1>1, <1>5, <1>6 DEF HInv, Unfailed

\* A record ended leaves its reader where it led.
LEMMA EndsThere ==
  ASSUME NEW a \in Stage, NEW r \in Records, NEW c \in Stage, <<a, r, c>> \in GoodSteps,
         r.items = <<>>
  PROVE  c = a /\ r.good /\ (r.inner = "alert" /\ r.outer = "appdata" => r.desc = "close")
<1>1. r.good /\ Len(r.items) = 0
      /\ (Greets(a, r, c) \/ Passes(a, r, c) \/ Goes(a, r, c) \/ Answers(a, r, c))
  BY DEF GoodSteps
<1>2. CASE Greets(a, r, c)
  BY <1>1, <1>2 DEF Greets
<1>3. CASE Passes(a, r, c)
  BY <1>1, <1>3 DEF Passes
<1>4. CASE Goes(a, r, c)
  <2>1. a.past /\ c.past /\ Rest(a.todo, 0, c.todo) /\ r.inner = "handshake"
    BY <1>1, <1>4 DEF Goes
  <2>2. a.todo \in Seq(FlightParts) /\ c.todo \in Seq(FlightParts)
    BY DEF Stage
  <2>3. c.todo = a.todo
    BY <2>1, <2>2, RestAll
  <2>4. c = a
    BY <2>1, <2>3 DEF Stage
  <2> QED BY <1>1, <2>1, <2>4
<1>5. CASE Answers(a, r, c)
  BY <1>1, <1>5 DEF Answers
<1> QED BY <1>1, <1>2, <1>3, <1>4, <1>5

\* A record ended.
LEMMA EndGoes ==
  ASSUME HInv, ReadEnd
  PROVE  InTurn' /\ Unfailed'
<1>1. record_end /\ UNCHANGED <<wire, srv, sent, conn>>
  BY DEF ReadEnd
<1>2. EngineTypes /\ Keys /\ InTurn /\ MacFits
  BY DEF HInv, RInv, CInv
<1>3. /\ Reading /\ rec \in Records /\ rec.items = <<>> /\ rec' = NoRec /\ rec # NoRec
      /\ UNCHANGED <<rd_on, msg_type, msg, cv_seen, leaf, rec_connected>>
      /\ Proceed \/ Failing \/ Closing
  <2>1. UNCHANGED <<msg, msg_type, cv_seen, leaf>>
    BY <1>1 DEF record_end, message
  <2> QED BY <1>1, <1>2, <2>1, EndEffect, NoRecord
<1>4. InTurn'
  <2>1. FinSent' <=> FinSent
    BY <1>1 DEF FinSent, IsFin
  <2>2. \A i \in 1..Len(wire') : Reply(wire[i])' => FinSent'
    BY <1>1, <1>2, <2>1 DEF InTurn, Reply
  <2>3. conn \in {"open", "send", "close"} => state' \in {"CONNECTED", "CLOSED", "FAILED"}
    BY <1>2, <1>3 DEF InTurn, Proceed, Failing, Closing
  <2> QED BY <1>1, <1>2, <1>3, <2>1, <2>2, <2>3 DEF InTurn
<1>5. ASSUME srv.honest PROVE state' # "FAILED" /\ (Reading' => WellGoing')
  <2>1. WellGoing /\ state # "FAILED"
    BY <1>3, <1>5 DEF HInv, Unfailed
  <2> PICK a \in Stage, c \in Stage :
        /\ IF rec = NoRec THEN c = a ELSE <<a, rec, c>> \in GoodSteps
        /\ Way(wire, 0, WholeSteps, Stage, c, Dest)
        /\ a.past <=> rd_on
        /\ IF rd_on THEN Taken(a.todo, state, msg_type, msg, cv_seen, leaf) ELSE Awaiting(rec, msg_type)
    BY <2>1 DEF WellGoing, Going
  <2>2. c = a /\ rec.good /\ (rec.inner = "alert" /\ rec.outer = "appdata" => rec.desc = "close")
    <3>1. <<a, rec, c>> \in GoodSteps
      BY <1>3
    <3> QED BY <1>3, <3>1, EndsThere
  <2>3. Sealed => TagOk
    <3> SUFFICES ASSUME Sealed PROVE TagOk
      OBVIOUS
    <3>1. rec.key = rd.key /\ rec.seq = rd.seq
      BY <1>3 DEF HInv, RInv, Reads, KeysInStep
    <3>2. ~Blocked.garbled
      BY <1>2, MacTypes
    <3> QED BY <2>2, <3>1, <3>2 DEF TagOk, Genuine
  <2>4. rec.inner = "appdata" => rec_connected
    BY <1>2, <1>3 DEF InTurn
  <2>5. Proceed \/ Enter("CLOSED")
    BY <1>1, <2>2, <2>3, <2>4 DEF record_end, alert_in, Sealed
  <2>6. state' # "FAILED" /\ (Reading' => state' = state)
    BY <2>1, <2>5 DEF Proceed, Enter, Reading
  <2>7. ASSUME Reading' PROVE WellGoing'
    <3>1. Dest' = Dest
      BY <1>1 DEF Dest
    <3>2. ~rd_on => Awaiting(NoRec, msg_type)
      <4>1. Len(rec.items) = 0
        BY <1>3
      <4> QED BY <4>1 DEF Awaiting
    <3>3. Going(wire, NoRec, rd_on, state, msg_type, msg, cv_seen, leaf, Dest)
      BY <2>2, <3>2 DEF Going
    <3> QED BY <1>1, <1>3, <2>6, <2>7, <3>1, <3>3, WellGoingLater
  <2> QED BY <2>6, <2>7
<1> QED BY <1>1, <1>5, <1>4 DEF HInv, Unfailed

\* An item changes the state only so, and no reply is read before its turn.
LEMMA ContentInTurn ==
  ASSUME HInv, ReadContent
  PROVE  InTurn'
<1>1. Content /\ UNCHANGED <<wire, srv, sent, conn>>
  BY DEF ReadContent
<1>2. EngineTypes /\ Keys /\ InTurn /\ (state = "WAIT_HS" => Room)
  BY NothingQueued DEF HInv, RInv, CInv
<1>3. /\ rec \in Records /\ rec.items # <<>> /\ rec # NoRec
      /\ rec' = [rec EXCEPT !.items = Tail(@)] /\ UNCHANGED rec_connected
      /\ Quiet \/ HelloTaken \/ FinishedTaken
  BY <1>1, <1>2, ContentEffect, NoRecord
<1>4. rec'.inner = rec.inner /\ (Reply(rec') => Reply(rec))
  BY <1>3, LessOne
<1>5. FinSent' <=> FinSent
  BY <1>1 DEF FinSent, IsFin
<1>6. \A i \in 1..Len(wire') : Reply(wire[i])' => FinSent'
  BY <1>1, <1>2, <1>5 DEF InTurn, Reply
<1>7. conn \in {"open", "send", "close"} => state' \in {"CONNECTED", "CLOSED", "FAILED"}
  BY <1>2, <1>3 DEF InTurn, Quiet, Proceed, Failing, Closing, HelloTaken, FinishedTaken
<1>8. Reply(rec)' => FinSent'
  <2>1. Reply(rec)' => Reply(rec')
    BY DEF Reply
  <2> QED BY <1>2, <1>3, <1>4, <1>5, <2>1 DEF InTurn
<1>9. rec' # NoRec => (rec'.inner = "appdata" => rec_connected')
  BY <1>2, <1>3, <1>4 DEF InTurn
<1> QED BY <1>1, <1>2, <1>5, <1>6, <1>7, <1>8, <1>9 DEF InTurn

\* The first item of what comes after the handshake is a reply, which is read
\* when the connection is open.
LEMMA AnswerRead ==
  ASSUME HInv, ReadContent, NEW a \in Stage, NEW c \in Stage, Answers(a, rec, c), a.past <=> rd_on
  PROVE  UNCHANGED <<state, rd_on, msg_type, msg, cv_seen, leaf>> /\ state = "CONNECTED"
<1>1. Content /\ Reading /\ InPhase
  BY DEF ReadContent, Content
<1>2. EngineTypes /\ InTurn
  BY DEF HInv, RInv, CInv
<1>3. rec \in Records /\ rec.items # <<>> /\ rec # NoRec
  BY <1>1, <1>2, NoRecord DEF EngineTypes, Content
<1>4. 1 \in 1..Len(rec.items)
  BY <1>3 DEF Records
<1>5. Reply(rec) /\ rec.outer = "appdata" /\ rd_on
  BY <1>4 DEF Answers, Reply
<1>6. state = "CONNECTED"
  BY <1>1, <1>2, <1>3, <1>5 DEF InTurn, InPhase, Reading
<1> QED BY <1>1, <1>5, <1>6 DEF Content, Sealed, keys, message

\* An item read of an honest server's record.
LEMMA ContentGoes ==
  ASSUME HInv, ReadContent, srv.honest
  PROVE  state' # "FAILED" /\ WellGoing'
<1>1. Content /\ UNCHANGED <<wire, srv>> /\ Reading
  BY DEF ReadContent, Content
<1>2. EngineTypes /\ Keys /\ InTurn /\ (state = "WAIT_HS" => Room)
  BY NothingQueued DEF HInv, RInv, CInv
<1>3. /\ rec \in Records /\ rec.items # <<>> /\ rec # NoRec
      /\ rec' = [rec EXCEPT !.items = Tail(@)] /\ rec' \in Records
      /\ rec'.outer = rec.outer /\ rec'.items = Tail(rec.items)
  <2>1. rec \in Records /\ rec.items # <<>> /\ rec' = [rec EXCEPT !.items = Tail(@)]
    BY <1>1, <1>2, ContentEffect
  <2> QED BY <2>1, LessOne, NoRecord
<1>4. WellGoing /\ state # "FAILED"
  BY <1>1 DEF HInv, Unfailed
<1> PICK a \in Stage, c \in Stage :
      /\ IF rec = NoRec THEN c = a ELSE <<a, rec, c>> \in GoodSteps
      /\ Way(wire, 0, WholeSteps, Stage, c, Dest)
      /\ a.past <=> rd_on
      /\ IF rd_on THEN Taken(a.todo, state, msg_type, msg, cv_seen, leaf) ELSE Awaiting(rec, msg_type)
  BY <1>4 DEF WellGoing, Going
<1>5. <<a, rec, c>> \in GoodSteps
  BY <1>3
<1>6. /\ rec.framed /\ rec.good
      /\ Greets(a, rec, c) \/ Passes(a, rec, c) \/ Goes(a, rec, c) \/ Answers(a, rec, c)
  BY <1>5 DEF GoodSteps
\* A step that moves neither the client's place nor what it has.
<1>7. ASSUME UNCHANGED <<state, rd_on, msg_type, msg, cv_seen, leaf>>, rec.outer # "handshake",
             <<a, rec', c>> \in GoodSteps
      PROVE  state' # "FAILED" /\ WellGoing'
  <2>1. ~rd_on => Awaiting(rec', msg_type)
    BY <1>3, <1>7 DEF Awaiting
  <2>2. IF rd_on' THEN Taken(a.todo, state', msg_type', msg', cv_seen', leaf')
                  ELSE Awaiting(rec', msg_type')
    BY <1>7, <2>1
  <2> QED BY <1>1, <1>3, <1>4, <1>7, <2>2, GoesOn
<1>8. CASE Passes(a, rec, c)
  <2>1. UNCHANGED <<state, rd_on, msg_type, msg, cv_seen, leaf>> /\ rec.outer = "ccs"
    BY <1>1, <1>8 DEF Passes, Content, Sealed, keys, message
  <2>2. <<a, rec', c>> \in GoodSteps
    BY <1>3, <1>6, <1>8, OthersTail
  <2> QED BY <1>7, <2>1, <2>2
<1>9. CASE Answers(a, rec, c)
  <2>1. UNCHANGED <<state, rd_on, msg_type, msg, cv_seen, leaf>>
    BY <1>9, AnswerRead
  <2>2. <<a, rec', c>> \in GoodSteps /\ rec.outer = "appdata"
    BY <1>3, <1>6, <1>9, OthersTail DEF Answers
  <2> QED BY <1>7, <2>1, <2>2
<1>10. CASE Goes(a, rec, c)
  <2> DEFINE t == a.todo
             b == [past |-> TRUE, todo |-> Tail(t)]
  <2>1. /\ t \in Seq(FlightParts) /\ t # <<>> /\ Head(rec.items) = t[1]
        /\ b \in Stage /\ b.past /\ b.todo = Tail(t)
        /\ <<b, rec', c>> \in GoodSteps
    BY <1>3, <1>6, <1>10, GoesTail
  <2>2. Sealed /\ rd_on /\ Taken(t, state, msg_type, msg, cv_seen, leaf)
    BY <1>10 DEF Goes, Sealed
  <2>3. state = "WAIT_HS"
    <3>1. Len(t) > 0
      BY <2>1
    <3> QED BY <2>2, <3>1 DEF Taken
  <2> HIDE DEF t, b
  <2>4. hs_feed(t[1])
    BY <1>1, <1>10, <2>1, <2>2, <2>3 DEF Content, Goes
  <2>5. /\ Taken(b.todo, state', msg_type', msg', cv_seen', leaf')
        /\ state' # "FAILED" /\ rd_on' = rd_on
    BY <1>2, <2>1, <2>2, <2>3, <2>4, TakenOn
  <2> QED BY <1>1, <1>3, <2>1, <2>2, <2>5, GoesOn
<1>11. CASE Greets(a, rec, c)
  <2> DEFINE x == Head(rec.items)
  <2>1. /\ rec.outer = "handshake" /\ ~a.past /\ c.past /\ Standard(c.todo)
        /\ \/ /\ Len(rec.items) = 2 /\ x.at = "header" /\ x.m = "SH"
              /\ Len(rec'.items) = 1 /\ <<a, rec', c>> \in GoodSteps
           \/ /\ Len(rec.items) = 1 /\ x.at = "body" /\ x.ok = "good"
              /\ <<c, rec', c>> \in GoodSteps
    <3>1. /\ rec.outer = "handshake" /\ ~a.past /\ c.past /\ Standard(c.todo)
          /\ \/ /\ Len(rec.items) = 2 /\ Head(rec.items).at = "header" /\ Head(rec.items).m = "SH"
                /\ Len(Tail(rec.items)) = 1 /\ <<a, [rec EXCEPT !.items = Tail(@)], c>> \in GoodSteps
             \/ /\ Len(rec.items) = 1 /\ Head(rec.items).at = "body" /\ Head(rec.items).ok = "good"
                /\ <<c, [rec EXCEPT !.items = Tail(@)], c>> \in GoodSteps
      <4>1. rec \in Records /\ rec.items # <<>> /\ rec.framed /\ rec.good
        BY <1>3, <1>6
      <4> QED BY <4>1, <1>11, GreetsTail
    <3> QED BY <1>3, <3>1
  <2>2. ~rd_on /\ state = "WAIT_SH" /\ ~Sealed /\ Awaiting(rec, msg_type)
    <3>1. ~rd_on
      BY <2>1
    <3>2. state = "WAIT_SH"
      BY <1>1, <1>2, <3>1 DEF Reading, Keys
    <3> QED BY <3>1, <3>2 DEF Sealed
  <2> HIDE DEF x
  <2>3. hs_feed(x)
    BY <1>1, <2>1, <2>2 DEF Content, x
  <2>4. CASE /\ Len(rec.items) = 2 /\ x.at = "header" /\ x.m = "SH"
             /\ Len(rec'.items) = 1 /\ <<a, rec', c>> \in GoodSteps
    <3>1. msg_begin("SH")
      BY <2>3, <2>4 DEF hs_feed
    <3>2. Proceed /\ msg_type' = "SH" /\ rd_on' = rd_on
      BY <2>2, <3>1 DEF msg_begin, Expected, keys
    <3>3. Awaiting(rec', msg_type')
      <4>1. rec' # NoRec
        BY <1>3, NoRecord
      <4> QED BY <1>3, <2>1, <2>4, <3>2, <4>1 DEF Awaiting
    <3>4. state' # "FAILED" /\ ~rd_on'
      BY <2>2, <3>2 DEF Proceed
    <3> QED BY <1>1, <1>3, <2>1, <2>4, <3>3, <3>4, GoesOn
  <2>5. CASE /\ Len(rec.items) = 1 /\ x.at = "body" /\ x.ok = "good"
             /\ <<c, rec', c>> \in GoodSteps
    <3>1. msg_type = "SH"
      BY <1>3, <2>1, <2>2, <2>5 DEF Awaiting
    <3>2. msg_end(x.ok)
      BY <2>3, <2>5, <3>1 DEF hs_feed
    <3>3. server_hello(x.ok) /\ msg_type' = "none"
      BY <3>1, <3>2 DEF msg_end
    <3>4. state' = "WAIT_HS" /\ rd_on'
      BY <2>5, <3>3 DEF server_hello, Enter
    <3>5. Taken(c.todo, state', msg_type', msg', cv_seen', leaf')
      <4>1. c.todo \in Seq(FlightParts)
        BY DEF Stage
      <4>2. InStep(c.todo) /\ Len(c.todo) >= 6 /\ Len(c.todo) % 2 = 0
        BY <2>1 DEF Standard
      <4>3. Len(c.todo) \in Nat
        BY <4>1
      <4>4. Len(c.todo) > 0 /\ ~(Len(c.todo) <= 4) /\ ~(Len(c.todo) <= 2)
        BY <4>2, <4>3
      <4> QED BY <3>3, <3>4, <4>2, <4>4 DEF Taken
    <3> QED BY <1>1, <1>3, <2>1, <2>5, <3>4, <3>5, GoesOn
  <2> QED BY <2>1, <2>4, <2>5
<1> QED BY <1>6, <1>8, <1>9, <1>10, <1>11

-----------------------------------------------------------------------------
(* The client's other steps *)

\* What leaves the server, the wire and what the client has read alone.
LEMMA OtherGoes ==
  ASSUME HInv, UNCHANGED <<wire, rec, rd_on, msg_type, msg, cv_seen, leaf>>,
         Dest' = Dest, srv'.honest => srv.honest,
         srv'.at \in {"listening", "hello"} => srv'.honest,
         state' = state \/ (srv.honest => state' \notin {"FAILED", "WAIT_HS"} /\ state # "WAIT_HS" /\ Reading)
  PROVE  Unfailed'
<1>1. Unfailed
  BY DEF HInv
<1>2. ASSUME srv.honest PROVE state' # "FAILED" /\ (Reading' => WellGoing')
  <2>1. state' # "FAILED" /\ (state' = "WAIT_HS" <=> state = "WAIT_HS") /\ (Reading' => Reading)
    BY <1>1, <1>2 DEF Unfailed, Reading
  <2>2. ASSUME Reading' PROVE WellGoing'
    <3>1. WellGoing
      BY <1>1, <1>2, <2>1, <2>2 DEF Unfailed
    <3> QED BY <2>1, <3>1, WellGoingSame
  <2> QED BY <2>1, <2>2
<1> QED BY <1>2 DEF Unfailed

\* Whose turn it is, the client's reading being where it was.
LEMMA TurnSame ==
  ASSUME HInv, UNCHANGED <<wire, rec, rec_connected>>,
         sent' = sent \/ \E x \in OutRecords : sent' = Append(sent, x),
         srv'.at = "up" => srv.at = "up" \/ FinSent',
         conn' = "pump" => ~FinSent',
         conn' \in {"open", "send", "close"} => state' \in {"CONNECTED", "CLOSED", "FAILED"}
  PROVE  InTurn'
<1>1. InTurn /\ sent \in Seq(OutRecords)
  BY DEF HInv, RInv, CInv, ServerTypes
<1>2. FinSent => FinSent'
  BY <1>1, FinStays
<1>3. \A i \in 1..Len(wire') : Reply(wire[i])' => FinSent'
  BY <1>1, <1>2 DEF InTurn, Reply
<1>4. Reply(rec)' => (rec # NoRec => FinSent')
  BY <1>1, <1>2 DEF InTurn, Reply
<1>5. NoRec' = NoRec
  BY DEF NoRec
<1> QED BY <1>1, <1>2, <1>3, <1>4, <1>5 DEF InTurn

\* What conn.c and the socket do outside of the engine.
LEMMA OutsideGoes ==
  ASSUME HInv,
         PumpFed \/ PumpRound \/ PumpGivesUp \/ conn_sent \/ conn_closed \/ conn_abort
           \/ Socket \/ UNCHANGED vars
  PROVE  InTurn' /\ Unfailed'
<1>1. UNCHANGED <<engine, wire, sent, srv>>
  BY DEF PumpFed, PumpRound, PumpGivesUp, conn_sent, conn_closed, conn_abort, Socket, Drop, WindowShuts,
         WindowOpens, vars
<1>2. UNCHANGED <<state, wire, rec, rec_connected, rd_on, msg_type, msg, cv_seen, leaf, sent, srv, wr>>
  BY <1>1 DEF engine, keys, record, message
<1>3. InTurn /\ Unfailed /\ Keys /\ Finishing
  BY DEF HInv, RInv, CInv, Reads
<1>4. FinSent' <=> FinSent
  BY <1>2 DEF FinSent, IsFin
<1>5. conn' = "pump" => ~FinSent
  <2>1. CASE PumpRound
    <3> SUFFICES ASSUME conn' = "pump", FinSent PROVE FALSE
      OBVIOUS
    <3>1. state \in {"WAIT_SH", "WAIT_HS"}
      BY <2>1 DEF PumpRound, Done, Abort
    <3>2. wr.key # "c_ap"
      BY <1>3, <3>1 DEF Keys, Plain
    <3> QED BY <1>3, <3>2 DEF Finishing, FinSent
  <2>2. CASE ~PumpRound
    <3>1. conn' = "pump" => conn = "pump"
      BY <2>2 DEF PumpFed, PumpGivesUp, conn_sent, conn_closed, conn_abort, Socket, Drop, WindowShuts,
                  WindowOpens, vars, Abort
    <3> QED BY <1>3, <3>1 DEF InTurn
  <2> QED BY <2>1, <2>2
<1>6. conn' \in {"open", "send", "close"} => state \in {"CONNECTED", "CLOSED", "FAILED"}
  <2>1. conn' \in {"open", "send", "close"} => conn \in {"open", "send", "close"}
    BY DEF PumpFed, PumpRound, PumpGivesUp, conn_sent, conn_closed, conn_abort, Socket, Drop,
           WindowShuts, WindowOpens, vars, Abort
  <2> QED BY <1>3, <2>1 DEF InTurn
<1>7. InTurn'
  BY <1>2, <1>4, <1>5, <1>6, TurnSame
<1>8. Dest' = Dest
  BY <1>2 DEF Dest
<1>9. srv'.at \in {"listening", "hello"} => srv'.honest
  BY <1>2, <1>3 DEF Unfailed
<1>10. Unfailed'
  BY <1>2, <1>8, <1>9, OtherGoes
<1> QED BY <1>7, <1>10

\* A line, or a close_notify, sealed; a record given to the socket.
LEMMA SendGoes ==
  ASSUME HInv, conn_send \/ conn_close \/ PushOut
  PROVE  InTurn' /\ Unfailed'
<1>1. UNCHANGED <<state, wire, rec, rec_connected, rd_on, msg_type, msg, cv_seen, leaf, srv>>
  BY DEF conn_send, conn_close, tls_write, tls_close, PushOut, record, message, keys
<1>2. InTurn /\ Unfailed /\ out \in Seq(OutRecords)
  BY DEF HInv, RInv, CInv, EngineTypes
<1>3. sent' = sent \/ \E x \in OutRecords : sent' = Append(sent, x)
  <2>1. CASE PushOut
    <3>1. sent' = Append(sent, Head(out)) /\ out # <<>>
      BY <2>1 DEF PushOut
    <3>2. Head(out) \in OutRecords
      BY <1>2, <3>1
    <3> QED BY <3>1, <3>2
  <2> QED BY <2>1 DEF conn_send, conn_close
<1>4. conn' # "pump" /\ (conn' \in {"open", "send", "close"} => state \in {"CONNECTED", "CLOSED", "FAILED"})
  BY <1>2 DEF InTurn, conn_send, conn_close, CanWrite, PushOut
<1>5. InTurn'
  BY <1>1, <1>3, <1>4, TurnSame
<1>6. Dest' = Dest /\ (srv'.at \in {"listening", "hello"} => srv'.honest)
  BY <1>1, <1>2 DEF Dest, Unfailed
<1>7. Unfailed'
  BY <1>1, <1>6, OtherGoes
<1> QED BY <1>5, <1>7

\* The signature looked at: an honest server's passes.
LEMMA VerifyGoes ==
  ASSUME HInv, Verify
  PROVE  InTurn' /\ Unfailed'
<1>1. UNCHANGED <<wire, rec, rec_connected, rd_on, msg_type, msg, cv_seen, leaf, srv, sent>> /\ tls_verify
  BY DEF Verify, tls_verify, record, message, keys
<1>2. Unfailed /\ Keys
  BY DEF HInv, RInv, CInv
<1>3. conn' \in {"open", "shut"} /\ (conn' = "open" => state' = "CONNECTED")
  BY DEF Verify, Abort
<1>4. InTurn'
  BY <1>1, <1>3, TurnSame
<1>5. ASSUME srv.honest, state # state' PROVE state' = "CONNECTED" /\ state = "VERIFYING"
  <2>1. state = "VERIFYING"
    BY <1>1, <1>5 DEF tls_verify, Proceed
  <2>2. WellGoing /\ rd_on
    BY <1>2, <1>5, <2>1 DEF Unfailed, Reading, Keys
  <2> PICK a \in Stage : Taken(a.todo, state, msg_type, msg, cv_seen, leaf)
    BY <2>2 DEF WellGoing, Going
  <2>3. Len(a.todo) = 0
    <3>1. Len(a.todo) \in Nat
      BY DEF Stage
    <3> QED BY <2>1, <3>1 DEF Taken
  <2>4. cv_seen /\ leaf /\ msg.type = "CV" /\ msg.ok \in {"good", "odd"}
    BY <2>3 DEF Taken
  <2> QED BY <1>1, <2>1, <2>4 DEF tls_verify, Enter
<1>6. Dest' = Dest /\ (srv'.at \in {"listening", "hello"} => srv'.honest)
  BY <1>1, <1>2 DEF Dest, Unfailed
<1>7. state' = state \/ (srv.honest => state' \notin {"FAILED", "WAIT_HS"} /\ state # "WAIT_HS" /\ Reading)
  BY <1>5 DEF Reading
<1>8. Unfailed'
  BY <1>1, <1>6, <1>7, OtherGoes
<1> QED BY <1>4, <1>8

\* A connection begun, to a server that listens.
LEMMA OpenGoes ==
  ASSUME HInv, conn_open
  PROVE  InTurn' /\ Unfailed'
<1>1. CASE tls_start /\ conn' = "pump" /\ wire' = <<>> /\ sent' = <<>> /\ srv'.at = "listening"
           /\ srv'.honest /\ srv'.key = "plain" /\ srv'.todo = <<>>
  <2> DEFINE none == <<>>
  <2>1. none \in Seq(FlightParts) /\ none \in Seq(Records) /\ Len(none) = 0 /\ 1..0 = {}
    OBVIOUS
  <2>2. /\ wire' = none /\ sent' = none /\ rec' = NoRec /\ ~rd_on' /\ state' = "WAIT_SH"
        /\ msg_type' = "none"
    BY <1>1 DEF tls_start
  <2> HIDE DEF none
  <2>3. ~FinSent'
    BY <2>1, <2>2 DEF FinSent
  <2>4. InTurn'
    <3>1. NoRec' = NoRec
      BY DEF NoRec
    <3>2. Len(wire') = 0
      BY <2>1, <2>2
    <3>3. \A i \in 1..Len(wire') : FALSE
      BY <2>1, <3>2
    <3>4. srv'.at # "up" /\ conn' \notin {"open", "send", "close"} /\ rec' = NoRec'
      BY <1>1, <2>2, <3>1
    <3> QED BY <2>3, <3>3, <3>4 DEF InTurn
  <2> DEFINE a == [past |-> FALSE, todo |-> none]
  <2>5. a \in Stage /\ ~a.past
    BY <2>1 DEF Stage
  <2>6. Dest' = a
    BY <1>1 DEF Dest, none
  <2>7. Way(none, 0, WholeSteps, Stage, a, a)
    BY <2>1, <2>5, WayNone
  <2>8. Awaiting(NoRec, "none")
    BY DEF Awaiting
  <2> HIDE DEF a
  <2>9. Going(wire', rec', rd_on', state', msg_type', msg', cv_seen', leaf', Dest')
    BY <2>2, <2>5, <2>6, <2>7, <2>8 DEF Going
  <2>10. WellGoing'
    BY <2>9, WellGoingLater
  <2> QED BY <1>1, <2>2, <2>4, <2>10 DEF Unfailed
<1>2. CASE UNCHANGED <<engine, wire, sent, srv>> /\ conn' = "shut"
  <2>1. UNCHANGED <<state, wire, rec, rec_connected, rd_on, msg_type, msg, cv_seen, leaf, sent, srv>>
    BY <1>2 DEF engine, keys, record, message
  <2>2. Dest' = Dest /\ (srv'.at \in {"listening", "hello"} => srv'.honest)
    BY <2>1 DEF HInv, Unfailed, Dest
  <2>3. InTurn'
    BY <1>2, <2>1, TurnSame
  <2>4. Unfailed'
    BY <2>1, <2>2, OtherGoes
  <2> QED BY <2>3, <2>4
<1>3. CASE /\ conn' = "pump" /\ tls_start /\ wire' = <<>> /\ sent' = <<>>
           /\ srv' = [at |-> "listening", key |-> "plain", seq |-> 0, todo |-> <<>>,
                      rd |-> Plain, heard |-> 0, honest |-> TRUE, proves |-> FALSE,
                      said |-> <<>>, replies |-> 0, faults |-> 0]
  <2>1. srv'.at = "listening" /\ srv'.honest /\ srv'.key = "plain" /\ srv'.todo = <<>>
    BY <1>3
  <2> QED BY <1>1, <1>3, <2>1
<1> QED BY <1>2, <1>3 DEF conn_open

-----------------------------------------------------------------------------
(* The server's steps *)

\* A record more for an honest server's client to read.
LEMMA ServerGoes ==
  ASSUME HInv, ServerStep, NEW r \in Records, wire' = Append(wire, r), Reply(r) => FinSent,
         srv'.at = "up" => srv.at = "up", srv'.at \notin {"listening", "hello"},
         srv'.honest => srv.honest /\ <<Dest, r, Dest'>> \in WholeSteps
  PROVE  InTurn' /\ Unfailed'
<1>1. UNCHANGED <<state, rec, rec_connected, rd_on, msg_type, msg, cv_seen, leaf, sent, conn>>
  BY DEF ServerStep, engine, keys, record, message
<1>2. InTurn /\ Unfailed /\ wire \in Seq(Records)
  BY DEF HInv, RInv, CInv, ServerTypes
<1>3. InTurn'
  <2>1. FinSent' <=> FinSent
    BY <1>1 DEF FinSent, IsFin
  <2>2. ASSUME NEW i \in 1..Len(wire') PROVE Reply(wire'[i]) => FinSent
    <3>1. Len(wire') = Len(wire) + 1 /\ wire'[Len(wire) + 1] = r /\ Len(wire) \in Nat
          /\ \A j \in 1..Len(wire) : wire'[j] = wire[j]
      BY <1>2
    <3>2. CASE i = Len(wire) + 1
      BY <3>1, <3>2
    <3>3. CASE i # Len(wire) + 1
      <4>1. i \in 1..Len(wire)
        BY <3>1, <3>3
      <4> QED BY <1>2, <3>1, <4>1 DEF InTurn
    <3> QED BY <3>2, <3>3
  <2>3. \A i \in 1..Len(wire') : Reply(wire[i])' => FinSent'
    BY <2>1, <2>2 DEF Reply
  <2>4. Reply(rec)' => (rec # NoRec => FinSent')
    BY <1>1, <1>2, <2>1 DEF InTurn, Reply
  <2>5. NoRec' = NoRec
    BY DEF NoRec
  <2> QED BY <1>1, <1>2, <2>1, <2>3, <2>4, <2>5 DEF InTurn
<1>4. ASSUME srv'.honest, Reading PROVE WellGoing'
  <2>1. WellGoing /\ <<Dest, r, Dest'>> \in WholeSteps
    BY <1>2, <1>4 DEF Unfailed
  <2> PICK a \in Stage, c \in Stage :
        /\ IF rec = NoRec THEN c = a ELSE <<a, rec, c>> \in GoodSteps
        /\ Way(wire, 0, WholeSteps, Stage, c, Dest)
        /\ a.past <=> rd_on
        /\ IF rd_on THEN Taken(a.todo, state, msg_type, msg, cv_seen, leaf) ELSE Awaiting(rec, msg_type)
    BY <2>1 DEF WellGoing, Going
  <2>2. Dest' \in Stage
    BY <2>1 DEF WholeSteps, GoodSteps
  <2> PICK e \in Stage : e = Dest'
    BY <2>2
  <2>3. <<Dest, r, e>> \in WholeSteps /\ 0 \in 0..Len(wire)
    BY <1>2, <2>1
  <2>4. Way(Append(wire, r), 0, WholeSteps, Stage, c, e)
    BY <1>2, <2>3, WayAppend
  <2>5. Going(wire', rec, rd_on, state, msg_type, msg, cv_seen, leaf, e)
    BY <2>4 DEF Going
  <2> QED BY <1>1, <2>5, WellGoingLater
<1>5. Unfailed'
  BY <1>1, <1>2, <1>4 DEF Unfailed, Reading
<1> QED BY <1>3, <1>5

\* A whole one, of the four kinds.
LEMMA WholeStep ==
  ASSUME NEW a \in Stage, NEW r \in Records, NEW c \in Stage, r.framed, r.good,
         Greets(a, r, c) \/ Passes(a, r, c) \/ Goes(a, r, c) \/ Answers(a, r, c),
         r.items # <<>>, r.outer = "handshake" => Len(r.items) = 2
  PROVE  <<a, r, c>> \in WholeSteps
<1>1. <<a, r, c>> \in GoodSteps
  BY GoodStep
<1> QED BY <1>1 DEF WholeSteps, GoodSteps

\* Where the server is, now and then.
LEMMA DestStage ==
  ASSUME HInv, [Next]_vars, \A f \in Flights : Ended(f)
  PROVE  /\ Dest \in Stage /\ (Dest.past <=> srv.key # "plain") /\ Dest.todo = srv.todo
         /\ Dest' \in Stage /\ (Dest'.past <=> srv'.key # "plain") /\ Dest'.todo = srv'.todo
<1>1. srv.todo \in Seq(FlightParts)
  BY DEF HInv, RInv, CInv, ServerTypes
<1>2. srv'.todo \in Seq(FlightParts)
  <2>1. CInv'
    BY CInvStep DEF HInv, RInv
  <2> QED BY <2>1 DEF CInv, ServerTypes
<1>3. (srv.key # "plain") \in BOOLEAN /\ (srv'.key # "plain") \in BOOLEAN
  OBVIOUS
<1>4. /\ [past |-> srv.key # "plain", todo |-> srv.todo] \in Stage
      /\ [past |-> srv'.key # "plain", todo |-> srv'.todo] \in Stage
  BY <1>1, <1>2, <1>3 DEF Stage
<1> QED BY <1>4 DEF Dest

\* The ServerHello, and a flight as TLS has them.
LEMMA HelloGoes ==
  ASSUME HInv, ServerHello, [Next]_vars, \A f \in Flights : Ended(f),
         \A f \in Flights : Proves(f) => Standard(f)
  PROVE  InTurn' /\ Unfailed'
<1> PICK ok \in HelloKinds, flight \in Flights :
       Onto([srv EXCEPT !.at = "flight", !.key = "s_hs", !.seq = 0,
                        !.rd = [key |-> "c_hs", seq |-> 0],
                        !.todo = flight,
                        !.honest = ok = "good" /\ Proves(flight),
                        !.proves = ok = "good" /\ Proves(flight)],
            "handshake", "none",
            <<Part("SH", "header", "good"), Part("SH", "body", ok)>>, "none")
  BY DEF ServerHello
<1> DEFINE s == [srv EXCEPT !.at = "flight", !.key = "s_hs", !.seq = 0,
                            !.rd = [key |-> "c_hs", seq |-> 0],
                            !.todo = flight,
                            !.honest = ok = "good" /\ Proves(flight),
                            !.proves = ok = "good" /\ Proves(flight)]
           items == <<Part("SH", "header", "good"), Part("SH", "body", ok)>>
<1>1. ServerStep /\ srv.at = "hello" /\ ServerTypes /\ Sending /\ Unfailed
  BY DEF ServerHello, HInv, RInv, CInv
<1>2. /\ DOMAIN s = SrvFields /\ s.at = "flight" /\ s.key = "s_hs" /\ s.todo = flight
      /\ s.honest => ok = "good" /\ Proves(flight)
  BY <1>1 DEF ServerTypes, SrvFields
<1>3. /\ items \in Seq(Items) /\ Len(items) = 2 /\ items # <<>>
      /\ items[1].at = "header" /\ items[1].m = "SH"
      /\ items[2].at = "body" /\ items[2].ok = ok /\ items[2].m = "SH"
  <2>1. "good" \in Oks /\ ok \in Oks
    BY DEF Oks
  <2>2. Part("SH", "header", "good") \in Items /\ Part("SH", "body", ok) \in Items
    BY <2>1, PartItem
  <2>3. /\ Part("SH", "header", "good").m = "SH" /\ Part("SH", "header", "good").at = "header"
        /\ Part("SH", "body", ok).m = "SH" /\ Part("SH", "body", ok).at = "body"
        /\ Part("SH", "body", ok).ok = ok
    BY DEF Part
  <2> HIDE DEF Part
  <2> QED BY <2>2, <2>3
<1>4. Onto(s, "handshake", "none", items, "none")
  OBVIOUS
<1> HIDE DEF s, items
<1>5. /\ \E r \in Records : /\ wire' = Append(wire, r) /\ r.outer = "handshake" /\ r.inner = "none"
                            /\ r.items = items
                            /\ srv'.honest => s.honest /\ r.framed /\ r.good
      /\ srv'.at = s.at /\ srv'.key = s.key /\ srv'.todo = s.todo
  <2>1. Left(s, "handshake", "none", items, "none")
    BY <1>1, <1>2, <1>3, <1>4, OntoLeft
  <2> QED BY <2>1 DEF Left
<1> PICK r \in Records : /\ wire' = Append(wire, r) /\ r.outer = "handshake" /\ r.inner = "none"
                         /\ r.items = items
                         /\ srv'.honest => s.honest /\ r.framed /\ r.good
  BY <1>5
<1>6. srv.key = "plain" /\ srv.honest
  BY <1>1 DEF Sending, Unfailed
<1> PICK a \in Stage, c \in Stage : /\ a = Dest /\ c = Dest' /\ ~a.past /\ c.past /\ c.todo = flight
  BY <1>2, <1>5, <1>6, DestStage
<1>7. ~Reply(r)
  <2>1. \A i \in 1..Len(r.items) : r.items[i].m = "SH"
    BY <1>3
  <2> QED BY <2>1 DEF Reply
<1>8. ASSUME srv'.honest PROVE <<Dest, r, Dest'>> \in WholeSteps
  <2>1. ok = "good" /\ Standard(c.todo) /\ r.framed /\ r.good
    BY <1>2, <1>8
  <2>2. Greets(a, r, c)
    BY <1>3, <2>1 DEF Greets
  <2>3. <<a, r, c>> \in WholeSteps
    BY <1>3, <2>1, <2>2, WholeStep
  <2> QED BY <2>3
<1> QED BY <1>1, <1>2, <1>5, <1>6, <1>7, <1>8, ServerGoes

\* A record of the flight.
LEMMA FlightGoes ==
  ASSUME HInv, ServerFlight, [Next]_vars, \A f \in Flights : Ended(f)
  PROVE  InTurn' /\ Unfailed'
<1> PICK k \in Cuts \cap 1..Len(srv.todo) :
       LET rest == SubSeq(srv.todo, k + 1, Len(srv.todo))
       IN  Onto(IF rest = <<>>
                  THEN [srv EXCEPT !.todo = rest, !.at = "done", !.key = "s_ap", !.seq = 0]
                  ELSE [srv EXCEPT !.todo = rest, !.seq = @ + 1],
                "appdata", "handshake", SubSeq(srv.todo, 1, k), "none")
  BY DEF ServerFlight
<1> DEFINE rest == SubSeq(srv.todo, k + 1, Len(srv.todo))
           items == SubSeq(srv.todo, 1, k)
           s == IF rest = <<>>
                  THEN [srv EXCEPT !.todo = rest, !.at = "done", !.key = "s_ap", !.seq = 0]
                  ELSE [srv EXCEPT !.todo = rest, !.seq = @ + 1]
<1>1. ServerStep /\ srv.at = "flight" /\ ServerTypes
  BY DEF ServerFlight, HInv, RInv, CInv
<1>2. srv.key = "s_hs" /\ srv.todo \in Seq(FlightParts)
  BY <1>1 DEF HInv, RInv, Reads, Serving, ServerTypes
<1>3. k \in 1..Len(srv.todo)
  OBVIOUS
<1>4. /\ rest \in Seq(FlightParts) /\ Rest(srv.todo, k, rest)
      /\ items \in Seq(FlightParts) /\ Len(items) = k
      /\ \A i \in 1..k : items[i] = srv.todo[i]
  BY <1>2, <1>3, RestCut
<1>5. Onto(s, "appdata", "handshake", items, "none")
  OBVIOUS
<1> HIDE DEF rest, items
<1>6. /\ DOMAIN s = SrvFields /\ s.todo = rest /\ s.honest = srv.honest
      /\ s.at \in {"done", "flight"} /\ s.key # "plain"
  BY <1>1, <1>2 DEF ServerTypes, SrvFields
<1> HIDE DEF s
<1>7. items \in Seq(Items)
  BY <1>4, FlightItems
<1>8. /\ \E r \in Records : /\ wire' = Append(wire, r) /\ r.outer = "appdata" /\ r.inner = "handshake"
                            /\ r.items = items
                            /\ srv'.honest => s.honest /\ r.framed /\ r.good
      /\ srv'.at = s.at /\ srv'.key = s.key /\ srv'.todo = s.todo
  <2>1. Left(s, "appdata", "handshake", items, "none")
    BY <1>1, <1>5, <1>6, <1>7, OntoLeft
  <2> QED BY <2>1 DEF Left
<1> PICK r \in Records : /\ wire' = Append(wire, r) /\ r.outer = "appdata" /\ r.inner = "handshake"
                         /\ r.items = items
                         /\ srv'.honest => s.honest /\ r.framed /\ r.good
  BY <1>8
<1> PICK a \in Stage, c \in Stage :
      a = Dest /\ c = Dest' /\ a.past /\ c.past /\ a.todo = srv.todo /\ c.todo = rest
  BY <1>2, <1>6, <1>8, DestStage
<1>9. ~Reply(r)
  <2>1. \A i \in 1..Len(r.items) : r.items[i] \in FlightParts
    BY <1>4
  <2> QED BY <2>1 DEF Reply, FlightParts
<1>10. r.items # <<>>
  <2>1. Len(items) # 0
    BY <1>3, <1>4
  <2> QED BY <2>1
<1>11. Goes(a, r, c)
  BY <1>4 DEF Goes
<1>12. ASSUME srv'.honest PROVE srv.honest /\ <<Dest, r, Dest'>> \in WholeSteps
  <2>1. srv.honest /\ r.framed /\ r.good
    BY <1>6, <1>12
  <2>2. <<a, r, c>> \in WholeSteps
    BY <1>10, <1>11, <2>1, WholeStep
  <2> QED BY <2>1, <2>2
<1> QED BY <1>1, <1>6, <1>8, <1>9, <1>12, ServerGoes

\* The change_cipher_spec.
LEMMA CCSGoes ==
  ASSUME HInv, ServerCCS, [Next]_vars, \A f \in Flights : Ended(f)
  PROVE  InTurn' /\ Unfailed'
<1> DEFINE items == <<Part("ccs", "data", "good")>>
           r == [outer |-> "ccs", inner |-> "none", key |-> "plain", seq |-> 0,
                 items |-> items, desc |-> "none", framed |-> TRUE, good |-> TRUE]
<1>1. ServerStep /\ wire' = Append(wire, r) /\ UNCHANGED srv /\ srv.at = "flight"
  BY DEF ServerCCS
<1>2. Part("ccs", "data", "good") \in Items /\ Part("ccs", "data", "good").m = "ccs"
  BY PartItem DEF Oks, Part
<1>3. items \in Seq(Items) /\ items # <<>> /\ \A i \in 1..Len(items) : items[i].m = "ccs"
  BY <1>2
<1> HIDE DEF items
<1>4. /\ r \in Records /\ r.outer = "ccs" /\ r.inner = "none" /\ r.items = items
      /\ r.framed /\ r.good
  BY <1>3 DEF Records
<1> HIDE DEF r
<1> PICK a \in Stage : a = Dest /\ a = Dest'
  BY <1>1, DestStage DEF Dest
<1>5. ~Reply(r)
  BY <1>3, <1>4 DEF Reply
<1>6. Passes(a, r, a)
  BY <1>4 DEF Passes
<1>7. <<a, r, a>> \in WholeSteps
  BY <1>3, <1>4, <1>6, WholeStep
<1> QED BY <1>1, <1>4, <1>5, <1>7, ServerGoes

\* A refusal: of a server that is not honest.
LEMMA RefuseGoes ==
  ASSUME HInv, ServerRefuses
  PROVE  InTurn' /\ Unfailed'
<1> DEFINE outer == IF srv.key = "plain" THEN "alert" ELSE "appdata"
           items == <<Part("fatal", "alert", "good")>>
           s == [srv EXCEPT !.at = "closed", !.honest = FALSE]
<1>1. ServerStep /\ ServerTypes /\ Onto(s, outer, "alert", items, "fatal")
  BY DEF ServerRefuses, HInv, RInv, CInv
<1>2. items \in Seq(Items) /\ \A i \in 1..Len(items) : items[i].m = "fatal"
  BY PartItem DEF Oks, Part
<1>3. DOMAIN s = SrvFields /\ s.at = "closed" /\ ~s.honest
  BY <1>1 DEF ServerTypes, SrvFields
<1>4. outer \in {"handshake", "appdata", "alert", "ccs"}
  OBVIOUS
<1> HIDE DEF s, items, outer
<1>5. /\ \E r \in Records : /\ wire' = Append(wire, r) /\ r.inner = "alert" /\ r.items = items
                            /\ srv'.honest => s.honest /\ r.framed /\ r.good
      /\ srv'.at = s.at
  <2>1. Left(s, outer, "alert", items, "fatal")
    BY <1>1, <1>2, <1>3, <1>4, OntoLeft
  <2> QED BY <2>1 DEF Left
<1> PICK r \in Records : wire' = Append(wire, r) /\ r.inner = "alert" /\ r.items = items
  BY <1>5
<1>6. ~Reply(r)
  BY <1>2 DEF Reply
<1> QED BY <1>1, <1>3, <1>5, <1>6, ServerGoes

\* What comes after the handshake, that is after the client's Finished.
LEMMA ReplyGoes ==
  ASSUME HInv, ServerReplies, [Next]_vars, \A f \in Flights : Ended(f)
  PROVE  InTurn' /\ Unfailed'
<1> PICK q \in Replies :
       LET x == [m |-> q, ok |-> "good",
                 at |-> CASE q = "ticket" -> "body" [] q = "line" -> "data" [] OTHER -> "alert",
                 n |-> IF q = "line" THEN Len(srv.said) + 1 ELSE 0]
           s == [srv EXCEPT !.replies = @ + 1, !.seq = @ + 1,
                            !.at = IF q \in {"close", "fatal"} THEN "closed" ELSE @,
                            !.honest = @ /\ q # "fatal",
                            !.said = IF q = "line" THEN Append(@, <<x.m, x.n>>) ELSE @]
       IN  Onto(s, "appdata",
                CASE q = "ticket" -> "handshake" [] q = "line" -> "appdata" [] OTHER -> "alert",
                <<x>>, q)
  BY DEF ServerReplies
<1> DEFINE place == CASE q = "ticket" -> "body" [] q = "line" -> "data" [] OTHER -> "alert"
           inner == CASE q = "ticket" -> "handshake" [] q = "line" -> "appdata" [] OTHER -> "alert"
           num == IF q = "line" THEN Len(srv.said) + 1 ELSE 0
           x == [m |-> q, ok |-> "good", at |-> place, n |-> num]
           s == [srv EXCEPT !.replies = @ + 1, !.seq = @ + 1,
                            !.at = IF q \in {"close", "fatal"} THEN "closed" ELSE @,
                            !.honest = @ /\ q # "fatal",
                            !.said = IF q = "line" THEN Append(@, <<x.m, x.n>>) ELSE @]
           items == <<x>>
<1>1. ServerStep /\ srv.at = "up" /\ ServerTypes /\ FinSent
  BY DEF ServerReplies, HInv, RInv, CInv, InTurn
<1>2. srv.key = "s_ap" /\ srv.todo = <<>> /\ srv.said \in Seq(Said)
  BY <1>1 DEF HInv, RInv, Reads, Serving, ServerTypes
<1>3. q \in {"line", "ticket", "close", "fatal"}
  BY ConnAssumption DEF ConnAssumption
<1>4. /\ place \in {"body", "data", "alert"} /\ inner \in {"none", "handshake", "appdata", "alert"}
      /\ num \in Nat
  BY <1>2, <1>3
<1>5. Onto(s, "appdata", inner, items, q)
  OBVIOUS
<1> HIDE DEF place, inner, num
<1>6. x \in Items /\ x.m = q
  BY <1>3, <1>4 DEF Items, Oks
<1> HIDE DEF x
<1>7. /\ DOMAIN s = SrvFields /\ s.at \in {"closed", "up"} /\ (s.at = "up" => srv.at = "up")
      /\ s.key = srv.key /\ s.todo = srv.todo
      /\ s.honest => srv.honest /\ q # "fatal"
  BY <1>1 DEF ServerTypes, SrvFields
<1>8. items \in Seq(Items) /\ Len(items) = 1 /\ items[1] = x /\ items # <<>>
  BY <1>6
<1> HIDE DEF s, items
<1>9. /\ "appdata" \in {"handshake", "appdata", "alert", "ccs"}
      /\ q \in {"none", "line", "ticket", "close", "fatal"}
  BY <1>3
<1>10. /\ \E r \in Records : /\ wire' = Append(wire, r) /\ r.outer = "appdata" /\ r.inner = inner
                             /\ r.items = items /\ r.desc = q
                             /\ srv'.honest => s.honest /\ r.framed /\ r.good
       /\ srv'.at = s.at /\ srv'.key = s.key /\ srv'.todo = s.todo
  <2>1. ServerTypes
    BY <1>1
  <2>2. DOMAIN s = SrvFields
    BY <1>7
  <2>3. inner \in {"none", "handshake", "appdata", "alert"}
    BY <1>4
  <2>4. items \in Seq(Items)
    BY <1>8
  <2>5. Left(s, "appdata", inner, items, q)
    BY <2>1, <2>2, <2>3, <2>4, <1>5, <1>9, OntoLeft
  <2> QED BY <2>5 DEF Left
<1> PICK r \in Records : /\ wire' = Append(wire, r) /\ r.outer = "appdata" /\ r.inner = inner
                         /\ r.items = items /\ r.desc = q
                         /\ srv'.honest => s.honest /\ r.framed /\ r.good
  BY <1>10
<1> PICK a \in Stage : a = Dest /\ a = Dest' /\ a.past /\ a.todo = <<>>
  <2>1. Dest' = Dest
    BY <1>7, <1>10 DEF Dest
  <2> QED BY <1>2, <2>1, DestStage
<1>11. ASSUME srv'.honest PROVE srv.honest /\ <<Dest, r, Dest'>> \in WholeSteps
  <2>1. srv.honest /\ q \in {"line", "ticket", "close"} /\ r.framed /\ r.good
    BY <1>3, <1>7, <1>11
  <2>2. r.inner = "alert" => r.desc = "close"
    BY <2>1 DEF inner
  <2>3. \A i \in 1..Len(r.items) : r.items[i].m \in {"line", "ticket", "close"}
    BY <1>6, <1>8, <2>1
  <2>4. Answers(a, r, a)
    BY <2>2, <2>3 DEF Answers
  <2>5. <<a, r, a>> \in WholeSteps
    BY <1>8, <2>1, <2>4, WholeStep
  <2> QED BY <2>1, <2>5
<1> QED BY <1>1, <1>7, <1>10, <1>11, ServerGoes

-----------------------------------------------------------------------------
(* The theorem *)

\* The client heard.
LEMMA HearGoes ==
  ASSUME HInv, ServerHears, [Next]_vars
  PROVE  InTurn' /\ Unfailed'
<1> DEFINE r == sent[srv.heard + 1]
           s == [srv EXCEPT !.heard = @ + 1]
<1>1. /\ ServerStep /\ UNCHANGED wire /\ srv.heard < Len(sent)
      /\ srv' = IF r.key # srv.rd.key \/ r.seq # srv.rd.seq THEN [s EXCEPT !.at = "broken"]
                ELSE IF r.kind = "hello" THEN [s EXCEPT !.at = "hello"]
                ELSE IF r.kind \in {"finished", "empty+finished"}
                  THEN [s EXCEPT !.at = "up", !.rd = [key |-> "c_ap", seq |-> 0]]
                ELSE [s EXCEPT !.rd.seq = @ + 1]
  BY DEF ServerHears
<1>2. /\ DOMAIN s = SrvFields /\ s.at = srv.at /\ s.key = srv.key /\ s.todo = srv.todo
      /\ s.honest = srv.honest
  BY DEF HInv, RInv, CInv, ServerTypes, SrvFields
<1>3. srv.heard \in Nat /\ sent \in Seq(OutRecords)
  BY DEF HInv, RInv, CInv, ServerTypes
<1>4. srv.heard + 1 \in 1..Len(sent) /\ srv.heard # Len(sent)
  BY <1>1, <1>3
<1>5. IsFin(r) => FinSent
  BY <1>4 DEF FinSent
<1> HIDE DEF s, r
<1>6. /\ srv'.key = srv.key /\ srv'.todo = srv.todo /\ srv'.honest = srv.honest
      /\ srv'.at \in {srv.at, "broken", "hello", "up"}
      /\ srv'.at = "up" => srv.at = "up" \/ IsFin(r)
      /\ srv'.at = "broken" \/ srv'.at = "hello" \/ srv'.at = "up" \/ srv'.at = srv.at
  BY <1>1, <1>2 DEF SrvFields, IsFin
<1>7. /\ UNCHANGED <<state, wire, rec, rec_connected, rd_on, msg_type, msg, cv_seen, leaf, sent, conn>>
  BY <1>1 DEF ServerStep, engine, keys, record, message
<1>8. InTurn /\ Unfailed
  BY DEF HInv
<1>9. FinSent' <=> FinSent
  BY <1>7 DEF FinSent, IsFin
<1>10. InTurn'
  <2>1. srv'.at = "up" => srv.at = "up" \/ FinSent'
    BY <1>5, <1>6, <1>9
  <2>2. conn' = "pump" => ~FinSent'
    BY <1>7, <1>8, <1>9 DEF InTurn
  <2>3. conn' \in {"open", "send", "close"} => state' \in {"CONNECTED", "CLOSED", "FAILED"}
    BY <1>7, <1>8 DEF InTurn
  <2> QED BY <1>7, <2>1, <2>2, <2>3, TurnSame
\* What the server heard as a hello was one it listened for.
<1>11. srv'.at \in {"listening", "hello"} => srv'.honest
  <2> SUFFICES ASSUME srv'.at \in {"listening", "hello"} PROVE srv.honest
    BY <1>6
  <2>1. Sending'
    BY CInvStep DEF HInv, RInv, CInv
  <2>2. srv.key = "plain"
    BY <1>6, <2>1 DEF Sending
  <2>3. Greeting
    BY <2>2 DEF HInv, RInv, CInv, Sending
  <2>4. Len(<<>>) = 0 /\ Len(<<Hello>>) = 1
    OBVIOUS
  <2>5. srv.at = "listening"
    BY <1>4, <2>3, <2>4 DEF Greeting
  <2> QED BY <1>8, <2>5 DEF Unfailed
<1>12. Dest' = Dest
  BY <1>6 DEF Dest
<1>13. Unfailed'
  BY <1>6, <1>7, <1>11, <1>12, OtherGoes
<1> QED BY <1>10, <1>13

\* An item read.
LEMMA ContentStays ==
  ASSUME HInv, ReadContent
  PROVE  InTurn' /\ Unfailed'
<1>1. InTurn'
  BY ContentInTurn
<1>2. srv' = srv
  BY DEF ReadContent
<1>3. Unfailed
  BY DEF HInv
<1> QED BY <1>1, <1>2, <1>3, ContentGoes DEF Unfailed

\* Where a program starts.
LEMMA HInvInit == Init => HInv
<1> SUFFICES ASSUME Init PROVE HInv
  OBVIOUS
<1>1. RInv
  BY RInvInit
<1> DEFINE none == <<>>
<1>2. /\ state = "IDLE" /\ rd_on = FALSE /\ rec = NoRec /\ mac = Fresh /\ conn = "shut"
      /\ wire = none /\ sent = none /\ srv.at = "closed"
  BY DEF Init, EngineInit
<1>3. Len(none) = 0 /\ 1..0 = {}
  OBVIOUS
<1> HIDE DEF none
<1>4. \A i \in 1..Len(wire) : FALSE
  BY <1>2, <1>3
<1>5. InTurn
  BY <1>2, <1>4 DEF InTurn
<1>6. MacFits
  BY <1>2 DEF MacFits, Fresh, Sealed
<1>7. Unfailed
  BY <1>2 DEF Unfailed, Reading
<1> QED BY <1>1, <1>5, <1>6, <1>7 DEF HInv

\* Every step keeps it.
LEMMA HInvStep ==
  ASSUME \A f \in Flights : Ended(f), \A f \in Flights : Proves(f) => Standard(f)
  PROVE  HInv /\ [Next]_vars => HInv'
<1> SUFFICES ASSUME HInv, [Next]_vars PROVE HInv'
  OBVIOUS
<1>1. RInv'
  BY RInvStep DEF HInv
<1>2. MacFits'
  BY MacKeeps DEF HInv
<1>3. ASSUME Client PROVE InTurn' /\ Unfailed'
  BY <1>3, StartGoes, ContentStays, EndGoes, OutsideGoes, SendGoes, VerifyGoes DEF Client
<1>4. ASSUME Choice PROVE InTurn' /\ Unfailed'
  BY <1>4, OpenGoes, OutsideGoes, SendGoes DEF Choice
<1>5. ASSUME Server PROVE InTurn' /\ Unfailed'
  BY <1>5, HelloGoes, FlightGoes, CCSGoes, HearGoes, ReplyGoes, RefuseGoes DEF Server
<1>6. ASSUME Socket PROVE InTurn' /\ Unfailed'
  BY <1>6, OutsideGoes
<1>7. ASSUME UNCHANGED vars PROVE InTurn' /\ Unfailed'
  BY <1>7, OutsideGoes
<1>8. InTurn' /\ Unfailed'
  BY <1>3, <1>4, <1>5, <1>6, <1>7 DEF Next
<1> QED BY <1>1, <1>2, <1>8 DEF HInv

\* With a server that does and says all it should, over a wire that damages
\* nothing, the engine never reaches TLS_FAILED: however the flight is cut into
\* records and deliveries, wherever its change_cipher_spec comes, whatever the
\* keys pressed, for any number of connections, lines and tickets; if a flight
\* that proves who the server is has what it asks for, then its certificate,
\* its signature and its Finished, each the header and then the body.
THEOREM HonestUnfailed ==
  ASSUME \A f \in Flights : Ended(f), \A f \in Flights : Proves(f) => Standard(f)
  PROVE  Spec => []HonestNeverFails
<1>1. HInv /\ [Next]_vars => HInv'
  BY HInvStep
<1>2. HInv => HonestNeverFails
  BY DEF HInv, Unfailed, HonestNeverFails
<1> QED BY <1>1, <1>2, HInvInit, PTL DEF Spec
=============================================================================

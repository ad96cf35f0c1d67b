-------------------------- MODULE CertificateProofs --------------------------
(***************************************************************************)
(* Theorems about the two walkers of Der: of any bytes, what they find is  *)
(* inside them and in order, and they find the same; of a certificate, what *)
(* they find is what module Certificates put there.                        *)
(***************************************************************************)
EXTENDS Certificates, SequenceTheorems, WellFoundedInduction, TLAPS

-----------------------------------------------------------------------------
(* Bytes of a file *)

\* These bytes stand at an offset of a file.
Found(f, p, s) == p + Len(s) <= Len(f) /\ \A i \in 1..Len(s) : f[p + i] = s[i]

\* An element inside an end, from an offset on.
Elem(at, end) == {d \in [tag : Byte, off : Nat, len : Nat] : d.off >= at + 2 /\ After(d) <= end}

LEMMA CutIs ==
  ASSUME NEW f \in Seq(Byte), NEW p \in Nat, NEW n \in Nat, p + n <= Len(f)
  PROVE  Cut(f, p, n) \in Seq(Byte) /\ Len(Cut(f, p, n)) = n /\ \A i \in 1..n : Cut(f, p, n)[i] = f[p + i]
<1>1. \A i \in p + 1..p + n : f[i] \in Byte
  OBVIOUS
<1> QED BY <1>1 DEF Cut

LEMMA FoundCut ==
  ASSUME NEW f \in Seq(Byte), NEW p \in Nat, NEW s \in Seq(Byte), Found(f, p, s)
  PROVE  Cut(f, p, Len(s)) = s
<1>1. Len(s) \in Nat /\ p + Len(s) <= Len(f) /\ \A i \in 1..Len(s) : f[p + i] = s[i]
  BY DEF Found
<1>2. /\ Cut(f, p, Len(s)) \in Seq(Byte) /\ Len(Cut(f, p, Len(s))) = Len(s)
      /\ \A i \in 1..Len(s) : Cut(f, p, Len(s))[i] = f[p + i]
  BY <1>1, CutIs
<1> QED BY <1>1, <1>2, SeqEqual

LEMMA Joined ==
  ASSUME NEW a \in Seq(Byte), NEW b \in Seq(Byte)
  PROVE  /\ a \o b \in Seq(Byte) /\ Len(a \o b) = Len(a) + Len(b)
         /\ \A i \in 1..Len(a) : (a \o b)[i] = a[i]
         /\ \A i \in 1..Len(b) : (a \o b)[Len(a) + i] = b[i]
OBVIOUS

LEMMA FoundJoined ==
  ASSUME NEW f \in Seq(Byte), NEW p \in Nat, NEW a \in Seq(Byte), NEW b \in Seq(Byte), Found(f, p, a \o b)
  PROVE  Found(f, p, a) /\ Found(f, p + Len(a), b)
<1> DEFINE c == a \o b
<1>1. /\ c \in Seq(Byte) /\ Len(c) = Len(a) + Len(b)
      /\ \A i \in 1..Len(a) : c[i] = a[i]
      /\ \A i \in 1..Len(b) : c[Len(a) + i] = b[i]
  BY Joined
<1>2. p + Len(c) <= Len(f) /\ \A i \in 1..Len(c) : f[p + i] = c[i]
  BY DEF Found
<1>3. Len(a) \in Nat /\ Len(b) \in Nat /\ Len(f) \in Nat
  OBVIOUS
<1> HIDE DEF c
<1>4. Found(f, p, a)
  BY <1>1, <1>2, <1>3 DEF Found
<1>5. \A i \in 1..Len(b) : f[(p + Len(a)) + i] = b[i]
  <2> SUFFICES ASSUME NEW i \in 1..Len(b) PROVE f[(p + Len(a)) + i] = b[i]
    OBVIOUS
  <2>1. Len(a) + i \in 1..Len(c) /\ p + (Len(a) + i) = (p + Len(a)) + i
    BY <1>1, <1>3
  <2> QED BY <1>1, <1>2, <2>1
<1>6. Found(f, p + Len(a), b)
  BY <1>1, <1>2, <1>3, <1>5 DEF Found
<1> QED BY <1>4, <1>6

LEMMA ByteIs ==
  ASSUME NEW f \in Seq(Byte), NEW end \in 0..Len(f), NEW i \in Nat
  PROVE  ByteAt(f, end, i) \in 0..255
<1>1. Len(f) \in Nat
  OBVIOUS
<1>2. \A k \in 1..Len(f) : f[k] \in Byte
  OBVIOUS
<1>3. CASE i < end
  <2>1. i + 1 \in 1..Len(f)
    BY <1>1, <1>3
  <2> QED BY <1>2, <1>3, <2>1 DEF ByteAt, Byte
<1>4. CASE ~(i < end)
  BY <1>4 DEF ByteAt
<1> QED BY <1>3, <1>4

LEMMA HeadIs ==
  ASSUME NEW form \in 0..127 \cup {129, 130}
  PROVE  HeadLen(form) \in Nat /\ HeadLen(form) >= 2
BY DEF HeadLen

LEMMA ContentIs ==
  ASSUME NEW form \in 0..255, NEW next \in 0..255, NEW last \in 0..255
  PROVE  ContentLen(form, next, last) \in Nat
BY DEF ContentLen

\* What both walkers make of a head whose second byte is form, and says n.
HeadSeen(f, p, end, form, n) ==
  /\ form = f[p + 2] /\ n = ContentLen(form, ByteAt(f, end, p + 2), ByteAt(f, end, p + 3))
  /\ der_elem(f, p, end) =
       IF form \in 0..127 \cup {129, 130} /\ p + HeadLen(form) + n <= end
       THEN [tag |-> f[p + 1], off |-> p + HeadLen(form), len |-> n] ELSE Missing
  /\ element(f, end, p) =
       IF (form >= 128 /\ form \notin {129, 130}) \/ p + HeadLen(form) + n > end THEN Missing
       ELSE [tag |-> f[p + 1], off |-> p + HeadLen(form), len |-> n]

LEMMA HeadAt ==
  ASSUME NEW f \in Seq(Byte), NEW p \in Nat, NEW end \in 0..Len(f), p + 2 <= end
  PROVE  \E form \in 0..255, n \in Nat : HeadSeen(f, p, end, form, n)
<1> DEFINE form == ByteAt(f, end, p + 1)
           n == ContentLen(form, ByteAt(f, end, p + 2), ByteAt(f, end, p + 3))
<1>1. p + 1 \in Nat /\ p + 2 \in Nat /\ p + 3 \in Nat
  OBVIOUS
<1>2. \A i \in Nat : ByteAt(f, end, i) \in 0..255
  BY ByteIs
<1>3. form \in 0..255 /\ ByteAt(f, end, p + 2) \in 0..255 /\ ByteAt(f, end, p + 3) \in 0..255
  BY <1>1, <1>2
<1>4. n \in Nat
  BY <1>3, ContentIs
<1>5. p + 1 < end /\ (p + 1) + 1 = p + 2 /\ ~(p + 2 > end)
  OBVIOUS
<1>6. form = f[p + 2]
  BY <1>5 DEF ByteAt
<1>7. der_elem(f, p, end) =
        IF p + 2 <= end /\ form \in 0..127 \cup {129, 130} /\ p + HeadLen(form) + n <= end
        THEN [tag |-> f[p + 1], off |-> p + HeadLen(form), len |-> n] ELSE Missing
  BY Zenon DEF der_elem
<1>8. element(f, end, p) =
        IF p + 2 > end THEN Missing
        ELSE LET fo == f[p + 2]
                 m == ContentLen(fo, ByteAt(f, end, p + 2), ByteAt(f, end, p + 3))
             IN  IF (fo >= 128 /\ fo \notin {129, 130}) \/ p + HeadLen(fo) + m > end THEN Missing
                 ELSE [tag |-> f[p + 1], off |-> p + HeadLen(fo), len |-> m]
  BY Zenon DEF element
<1> HIDE DEF form
<1>9. n = ContentLen(f[p + 2], ByteAt(f, end, p + 2), ByteAt(f, end, p + 3))
  BY <1>6
<1> HIDE DEF n
<1>10. element(f, end, p) =
        IF (form >= 128 /\ form \notin {129, 130}) \/ p + HeadLen(form) + n > end THEN Missing
        ELSE [tag |-> f[p + 1], off |-> p + HeadLen(form), len |-> n]
  BY <1>5, <1>6, <1>8, <1>9
<1>11. HeadSeen(f, p, end, form, n)
  BY <1>6, <1>7, <1>9, <1>10 DEF HeadSeen
<1> QED BY <1>3, <1>4, <1>11

LEMMA NoHead ==
  ASSUME NEW f, NEW p \in Nat, NEW end \in Nat, ~(p + 2 <= end)
  PROVE  der_elem(f, p, end) = Missing /\ element(f, end, p) = Missing
<1>1. p + 2 > end
  OBVIOUS
<1> QED BY <1>1, Zenon DEF der_elem, element

\* An element lies before the end.
LEMMA ElemIs ==
  ASSUME NEW f \in Seq(Byte), NEW p \in Nat, NEW end \in 0..Len(f)
  PROVE  der_elem(f, p, end) = Missing \/ der_elem(f, p, end) \in Elem(p, end)
<1>1. Len(f) \in Nat /\ end \in Nat
  OBVIOUS
<1>2. CASE ~(p + 2 <= end)
  BY <1>1, <1>2, NoHead
<1>3. CASE p + 2 <= end
  <2>0. PICK form \in 0..255, n \in Nat : HeadSeen(f, p, end, form, n)
    BY <1>3, HeadAt
  <2>1. der_elem(f, p, end) =
          IF form \in 0..127 \cup {129, 130} /\ p + HeadLen(form) + n <= end
          THEN [tag |-> f[p + 1], off |-> p + HeadLen(form), len |-> n] ELSE Missing
    BY <2>0 DEF HeadSeen
  <2>2. CASE form \in 0..127 \cup {129, 130} /\ p + HeadLen(form) + n <= end
    <3>1. HeadLen(form) \in Nat /\ HeadLen(form) >= 2
      BY <2>2, HeadIs
    <3>2. f[p + 1] \in Byte
      BY <1>1, <1>3
    <3> DEFINE d == [tag |-> f[p + 1], off |-> p + HeadLen(form), len |-> n]
    <3>3. d \in [tag : Byte, off : Nat, len : Nat]
      BY <3>1, <3>2
    <3>4. d.off >= p + 2 /\ d.off + d.len <= end
      BY <2>2, <3>1
    <3>5. der_elem(f, p, end) = d
      BY <2>1, <2>2
    <3> HIDE DEF d
    <3> QED BY <3>3, <3>4, <3>5 DEF Elem, After
  <2>3. CASE ~(form \in 0..127 \cup {129, 130} /\ p + HeadLen(form) + n <= end)
    BY <2>1, <2>3
  <2> QED BY <2>2, <2>3
<1> QED BY <1>2, <1>3

\* Both walkers see the same element, whatever the bytes (der_elem in
\* src/src/tls/der.c, element in src/src/tls/x509.c).
THEOREM SameWalker ==
  ASSUME NEW f \in Seq(Byte), NEW p \in Nat, NEW end \in 0..Len(f)
  PROVE  element(f, end, p) = der_elem(f, p, end)
<1>1. Len(f) \in Nat /\ end \in Nat
  OBVIOUS
<1>2. CASE ~(p + 2 <= end)
  BY <1>1, <1>2, NoHead
<1>3. CASE p + 2 <= end
  <2>0. PICK form \in 0..255, n \in Nat : HeadSeen(f, p, end, form, n)
    BY <1>3, HeadAt
  <2>1. der_elem(f, p, end) =
          IF form \in 0..127 \cup {129, 130} /\ p + HeadLen(form) + n <= end
          THEN [tag |-> f[p + 1], off |-> p + HeadLen(form), len |-> n] ELSE Missing
    BY <2>0 DEF HeadSeen
  <2>4. element(f, end, p) =
          IF (form >= 128 /\ form \notin {129, 130}) \/ p + HeadLen(form) + n > end THEN Missing
          ELSE [tag |-> f[p + 1], off |-> p + HeadLen(form), len |-> n]
    BY <2>0 DEF HeadSeen
  <2>2. CASE form \in 0..127 \cup {129, 130}
    <3>1. HeadLen(form) \in Nat
      BY <2>2, HeadIs
    <3>2. (p + HeadLen(form) + n > end) <=> ~(p + HeadLen(form) + n <= end)
      BY <1>1, <3>1
    <3>3. ~(form >= 128 /\ form \notin {129, 130})
      BY <2>2
    <3> QED BY <2>1, <2>2, <2>4, <3>2, <3>3, Zenon
  <2>3. CASE form \notin 0..127 \cup {129, 130}
    <3>1. form >= 128 /\ form \notin {129, 130}
      BY <2>3
    <3>2. der_elem(f, p, end) = Missing
      BY <2>1, <2>3
    <3>3. element(f, end, p) = Missing
      BY <2>4, <3>1
    <3> QED BY <3>2, <3>3
  <2> QED BY <2>2, <2>3
<1> QED BY <1>2, <1>3

\* An element whole before an end is the same before a later one.
LEMMA Wider ==
  ASSUME NEW f \in Seq(Byte), NEW p \in Nat, NEW e1 \in 0..Len(f), NEW e2 \in 0..Len(f), e1 <= e2,
         der_elem(f, p, e1) # Missing
  PROVE  der_elem(f, p, e2) = der_elem(f, p, e1)
<1>1. Len(f) \in Nat /\ e1 \in Nat /\ e2 \in Nat
  OBVIOUS
<1>2. p + 2 <= e1
  BY <1>1, NoHead
<1>3. PICK form \in 0..255, n \in Nat : HeadSeen(f, p, e1, form, n)
  BY <1>2, HeadAt
<1>4. p + 2 <= e2
  BY <1>1, <1>2
<1>5. PICK fo \in 0..255, m \in Nat : HeadSeen(f, p, e2, fo, m)
  BY <1>4, HeadAt
<1>6. fo = form
  BY <1>3, <1>5 DEF HeadSeen
<1>7. /\ form \in 0..127 \cup {129, 130} /\ p + HeadLen(form) + n <= e1
      /\ der_elem(f, p, e1) = [tag |-> f[p + 1], off |-> p + HeadLen(form), len |-> n]
  <2>1. der_elem(f, p, e1) =
       IF form \in 0..127 \cup {129, 130} /\ p + HeadLen(form) + n <= e1
       THEN [tag |-> f[p + 1], off |-> p + HeadLen(form), len |-> n] ELSE Missing
    BY <1>3 DEF HeadSeen
  <2> QED BY <2>1
<1>8. n = ContentLen(form, ByteAt(f, e1, p + 2), ByteAt(f, e1, p + 3))
  BY <1>3 DEF HeadSeen
<1>9. m = ContentLen(form, ByteAt(f, e2, p + 2), ByteAt(f, e2, p + 3))
  BY <1>5, <1>6 DEF HeadSeen
<1>10. m = n
  <2>1. CASE form \in 0..127
    BY <1>8, <1>9, <2>1 DEF ContentLen
  <2>2. CASE form = 129
    <3>1. HeadLen(form) = 3
      BY <2>2 DEF HeadLen
    <3>2. p + 2 < e1 /\ p + 2 < e2
      BY <1>1, <1>7, <3>1
    <3>3. ByteAt(f, e1, p + 2) = ByteAt(f, e2, p + 2)
      BY <3>2 DEF ByteAt
    <3> QED BY <1>8, <1>9, <2>2, <3>3 DEF ContentLen
  <2>3. CASE form = 130
    <3>1. HeadLen(form) = 4
      BY <2>3 DEF HeadLen
    <3>2. p + 2 < e1 /\ p + 2 < e2 /\ p + 3 < e1 /\ p + 3 < e2
      BY <1>1, <1>7, <3>1
    <3>3. ByteAt(f, e1, p + 2) = ByteAt(f, e2, p + 2) /\ ByteAt(f, e1, p + 3) = ByteAt(f, e2, p + 3)
      BY <3>2 DEF ByteAt
    <3> QED BY <1>8, <1>9, <3>3
  <2> QED BY <1>7, <2>1, <2>2, <2>3
<1>11. HeadLen(form) \in Nat
  BY <1>7, HeadIs
<1>12. p + HeadLen(form) + n <= e2
  BY <1>1, <1>7, <1>11
<1>13. der_elem(f, p, e2) =
       IF fo \in 0..127 \cup {129, 130} /\ p + HeadLen(fo) + m <= e2
       THEN [tag |-> f[p + 1], off |-> p + HeadLen(fo), len |-> m] ELSE Missing
  BY <1>5 DEF HeadSeen
<1> QED BY <1>6, <1>7, <1>10, <1>12, <1>13

\* Two bytes of a length, and the three ways it is written.
TwoBytes(n) == n < 256 * 256

LEMMA Digits ==
  ASSUME NEW n \in Nat, TwoBytes(n)
  PROVE  \E hi \in Byte, lo \in Byte : n \div 256 = hi /\ n % 256 = lo /\ n = (hi * 256) + lo
<1>1. n \div 256 \in 0..255 /\ n % 256 \in 0..255 /\ n = ((n \div 256) * 256) + (n % 256)
  BY DEF TwoBytes
<1>2. n \div 256 \in Byte /\ n % 256 \in Byte
  BY <1>1 DEF Byte
<1> QED BY <1>1, <1>2, Zenon

LongForm(l, n) == \E hi \in Byte, lo \in Byte : l = <<130, hi, lo>> /\ n = (hi * 256) + lo
ALength(l, n) == \/ n < 128 /\ l = <<n>>
                 \/ n < 256 /\ l = <<129, n>>
                 \/ LongForm(l, n)

LEMMA LengthIs ==
  ASSUME NEW form \in 1..3, NEW n \in Nat, TwoBytes(n)
  PROVE  Length(form, n) \in Seq(Byte) /\ ALength(Length(form, n), n)
<1> DEFINE P == form = 1 /\ n < 128
           R == form <= 2 /\ n < 256
           u == n \div 256
           w == n % 256
<1>1. PICK hi \in Byte, lo \in Byte : u = hi /\ w = lo /\ n = (hi * 256) + lo
  BY Digits
<1>2. Length(form, n) = IF P THEN <<n>> ELSE IF R THEN <<129, n>> ELSE <<130, u, w>>
  BY DEF Length
<1>3. (P => n < 128) /\ (R => n < 256)
  OBVIOUS
<1> HIDE DEF P, R, u, w
<1>4. CASE P
  <2>1. n \in Byte
    BY <1>3, <1>4 DEF Byte
  <2>2. Length(form, n) = <<n>>
    BY <1>2, <1>4
  <2>3. Length(form, n) \in Seq(Byte)
    BY <2>1, <2>2
  <2> QED BY <1>3, <1>4, <2>2, <2>3 DEF ALength
<1>5. CASE ~P /\ R
  <2>1. n \in Byte /\ 129 \in Byte
    BY <1>3, <1>5 DEF Byte
  <2>2. Length(form, n) = <<129, n>>
    BY <1>2, <1>5
  <2>3. Length(form, n) \in Seq(Byte)
    BY <2>1, <2>2
  <2> QED BY <1>3, <1>5, <2>2, <2>3 DEF ALength
<1>6. CASE ~P /\ ~R
  <2>1. 130 \in Byte
    BY DEF Byte
  <2>2. Length(form, n) = <<130, hi, lo>>
    BY <1>1, <1>2, <1>6
  <2>3. Length(form, n) \in Seq(Byte)
    BY <2>1, <2>2
  <2>4. LongForm(Length(form, n), n)
    BY <1>1, <2>2 DEF LongForm
  <2> QED BY <2>3, <2>4 DEF ALength
<1> QED BY <1>4, <1>5, <1>6

LEMMA LengthLen ==
  ASSUME NEW n \in Nat, TwoBytes(n), NEW l, ALength(l, n)
  PROVE  Len(l) \in 1..3
<1>1. CASE LongForm(l, n)
  <2>1. PICK hi \in Byte, lo \in Byte : l = <<130, hi, lo>>
    BY <1>1 DEF LongForm
  <2> QED BY <2>1
<1> QED BY <1>1 DEF ALength

\* An element is in a file, as it is to be read.
Reads(f, d, tag, content) ==
  d.tag = tag /\ d.len = Len(content) /\ d.off \in Nat /\ Found(f, d.off, content)

LEMMA OneOf == ASSUME NEW n \in 1..3 PROVE 1 \in 1..n
OBVIOUS

LEMMA TlvIs ==
  ASSUME NEW form \in 1..3, NEW tag \in Byte, NEW content \in Seq(Byte), TwoBytes(Len(content))
  PROVE  /\ Length(form, Len(content)) \in Seq(Byte)
         /\ Tlv(form, tag, content) \in Seq(Byte)
         /\ Tlv(form, tag, content) = (<<tag>> \o Length(form, Len(content))) \o content
         /\ Len(Tlv(form, tag, content)) = 1 + Len(Length(form, Len(content))) + Len(content)
         /\ Len(Length(form, Len(content))) \in 1..3
<1>1. Len(content) \in Nat
  OBVIOUS
<1>2. Length(form, Len(content)) \in Seq(Byte) /\ Len(Length(form, Len(content))) \in 1..3
  BY <1>1, LengthIs, LengthLen
<1>3. PICK l \in Seq(Byte) : l = Length(form, Len(content))
  BY <1>2
<1>4. <<tag>> \in Seq(Byte) /\ Len(<<tag>>) = 1
  OBVIOUS
<1>5. <<tag>> \o l \in Seq(Byte) /\ Len(<<tag>> \o l) = 1 + Len(l)
  BY <1>4, Joined
<1>6. (<<tag>> \o l) \o content \in Seq(Byte) /\ Len((<<tag>> \o l) \o content) = 1 + Len(l) + Len(content)
  BY <1>5, Joined
<1>7. Tlv(form, tag, content) = (<<tag>> \o l) \o content
  BY <1>3 DEF Tlv
<1> QED BY <1>2, <1>3, <1>6, <1>7

\* Bytes in a file, before an end.
Fits(f, p, end, s) == Found(f, p, s) /\ p + Len(s) <= end

\* What was written as an element is read as one.
LEMMA TlvRead ==
  ASSUME NEW f \in Seq(Byte), NEW p \in Nat, NEW end \in 0..Len(f), NEW form \in 1..3, NEW tag \in Byte,
         NEW content \in Seq(Byte), TwoBytes(Len(content)),
         Fits(f, p, end, Tlv(form, tag, content))
  PROVE  /\ Reads(f, der_elem(f, p, end), tag, content)
         /\ After(der_elem(f, p, end)) = p + Len(Tlv(form, tag, content))
<1>1. Len(f) \in Nat /\ end \in Nat /\ end <= Len(f) /\ Len(content) \in Nat
  OBVIOUS
<1>2. PICK l \in Seq(Byte) : l = Length(form, Len(content))
  BY TlvIs
<1>3. /\ Tlv(form, tag, content) = (<<tag>> \o l) \o content
      /\ Len(Tlv(form, tag, content)) = 1 + Len(l) + Len(content)
      /\ Len(l) \in 1..3
  BY <1>2, TlvIs
<1>4. <<tag>> \in Seq(Byte) /\ Len(<<tag>>) = 1
  OBVIOUS
<1>5. <<tag>> \o l \in Seq(Byte) /\ Len(<<tag>> \o l) = 1 + Len(l)
  BY <1>4, Joined
<1>0. Found(f, p, Tlv(form, tag, content)) /\ p + Len(Tlv(form, tag, content)) <= end
  BY DEF Fits
<1>6. Found(f, p, <<tag>> \o l) /\ Found(f, p + (1 + Len(l)), content)
  <2>1. Found(f, p, (<<tag>> \o l) \o content)
    BY <1>0, <1>3
  <2> QED BY <1>5, <2>1, FoundJoined
<1>7. Found(f, p, <<tag>>) /\ Found(f, p + 1, l)
  BY <1>4, <1>6, FoundJoined
<1>8. f[p + 1] = tag
  BY <1>4, <1>7 DEF Found
<1>9. \A i \in 1..Len(l) : f[(p + 1) + i] = l[i]
  BY <1>7 DEF Found
<1>10. f[p + 2] = l[1]
  <2>1. 1 \in 1..Len(l)
    BY <1>3, OneOf
  <2>2. (p + 1) + 1 = p + 2
    OBVIOUS
  <2> QED BY <1>9, <2>1, <2>2
<1>11. p + 2 <= end
  BY <1>0, <1>1, <1>3
<1>12. PICK fo \in 0..255, n \in Nat : HeadSeen(f, p, end, fo, n)
  BY <1>11, HeadAt
<1>13. fo = l[1] /\ n = ContentLen(fo, ByteAt(f, end, p + 2), ByteAt(f, end, p + 3))
  BY <1>10, <1>12 DEF HeadSeen
<1>14. ALength(l, Len(content))
  BY <1>1, <1>2, LengthIs
<1>15. fo \in 0..127 \cup {129, 130} /\ HeadLen(fo) = 1 + Len(l) /\ n = Len(content)
  <2>1. CASE Len(content) < 128 /\ l = <<Len(content)>>
    <3>1. Len(l) = 1 /\ l[1] = Len(content)
      BY <2>1
    <3>5. fo = Len(content)
      BY <1>13, <3>1
    <3>6. Len(content) \in Nat /\ Len(content) < 128
      BY <1>1, <2>1
    <3>9. fo \in Nat /\ fo < 128
      BY <3>5, <3>6, Zenon
    <3>2. fo = Len(content) /\ fo \in 0..127 /\ fo < 128
      <4>1. fo \in 0..127
        BY ONLY <3>9
      <4> QED BY ONLY <3>5, <3>9, <4>1
    <3>3. HeadLen(fo) = 2
      BY <3>2 DEF HeadLen
    <3>4. n = fo
      BY <1>13, <3>2, Zenon DEF ContentLen
    <3>7. fo \in 0..127 \cup {129, 130}
      BY <3>2
    <3>8. HeadLen(fo) = 1 + Len(l)
      BY <3>1, <3>3
    <3> QED BY <3>4, <3>5, <3>7, <3>8
  <2>2. CASE Len(content) < 256 /\ l = <<129, Len(content)>>
    <3>1. fo = 129 /\ Len(l) = 2 /\ l[2] = Len(content) /\ 2 \in 1..Len(l)
      BY <1>13, <2>2
    <3>2. p + 2 < end /\ (p + 2) + 1 = (p + 1) + 2
      BY <1>0, <1>1, <1>3, <3>1
    <3>3. ByteAt(f, end, p + 2) = Len(content)
      BY <1>9, <3>1, <3>2 DEF ByteAt
    <3> QED BY <1>13, <3>1, <3>3 DEF HeadLen, ContentLen
  <2>3. CASE LongForm(l, Len(content))
    <3>0. PICK hi \in Byte, lo \in Byte : l = <<130, hi, lo>> /\ Len(content) = (hi * 256) + lo
      BY <2>3 DEF LongForm
    <3>1. fo = 130 /\ Len(l) = 3 /\ l[2] = hi /\ l[3] = lo /\ 2 \in 1..Len(l) /\ 3 \in 1..Len(l)
      BY <1>13, <3>0
    <3>2. p + 2 < end /\ (p + 2) + 1 = (p + 1) + 2 /\ p + 3 < end /\ (p + 3) + 1 = (p + 1) + 3
      BY <1>0, <1>1, <1>3, <3>1
    <3>3. ByteAt(f, end, p + 2) = hi /\ ByteAt(f, end, p + 3) = lo
      BY <1>9, <3>1, <3>2 DEF ByteAt
    <3>4. n = ContentLen(130, hi, lo)
      BY <1>13, <3>1, <3>3
    <3>5. n = Len(content)
      BY <3>0, <3>4 DEF ContentLen
    <3> QED BY <3>1, <3>5 DEF HeadLen
  <2> QED BY <1>14, <2>1, <2>2, <2>3 DEF ALength
<1>16. p + HeadLen(fo) + n <= end
  BY <1>0, <1>1, <1>3, <1>15
<1>17. der_elem(f, p, end) = [tag |-> tag, off |-> p + (1 + Len(l)), len |-> Len(content)]
  <2>1. der_elem(f, p, end) =
          IF fo \in 0..127 \cup {129, 130} /\ p + HeadLen(fo) + n <= end
          THEN [tag |-> f[p + 1], off |-> p + HeadLen(fo), len |-> n] ELSE Missing
    BY <1>12 DEF HeadSeen
  <2> QED BY <1>8, <1>15, <1>16, <2>1
<1>18. Reads(f, der_elem(f, p, end), tag, content)
  BY <1>3, <1>6, <1>17 DEF Reads
<1>19. After(der_elem(f, p, end)) = p + Len(Tlv(form, tag, content))
  BY <1>1, <1>3, <1>17 DEF After
<1> QED BY <1>18, <1>19

\* A nonempty set of numbers has a lowest, and a bounded one a highest.
LEMMA HasLowest ==
  ASSUME NEW S \in SUBSET Nat, S # {}
  PROVE  \E b \in S : \A c \in S : b <= c
<1>1. PICK b \in S : \A c \in S : ~(<<c, b>> \in OpToRel(<, Nat))
  BY NatLessThanWellFounded, WFMin
<1>2. \A c \in S : ~(c < b)
  BY <1>1 DEF OpToRel
<1>3. \A c \in S : b <= c
  BY <1>2
<1> QED BY <1>3

LEMMA HasHighest ==
  ASSUME NEW n \in Nat, NEW S \in SUBSET (0..n), S # {}
  PROVE  \E b \in S : \A c \in S : c <= b
<1> DEFINE T == {n - c : c \in S}
<1>0. \A c \in S : n - c \in Nat
  OBVIOUS
<1>1. T \in SUBSET Nat /\ T # {}
  BY <1>0
<1>2. PICK t \in T : \A u \in T : t <= u
  <2> HIDE DEF T
  <2> QED BY <1>1, HasLowest
<1>3. PICK b \in S : t = n - b
  OBVIOUS
<1>4. \A c \in S : n - b <= n - c
  BY <1>2, <1>3
<1>5. \A c \in S : c <= b
  <2> SUFFICES ASSUME NEW c \in S PROVE c <= b
    OBVIOUS
  <2>1. n - b <= n - c /\ b \in 0..n /\ c \in 0..n
    BY <1>4
  <2> QED BY <2>1
<1> QED BY <1>5

\* What holds of 0, and of a number's successor, holds of every number.
LEMMA Counted ==
  ASSUME NEW S \in SUBSET Nat, 0 \in S, \A n \in S : n + 1 \in S
  PROVE  \A n \in Nat : n \in S
<1>1. SUFFICES ASSUME Nat \ S # {} PROVE FALSE
  OBVIOUS
<1>2. PICK m \in Nat \ S : \A c \in Nat \ S : m <= c
  <2>1. Nat \ S \in SUBSET Nat
    OBVIOUS
  <2> QED BY <1>1, <2>1, HasLowest
<1>3. m # 0
  BY <1>2
<1>4. m - 1 \in Nat /\ m - 1 \in S
  BY <1>2, <1>3
<1>5. (m - 1) + 1 \in S
  BY <1>4
<1> QED BY <1>2, <1>5

\* Elements that each lead on, at the offsets up to a length.
Steps(step, n) ==
  /\ DOMAIN step = 0..n
  /\ \A p \in 0..n : step[p] = Missing \/ (After(step[p]) \in 0..n /\ After(step[p]) > p)

\* The walk along them is what its definition says it is.
LEMMA AlongIs ==
  ASSUME NEW n \in Nat, NEW step, Steps(step, n)
  PROVE  Along(step) =
           [p \in 0..n |-> IF step[p] = Missing THEN <<>> ELSE <<step[p]>> \o Along(step)[After(step[p])]]
<1> DEFINE D(k) == {q \in 0..n : q + k > n}
           Body(g, p) == IF step[p] = Missing THEN <<>> ELSE <<step[p]>> \o g[After(step[p])]
           Is(g, k) == g = [p \in D(k) |-> Body(g, p)]
           S == {k \in Nat : \E g : Is(g, k)}
<1>1. 0 \in S
  <2> DEFINE g == [p \in {} |-> <<>>]
  <2>1. D(0) = {}
    OBVIOUS
  <2>2. g = [p \in {} |-> Body(g, p)]
    <3> HIDE DEF Body
    <3> QED OBVIOUS
  <2>3. Is(g, 0)
    BY <2>1, <2>2
  <2> HIDE DEF Is, g
  <2> QED BY <2>3
<1>2. ASSUME NEW k \in S PROVE k + 1 \in S
  <2>0. k \in Nat /\ k + 1 \in Nat
    OBVIOUS
  <2>1. PICK g : Is(g, k)
    BY <1>2
  <2> DEFINE h == [p \in D(k + 1) |-> Body(g, p)]
  <2>2. \A p \in D(k) : p \in D(k + 1) /\ h[p] = g[p]
    <3>1. \A p \in D(k) : p \in D(k + 1)
      OBVIOUS
    <3> HIDE DEF Body, D
    <3> QED BY <2>1, <3>1
  <2>3. \A p \in D(k + 1) : step[p] = Missing \/ After(step[p]) \in D(k)
    <3> SUFFICES ASSUME NEW p \in D(k + 1), step[p] # Missing PROVE After(step[p]) \in D(k)
      OBVIOUS
    <3>1. p \in 0..n /\ p + (k + 1) > n
      OBVIOUS
    <3>2. After(step[p]) \in 0..n /\ After(step[p]) > p
      BY <3>1 DEF Steps
    <3>3. After(step[p]) + k > n
      BY <2>0, <3>1, <3>2
    <3> QED BY <3>2, <3>3
  <2>4. \A p \in D(k + 1) : Body(h, p) = Body(g, p)
    <3> SUFFICES ASSUME NEW p \in D(k + 1) PROVE Body(h, p) = Body(g, p)
      OBVIOUS
    <3>1. step[p] = Missing \/ h[After(step[p])] = g[After(step[p])]
      <4> HIDE DEF h, D
      <4> QED BY <2>2, <2>3
    <3> HIDE DEF h, D
    <3> QED BY <3>1
  <2>5. Is(h, k + 1)
    <3>1. h = [p \in D(k + 1) |-> Body(g, p)]
      OBVIOUS
    <3> HIDE DEF Body, h, D
    <3>2. [p \in D(k + 1) |-> Body(g, p)] = [p \in D(k + 1) |-> Body(h, p)]
      BY <2>4
    <3> QED BY <3>1, <3>2
  <2> HIDE DEF Is, h
  <2> QED BY <2>0, <2>5
<1>3. \E g : Is(g, n + 1)
  <2> HIDE DEF Is
  <2>1. \A k \in Nat : k \in S
    BY <1>1, <1>2, Counted
  <2> QED BY <2>1
<1>4. D(n + 1) = 0..n
  OBVIOUS
<1>5. \E g : g = [p \in 0..n |-> Body(g, p)]
  <2> HIDE DEF D, Body
  <2> QED BY <1>3, <1>4
<1>6. DOMAIN step = 0..n
  BY DEF Steps
<1>7. Along(step) = CHOOSE g : g = [p \in DOMAIN step |-> Body(g, p)]
  BY Zenon DEF Along
<1> HIDE DEF Body
<1>8. Along(step) = [p \in 0..n |-> Body(Along(step), p)]
  BY <1>5, <1>6, <1>7
<1> QED BY <1>8 DEF Body

\* The elements of a file, one after another.
LEMMA WalkSteps ==
  ASSUME NEW f \in Seq(Byte), NEW end \in 0..Len(f)
  PROVE  Steps([p \in 0..Len(f) |-> der_elem(f, p, end)], Len(f))
<1>1. Len(f) \in Nat /\ end \in Nat /\ end <= Len(f)
  OBVIOUS
<1> DEFINE step == [p \in 0..Len(f) |-> der_elem(f, p, end)]
<1>2. ASSUME NEW p \in 0..Len(f)
      PROVE  step[p] = Missing \/ (After(step[p]) \in 0..Len(f) /\ After(step[p]) > p)
  <2>1. step[p] = der_elem(f, p, end) /\ p \in Nat
    BY <1>1
  <2>2. der_elem(f, p, end) = Missing \/ der_elem(f, p, end) \in Elem(p, end)
    BY <2>1, ElemIs
  <2> HIDE DEF step
  <2>3. CASE der_elem(f, p, end) \in Elem(p, end)
    <3>1. PICK d : d = step[p]
      OBVIOUS
    <3>2. d \in [tag : Byte, off : Nat, len : Nat] /\ d.off >= p + 2 /\ d.off + d.len <= end
      BY <2>1, <2>3, <3>1 DEF Elem, After
    <3>3. d.off + d.len \in 0..Len(f) /\ d.off + d.len > p
      BY <1>1, <2>1, <3>2
    <3> QED BY <3>1, <3>3 DEF After
  <2> QED BY <2>1, <2>2, <2>3
<1>3. DOMAIN step = 0..Len(f)
  OBVIOUS
<1> HIDE DEF step
<1>4. Steps(step, Len(f))
  BY <1>2, <1>3 DEF Steps
<1> QED BY <1>4 DEF step

LEMMA WalkIs ==
  ASSUME NEW f \in Seq(Byte), NEW end \in 0..Len(f), NEW p \in 0..Len(f)
  PROVE  Walk(f, p, end) =
           IF der_elem(f, p, end) = Missing THEN <<>>
           ELSE <<der_elem(f, p, end)>> \o Walk(f, After(der_elem(f, p, end)), end)
<1> DEFINE step == [q \in 0..Len(f) |-> der_elem(f, q, end)]
<1>1. Steps(step, Len(f)) /\ Len(f) \in Nat
  BY WalkSteps
<1>2. step[p] = der_elem(f, p, end)
  OBVIOUS
<1>3. \A q : Walk(f, q, end) = Along(step)[q]
  BY DEF Walk
<1> HIDE DEF step
<1>4. Along(step) =
        [q \in 0..Len(f) |-> IF step[q] = Missing THEN <<>> ELSE <<step[q]>> \o Along(step)[After(step[q])]]
  BY <1>1, AlongIs
<1>5. Along(step)[p] = IF step[p] = Missing THEN <<>> ELSE <<step[p]>> \o Along(step)[After(step[p])]
  BY <1>4
<1> QED BY <1>2, <1>3, <1>5

\* Both walkers find the same.
LEMMA ElementsAre ==
  ASSUME NEW f \in Seq(Byte), NEW end \in 0..Len(f), NEW p
  PROVE  Elements(f, p, end) = Walk(f, p, end)
<1>1. \A q \in 0..Len(f) : element(f, end, q) = der_elem(f, q, end)
  <2>1. \A q \in 0..Len(f) : q \in Nat
    OBVIOUS
  <2> QED BY <2>1, SameWalker
<1>2. [q \in 0..Len(f) |-> element(f, end, q)] = [q \in 0..Len(f) |-> der_elem(f, q, end)]
  BY <1>1
<1> QED BY <1>2, Zenon DEF Elements, Walk

\* One put before a sequence.
LEMMA Prepended ==
  ASSUME NEW D, NEW c \in D, NEW q \in Seq(D)
  PROVE  /\ <<c>> \o q \in Seq(D) /\ Len(<<c>> \o q) = Len(q) + 1 /\ <<c>> \o q # <<>>
         /\ (<<c>> \o q)[1] = c
         /\ \A k \in 1..Len(q) : (<<c>> \o q)[k + 1] = q[k]
<1>1. <<c>> \in Seq(D) /\ Len(<<c>>) = 1
  OBVIOUS
<1>2. <<c>> \o q \in Seq(D) /\ Len(<<c>> \o q) = Len(q) + 1
  BY <1>1
<1>3. \A k \in 1..Len(q) : (<<c>> \o q)[k + 1] = q[k]
  BY <1>1
<1> QED BY <1>1, <1>2, <1>3

\* These are the elements from an offset to where there is none.
Chained(f, p, end, w) ==
  /\ w \in Seq(Elem(p, end))
  /\ w = <<>> => der_elem(f, p, end) = Missing
  /\ w # <<>> => w[1] = der_elem(f, p, end) /\ der_elem(f, After(w[Len(w)]), end) = Missing
  /\ \A k \in 1..Len(w) - 1 : w[k + 1] = der_elem(f, After(w[k]), end)

LEMMA ElemSub ==
  ASSUME NEW p \in Nat, NEW q \in Nat, p <= q, NEW end \in Nat
  PROVE  Elem(q, end) \subseteq Elem(p, end)
BY DEF Elem

LEMMA ElemFacts ==
  ASSUME NEW p \in Nat, NEW end \in Nat, NEW d \in Elem(p, end)
  PROVE  /\ d # Missing /\ d.tag \in Byte /\ d.off \in Nat /\ d.len \in Nat /\ d.off >= p + 2
         /\ After(d) \in Nat /\ After(d) > p /\ After(d) <= end /\ After(d) >= d.off
<1>1. d \in [tag : Byte, off : Nat, len : Nat] /\ d.off >= p + 2 /\ d.off + d.len <= end
  BY DEF Elem, After
<1>2. d.tag \in Byte /\ d.off \in Nat /\ d.len \in Nat
  BY <1>1
<1>3. d.tag # -1
  BY <1>2 DEF Byte
<1>4. d # Missing
  BY <1>3 DEF Missing
<1>5. d.off + d.len \in Nat /\ d.off + d.len > p /\ d.off + d.len >= d.off
  BY <1>1, <1>2
<1> QED BY <1>1, <1>2, <1>4, <1>5 DEF After

LEMMA WalkSub ==
  ASSUME NEW D, NEW E, D \subseteq E, NEW s \in Seq(D)
  PROVE  s \in Seq(E)
OBVIOUS

\* One element more at the front.
LEMMA ChainedFirst ==
  ASSUME NEW f, NEW p \in Nat, NEW end \in Nat, NEW d \in Elem(p, end), d = der_elem(f, p, end),
         NEW w, Chained(f, After(d), end, w)
  PROVE  Chained(f, p, end, <<d>> \o w)
<1>1. After(d) \in Nat /\ p <= After(d)
  <2>1. After(d) \in Nat /\ After(d) > p
    BY ElemFacts
  <2> QED BY <2>1
<1>2. w \in Seq(Elem(p, end))
  <2>1. Elem(After(d), end) \subseteq Elem(p, end)
    BY <1>1, ElemSub
  <2>2. w \in Seq(Elem(After(d), end))
    BY DEF Chained
  <2> QED BY <2>1, <2>2, WalkSub
<1> DEFINE v == <<d>> \o w
<1>3. v \in Seq(Elem(p, end)) /\ Len(v) = Len(w) + 1 /\ v # <<>> /\ v[1] = d /\ \A k \in 1..Len(w) : v[k + 1] = w[k]
  BY <1>2, Prepended
<1> HIDE DEF v
<1>4. Len(w) \in Nat
  BY <1>2
<1>5. der_elem(f, After(v[Len(v)]), end) = Missing
  <2>1. CASE w = <<>>
    <3>1. Len(w) = 0
      BY <2>1
    <3>2. v[Len(v)] = d
      BY <1>3, <3>1
    <3> QED BY <2>1, <3>2 DEF Chained
  <2>2. CASE w # <<>>
    <3>1. Len(w) \in 1..Len(w)
      BY <1>2, <2>2
    <3>2. v[Len(v)] = w[Len(w)]
      BY <1>3, <3>1
    <3> QED BY <2>2, <3>2 DEF Chained
  <2> QED BY <2>1, <2>2
<1>6. \A k \in 1..Len(v) - 1 : v[k + 1] = der_elem(f, After(v[k]), end)
  <2> SUFFICES ASSUME NEW k \in 1..Len(v) - 1 PROVE v[k + 1] = der_elem(f, After(v[k]), end)
    OBVIOUS
  <2>0. k \in 1..Len(w) /\ k \in Nat
    BY <1>3, <1>4
  <2>1. v[k + 1] = w[k]
    BY <1>3, <2>0
  <2>2. CASE k = 1
    <3>1. w # <<>> /\ v[k] = d
      BY <1>2, <1>3, <2>0, <2>2
    <3> QED BY <2>1, <2>2, <3>1 DEF Chained
  <2>3. CASE k # 1
    <3>1. k - 1 \in 1..Len(w) - 1 /\ (k - 1) + 1 = k /\ k - 1 \in 1..Len(w)
      BY <1>4, <2>0, <2>3
    <3>2. v[k] = w[k - 1]
      BY <1>3, <3>1
    <3>3. w[k] = der_elem(f, After(w[k - 1]), end)
      BY <3>1 DEF Chained
    <3> QED BY <2>1, <3>2, <3>3
  <2> QED BY <2>2, <2>3
<1> QED BY <1>3, <1>5, <1>6 DEF Chained, v

LEMMA WalkChained ==
  ASSUME NEW f \in Seq(Byte), NEW end \in 0..Len(f), NEW p \in 0..Len(f)
  PROVE  Chained(f, p, end, Walk(f, p, end))
<1> DEFINE n == Len(f)
           S == {k \in Nat : \A q \in 0..n : q + k > n => Chained(f, q, end, Walk(f, q, end))}
<1>1. n \in Nat /\ end \in Nat /\ end <= n
  OBVIOUS
<1>2. 0 \in S
  BY <1>1
<1>3. ASSUME NEW k \in S PROVE k + 1 \in S
  <2>0. k \in Nat /\ \A q \in 0..n : q + k > n => Chained(f, q, end, Walk(f, q, end))
    OBVIOUS
  <2>1. ASSUME NEW q \in 0..n, q + (k + 1) > n PROVE Chained(f, q, end, Walk(f, q, end))
    <3> DEFINE d == der_elem(f, q, end)
    <3>1. q \in Nat /\ (d = Missing \/ d \in Elem(q, end))
      BY <1>1, ElemIs
    <3>2. Walk(f, q, end) = IF d = Missing THEN <<>> ELSE <<d>> \o Walk(f, After(d), end)
      BY WalkIs
    <3>3. CASE d = Missing
      <4>1. Walk(f, q, end) = <<>>
        BY <3>2, <3>3
      <4>2. <<>> \in Seq(Elem(q, end)) /\ Len(<<>>) = 0
        OBVIOUS
      <4> QED BY <3>3, <4>1, <4>2 DEF Chained
    <3>4. CASE d \in Elem(q, end) /\ d # Missing
      <4>1. PICK e : e = d
        OBVIOUS
      <4>2. e \in Elem(q, end) /\ e = der_elem(f, q, end) /\ Walk(f, q, end) = <<e>> \o Walk(f, After(e), end)
        BY <3>2, <3>4, <4>1
      <4>7. q \in Nat
        BY <3>1
      <4> HIDE DEF S, d
      <4>3. After(e) \in Nat /\ After(e) > q /\ After(e) <= end
        BY <1>1, <3>1, <4>2, ElemFacts
      <4>4. After(e) \in 0..n /\ After(e) + k > n
        <5> HIDE DEF n
        <5> QED BY <1>1, <2>0, <2>1, <4>3
      <4>5. Chained(f, After(e), end, Walk(f, After(e), end))
        BY <2>0, <4>4
      <4>6. Chained(f, q, end, <<e>> \o Walk(f, After(e), end))
        BY <1>1, <3>1, <4>2, <4>5, ChainedFirst
      <4> QED BY <4>2, <4>6
    <3> QED BY <3>1, <3>3, <3>4
  <2>2. k + 1 \in Nat
    BY <2>0
  <2> QED BY <2>1, <2>2
<1>4. n + 1 \in S
  <2>0. S \in SUBSET Nat
    OBVIOUS
  <2> HIDE DEF S
  <2>1. \A k \in Nat : k \in S
    BY <1>2, <1>3, <2>0, Counted
  <2>2. n + 1 \in Nat
    <3> HIDE DEF n
    <3> QED BY <1>1
  <2> QED BY <2>1, <2>2
<1>5. p + (n + 1) > n /\ p \in 0..n
  BY <1>1
<1> QED BY <1>4, <1>5

\* An element of a walk, and the one behind it.
LEMMA WalkNext ==
  ASSUME NEW f \in Seq(Byte), NEW end \in 0..Len(f), NEW p \in 0..Len(f), NEW k \in Nat, k \in DOMAIN Walk(f, p, end)
  PROVE  /\ Walk(f, p, end)[k] \in Elem(p, end)
         /\ k + 1 \in DOMAIN Walk(f, p, end) <=> der_elem(f, After(Walk(f, p, end)[k]), end) # Missing
         /\ k + 1 \in DOMAIN Walk(f, p, end) => Walk(f, p, end)[k + 1] = der_elem(f, After(Walk(f, p, end)[k]), end)
<1>1. PICK w : w = Walk(f, p, end)
  OBVIOUS
<1>2. Chained(f, p, end, w)
  BY <1>1, WalkChained
<1>3. w \in Seq(Elem(p, end)) /\ DOMAIN w = 1..Len(w) /\ Len(w) \in Nat
  BY <1>2 DEF Chained
<1>4. k \in 1..Len(w) /\ w[k] \in Elem(p, end)
  BY <1>1, <1>3
<1>5. CASE k = Len(w)
  <2>1. w # <<>> /\ k + 1 \notin DOMAIN w
    BY <1>3, <1>4, <1>5
  <2>2. der_elem(f, After(w[k]), end) = Missing
    BY <1>2, <1>5, <2>1 DEF Chained
  <2> QED BY <1>1, <1>4, <2>1, <2>2
<1>6. CASE k # Len(w)
  <2>0. k < Len(w)
    <3>1. k \in 1..Len(w) /\ k # Len(w) /\ Len(w) \in Nat
      BY <1>3, <1>4, <1>6
    <3> QED BY ONLY <3>1
  <2>1. k \in 1..Len(w) - 1 /\ k + 1 \in 1..Len(w)
    BY <1>3, <1>4, <2>0
  <2>2. w[k + 1] = der_elem(f, After(w[k]), end)
    BY <1>2, <2>1 DEF Chained
  <2>3. w[k + 1] \in Elem(p, end)
    BY <1>3, <2>1
  <2>4. w[k + 1] # Missing
    <3>1. p \in Nat /\ end \in Nat
      OBVIOUS
    <3> QED BY <2>3, <3>1, ElemFacts
  <2> QED BY <1>1, <1>3, <1>4, <2>1, <2>2, <2>4
<1> QED BY <1>5, <1>6

LEMMA WalkFirst ==
  ASSUME NEW f \in Seq(Byte), NEW end \in 0..Len(f), NEW p \in 0..Len(f)
  PROVE  /\ Walk(f, p, end) \in Seq(Elem(p, end))
         /\ 1 \in DOMAIN Walk(f, p, end) <=> der_elem(f, p, end) # Missing
         /\ Walk(f, p, end) # <<>> <=> der_elem(f, p, end) # Missing
         /\ 1 \in DOMAIN Walk(f, p, end) => Walk(f, p, end)[1] = der_elem(f, p, end)
<1>1. PICK w : w = Walk(f, p, end)
  OBVIOUS
<1>2. Chained(f, p, end, w)
  BY <1>1, WalkChained
<1>3. w \in Seq(Elem(p, end)) /\ DOMAIN w = 1..Len(w) /\ Len(w) \in Nat
  BY <1>2 DEF Chained
<1>4. w # <<>> <=> 1 \in DOMAIN w
  BY <1>3
<1>5. w # <<>> => w[1] \in Elem(p, end) /\ w[1] # Missing
  <2>1. p \in Nat /\ end \in Nat
    OBVIOUS
  <2> QED BY <1>3, <1>4, <2>1, ElemFacts
<1> QED BY <1>1, <1>2, <1>3, <1>4, <1>5 DEF Chained

\* An element that has a tag is one.
LEMMA Tagged ==
  ASSUME NEW f \in Seq(Byte), NEW p \in Nat, NEW end \in 0..Len(f), der_elem(f, p, end).tag \in Byte
  PROVE  der_elem(f, p, end) \in Elem(p, end) /\ der_elem(f, p, end) # Missing
<1>1. Missing.tag \notin Byte
  BY DEF Missing, Byte
<1>2. der_elem(f, p, end) # Missing
  BY <1>1
<1> QED BY <1>2, ElemIs

LEMMA Tags == /\ SEQ \in Byte /\ OID \in Byte /\ BITS \in Byte /\ INT \in Byte /\ OCTETS \in Byte /\ BOOL \in Byte
              /\ DNS \in Byte /\ VERSION \in Byte /\ EXTENSIONS \in Byte /\ UTCTIME \in Byte /\ GENERALIZED \in Byte
BY DEF SEQ, OID, BITS, INT, OCTETS, BOOL, DNS, VERSION, EXTENSIONS, UTCTIME, GENERALIZED, Byte

\* The certificate and what is signed of it.
Outer(f, c, t) ==
  /\ c \in Elem(0, Len(f)) /\ c = der_elem(f, 0, Len(f)) /\ c.tag = SEQ
  /\ t \in Elem(c.off, After(c)) /\ t = der_elem(f, c.off, After(c)) /\ t.tag = SEQ

LEMMA OuterIs ==
  ASSUME NEW f \in Seq(Byte), NEW c, NEW t, c = der_elem(f, 0, Len(f)), t = der_elem(f, c.off, After(c)),
         c.tag = SEQ, t.tag = SEQ
  PROVE  Outer(f, c, t)
<1>1. Len(f) \in Nat /\ 0 \in Nat /\ Len(f) \in 0..Len(f)
  OBVIOUS
<1>2. c \in Elem(0, Len(f))
  BY <1>1, Tagged, Tags
<1>3. c.off \in Nat /\ After(c) \in 0..Len(f)
  BY <1>1, <1>2, ElemFacts
<1>4. t \in Elem(c.off, After(c))
  BY <1>3, Tagged, Tags
<1> QED BY <1>2, <1>4 DEF Outer

LEMMA OuterFacts ==
  ASSUME NEW f \in Seq(Byte), NEW c, NEW t, Outer(f, c, t)
  PROVE  /\ Len(f) \in Nat /\ c.off \in Nat /\ After(c) \in 0..Len(f) /\ t # Missing /\ c # Missing
         /\ t.off \in 0..Len(f) /\ t.off \in Nat /\ After(t) \in 0..Len(f) /\ After(t) \in Nat /\ After(t) >= c.off /\ After(t) <= After(c) /\ t.off > c.off
         /\ t.off <= After(t) /\ t.len \in Nat
<1>1. Len(f) \in Nat /\ 0 \in Nat
  OBVIOUS
<1>2. c.off \in Nat /\ c.len \in Nat /\ After(c) \in Nat /\ After(c) <= Len(f) /\ c # Missing
  BY <1>1, ElemFacts DEF Outer
<1>3. /\ t.off \in Nat /\ t.len \in Nat /\ t.off >= c.off + 2 /\ After(t) \in Nat /\ After(t) <= After(c) /\ t # Missing
      /\ After(t) >= t.off /\ After(t) > c.off
  BY <1>2, ElemFacts DEF Outer
<1> HIDE DEF Missing
<1> QED BY <1>1, <1>2, <1>3

LEMMA DerTbsIs ==
  ASSUME NEW f \in Seq(Byte)
  PROVE  /\ \A c, t : Outer(f, c, t) => der_tbs(f) = t
         /\ der_tbs(f) # Missing => \E c, t : Outer(f, c, t)
<1> DEFINE c == der_elem(f, 0, Len(f))
           t == der_elem(f, c.off, After(c))
<1>1. der_tbs(f) = IF c.tag = SEQ /\ t.tag = SEQ THEN t ELSE Missing
  BY Zenon DEF der_tbs
<1>2. \A d, u : Outer(f, d, u) => d = c /\ u = t /\ c.tag = SEQ /\ t.tag = SEQ
  BY DEF Outer
<1>3. c.tag = SEQ /\ t.tag = SEQ => Outer(f, c, t)
  BY OuterIs
<1> HIDE DEF c, t, Missing
<1> QED BY <1>1, <1>2, <1>3

\* The parts, when they are found.
PartsAre(f, c, t, s) ==
  /\ Outer(f, c, t) /\ s \in Elem(After(t), After(c)) /\ s.len >= 2
  /\ chain_parts(f).tbs = Range0(c.off, After(t) - c.off)
  /\ chain_parts(f).sig = Range0(s.off + 1, s.len - 1)

LEMMA PartsFound ==
  ASSUME NEW f \in Seq(Byte), chain_parts(f).ok
  PROVE  \E c, t, s : PartsAre(f, c, t, s)
<1> DEFINE c == der_elem(f, 0, Len(f))
           t == der_tbs(f)
           a == der_elem(f, After(t), After(c))
           o == der_elem(f, a.off, After(c))
           s == der_elem(f, After(a), After(c))
           alg == CASE der_oid_is(f, o, OidRsaSha256, Len(OidRsaSha256)) -> "RSA_SHA256"
                    [] der_oid_is(f, o, OidEcdsaSha2, Len(OidEcdsaSha2) + 1) -> "ECDSA"
                    [] OTHER -> "UNKNOWN"
<1> DEFINE ok == t # Missing /\ a.tag = SEQ /\ o.tag = OID /\ s.tag = BITS /\ s.len >= 2 /\ f[s.off + 1] = 0
<1>1. chain_parts(f) =
        [ok  |-> ok,
         tbs |-> Range0(c.off, After(t) - c.off), alg |-> alg, sig |-> Range0(s.off + 1, s.len - 1)]
  BY Zenon DEF chain_parts
<1> HIDE DEF alg, Missing
<1>20. ok
  <2> HIDE DEF c, t, a, o, s, ok
  <2>1. chain_parts(f).ok = ok
    BY <1>1
  <2> QED BY <2>1
<1>0. t # Missing
  BY <1>20, Zenon
<1>2. t # Missing /\ a.tag = SEQ /\ s.tag = BITS /\ s.len >= 2
  BY <1>20, Zenon
<1> HIDE DEF ok
<1>3. chain_parts(f).tbs = Range0(c.off, After(t) - c.off) /\ chain_parts(f).sig = Range0(s.off + 1, s.len - 1)
  <2> HIDE DEF c, t, a, o, s
  <2> QED BY <1>1
<1>4. PICK d, u : Outer(f, d, u)
  <2> HIDE DEF c, a, o, s
  <2>1. der_tbs(f) # Missing
    BY <1>0
  <2> QED BY <2>1, DerTbsIs
<1>5. d = c /\ u = t
  <2>1. d = c
    BY <1>4 DEF Outer
  <2>2. u = t
    BY <1>4, DerTbsIs
  <2> QED BY <2>1, <2>2
<1> HIDE DEF c, t
<1>6. Outer(f, c, t)
  BY <1>4, <1>5
<1>7. After(t) \in Nat /\ After(c) \in 0..Len(f) /\ After(c) \in Nat
  BY <1>6, OuterFacts
<1>8. a \in Elem(After(t), After(c))
  <2>1. a.tag \in Byte
    BY <1>2, Tags
  <2> QED BY <1>7, <2>1, Tagged
<1> HIDE DEF a
<1>9. After(a) \in Nat /\ After(t) <= After(a)
  <2>1. After(a) \in Nat /\ After(a) > After(t)
    BY <1>7, <1>8, ElemFacts
  <2> QED BY <1>7, <2>1
<1>10. s \in Elem(After(a), After(c))
  <2>1. s.tag \in Byte
    BY <1>2, Tags
  <2> QED BY <1>7, <1>9, <2>1, Tagged
<1> HIDE DEF s
<1>11. s \in Elem(After(t), After(c))
  BY <1>7, <1>9, <1>10, ElemSub
<1>12. PartsAre(f, c, t, s)
  BY <1>2, <1>3, <1>6, <1>11 DEF PartsAre
<1> QED BY <1>12

\* What is behind the leading zeros is the end of the content.
LEMMA IntegerIs ==
  ASSUME NEW f, NEW d, d.off \in Nat, d.len \in Nat
  PROVE  \E off \in Nat, len \in Nat : integer(f, d) = Range0(off, len) /\ off + len = After(d) /\ off >= d.off
<1> DEFINE zeros == {k \in 0..d.len - 1 : \A j \in 1..k : f[d.off + j] = 0}
           k == CHOOSE z \in zeros : \A y \in zeros : y <= z
<1>1. integer(f, d) = IF d.len = 0 THEN Range0(d.off, 0) ELSE Range0(d.off + k, d.len - k)
  BY Zenon DEF integer
<1>2. CASE d.len = 0
  <2>1. d.off + 0 = After(d)
    BY <1>2 DEF After
  <2> HIDE DEF zeros, k
  <2> QED BY <1>1, <1>2, <2>1
<1>3. CASE d.len # 0
  <2>1. d.len - 1 \in Nat /\ zeros \in SUBSET (0..d.len - 1)
    BY <1>3
  <2>2. 0 \in zeros
    BY <2>1
  <2>3. k \in zeros
    <3> HIDE DEF zeros
    <3>1. \E z \in zeros : \A y \in zeros : y <= z
      <4>1. zeros # {}
        BY <2>2
      <4> QED BY <2>1, <4>1, HasHighest
    <3> QED BY <3>1
  <2>4. k \in 0..d.len - 1
    <3> HIDE DEF k
    <3> QED BY <2>3
  <2> HIDE DEF zeros, k
  <2>5. d.off + k \in Nat /\ d.len - k \in Nat /\ (d.off + k) + (d.len - k) = d.off + d.len /\ d.off + k >= d.off
    BY <2>4
  <2> QED BY <1>1, <1>3, <2>5 DEF After
<1> QED BY <1>2, <1>3

\* What is found of a key, wherever it is.
KeyFound(f, at, end, key) ==
  /\ key.kind \in {"NONE", "RSA", "P256", "ED25519"}
  /\ key.kind = "NONE" => key = NoKey
  /\ key.kind # "NONE" =>
       /\ der_elem(f, at, end).tag = SEQ
       /\ key.spki = Range0(at, After(der_elem(f, at, end)) - at)
  /\ key.kind = "RSA" =>
       \E n \in Elem(at, end), e \in Elem(at, end) : key.n = integer(f, n) /\ key.e = integer(f, e)

LEMMA KeyOfIs ==
  ASSUME NEW f \in Seq(Byte), NEW at \in Nat, NEW end \in 0..Len(f), NEW spki, NEW oid, NEW bits \in Elem(at, end)
  PROVE  \/ KeyOf(f, end, spki, oid, bits) = NoKey
         \/ /\ KeyOf(f, end, spki, oid, bits).kind \in {"RSA", "P256", "ED25519"}
            /\ KeyOf(f, end, spki, oid, bits).spki = spki
            /\ KeyOf(f, end, spki, oid, bits).kind = "RSA" =>
                 \E n \in Elem(at, end), e \in Elem(at, end) :
                   /\ KeyOf(f, end, spki, oid, bits).n = integer(f, n)
                   /\ KeyOf(f, end, spki, oid, bits).e = integer(f, e)
<1> DEFINE curve == element(f, end, After(oid))
           rsa == element(f, end, bits.off + 1)
           n == element(f, end, rsa.off)
           e == element(f, end, After(n))
           key(kind) == [kind |-> kind, spki |-> spki, n |-> integer(f, n), e |-> integer(f, e), bits |-> bits]
           algorithm == Content(f, oid)
           P == /\ algorithm = OidEc /\ curve.tag = OID /\ Content(f, curve) = OidP256
                /\ bits.len = P256Len + 1 /\ f[bits.off + 2] = 4
           E25519 == algorithm = OidEd25519 /\ bits.len = Ed25519Len + 1
           R == algorithm = OidRsa /\ rsa.tag = SEQ /\ n.tag = INT /\ e.tag = INT
           k == KeyOf(f, end, spki, oid, bits)
           kp == key("P256")
           ke == key("ED25519")
           kr == key("RSA")
<1>1. k = CASE P -> kp [] E25519 -> ke [] R -> kr [] OTHER -> NoKey
  BY Zenon DEF KeyOf
<1>2. (P /\ k = kp) \/ (E25519 /\ k = ke) \/ (R /\ k = kr) \/ k = NoKey
  <2> HIDE DEF P, E25519, R, key, kp, ke, kr, k
  <2> QED BY <1>1
<1>3. R => n \in Elem(at, end) /\ e \in Elem(at, end)
  <2> SUFFICES ASSUME R PROVE n \in Elem(at, end) /\ e \in Elem(at, end)
    OBVIOUS
  <2>1. Len(f) \in Nat /\ end \in Nat
    OBVIOUS
  <2>2. bits.off \in Nat /\ bits.off >= at + 2
    BY <2>1, ElemFacts
  <2>3. bits.off + 1 \in Nat /\ at <= bits.off + 1
    BY <2>2
  <2>4. rsa = der_elem(f, bits.off + 1, end) /\ rsa.tag \in Byte
    BY <2>3, SameWalker, Tags
  <2>5. rsa \in Elem(bits.off + 1, end)
    BY <2>3, <2>4, Tagged
  <2> HIDE DEF rsa
  <2>6. rsa.off \in Nat /\ at <= rsa.off
    <3>1. rsa.off \in Nat /\ rsa.off >= (bits.off + 1) + 2
      BY <2>1, <2>3, <2>5, ElemFacts
    <3> QED BY <2>2, <3>1
  <2>7. n = der_elem(f, rsa.off, end) /\ n.tag \in Byte
    BY <2>6, SameWalker, Tags
  <2>8. n \in Elem(rsa.off, end)
    BY <2>6, <2>7, Tagged
  <2> HIDE DEF n
  <2>9. After(n) \in Nat /\ at <= After(n)
    <3>1. After(n) \in Nat /\ After(n) > rsa.off
      BY <2>1, <2>6, <2>8, ElemFacts
    <3> QED BY <2>6, <3>1
  <2>10. e = der_elem(f, After(n), end) /\ e.tag \in Byte
    BY <2>9, SameWalker, Tags
  <2>11. e \in Elem(After(n), end)
    BY <2>9, <2>10, Tagged
  <2> HIDE DEF e
  <2> QED BY <2>1, <2>6, <2>8, <2>9, <2>11, ElemSub
<1> HIDE DEF n, e, P, E25519, R, k
<1>4. CASE P /\ k = kp
  <2>1. k.kind = "P256" /\ k.spki = spki
    BY <1>4
  <2> QED BY <2>1 DEF k
<1>5. CASE E25519 /\ k = ke
  <2>1. k.kind = "ED25519" /\ k.spki = spki
    BY <1>5
  <2> QED BY <2>1 DEF k
<1>6. CASE R /\ k = kr
  <2>1. k.kind = "RSA" /\ k.spki = spki /\ k.n = integer(f, n) /\ k.e = integer(f, e)
    BY <1>6
  <2>2. n \in Elem(at, end) /\ e \in Elem(at, end)
    BY <1>3, <1>6
  <2> QED BY <2>1, <2>2 DEF k
<1>7. CASE k = NoKey
  BY <1>7 DEF k
<1> QED BY <1>2, <1>4, <1>5, <1>6, <1>7

LEMMA NoKeyFound == ASSUME NEW f, NEW at, NEW end PROVE KeyFound(f, at, end, NoKey)
BY DEF KeyFound, NoKey

LEMMA KeyAtIs ==
  ASSUME NEW f \in Seq(Byte), NEW at \in Nat, NEW end \in 0..Len(f)
  PROVE  KeyFound(f, at, end, KeyAt(f, at, end))
<1> DEFINE spki == element(f, end, at)
           alg == element(f, end, spki.off)
           oid == element(f, end, alg.off)
           bits == element(f, end, After(alg))
           R == Range0(at, After(spki) - at)
           K == KeyOf(f, end, R, oid, bits)
           P == /\ spki.tag = SEQ /\ alg.tag = SEQ /\ oid.tag = OID
                /\ bits.tag = BITS /\ bits.len >= 2 /\ f[bits.off + 1] = 0
<1>1. KeyAt(f, at, end) = IF P THEN K ELSE NoKey
  BY Zenon DEF KeyAt
<1>2. CASE ~P
  <2> HIDE DEF P, K
  <2>1. KeyAt(f, at, end) = NoKey
    BY <1>1, <1>2
  <2> QED BY <2>1, NoKeyFound
<1>3. CASE P
  <2>1. Len(f) \in Nat /\ end \in Nat
    OBVIOUS
  <2>2. spki = der_elem(f, at, end) /\ spki.tag = SEQ
    BY <1>3, SameWalker
  <2>3. spki \in Elem(at, end)
    BY <2>2, Tagged, Tags
  <2>4. alg.tag = SEQ /\ bits.tag = BITS
    BY <1>3
  <2>12. K = KeyOf(f, end, R, oid, bits)
    OBVIOUS
  <2>13. KeyAt(f, at, end) = K
    <3> HIDE DEF P, K
    <3> QED BY <1>1, <1>3
  <2> HIDE DEF spki, K, P
  <2>5. spki.off \in Nat /\ at <= spki.off
    <3>1. spki.off \in Nat /\ spki.off >= at + 2
      BY <2>1, <2>3, ElemFacts
    <3> QED BY <3>1
  <2>6. alg = der_elem(f, spki.off, end) /\ alg.tag \in Byte
    BY <2>4, <2>5, SameWalker, Tags
  <2>7. alg \in Elem(spki.off, end)
    BY <2>5, <2>6, Tagged
  <2> HIDE DEF alg
  <2>8. After(alg) \in Nat /\ at <= After(alg)
    <3>1. After(alg) \in Nat /\ After(alg) > spki.off
      BY <2>1, <2>5, <2>7, ElemFacts
    <3> QED BY <2>5, <3>1
  <2>9. bits = der_elem(f, After(alg), end) /\ bits.tag \in Byte
    BY <2>4, <2>8, SameWalker, Tags
  <2>10. bits \in Elem(After(alg), end)
    BY <2>8, <2>9, Tagged
  <2> HIDE DEF bits
  <2>11. bits \in Elem(at, end)
    BY <2>1, <2>8, <2>10, ElemSub
  <2> HIDE DEF oid
  <2>14. \/ K = NoKey
         \/ /\ K.kind \in {"RSA", "P256", "ED25519"} /\ K.spki = R
            /\ K.kind = "RSA" => \E n \in Elem(at, end), e \in Elem(at, end) : K.n = integer(f, n) /\ K.e = integer(f, e)
    <3> HIDE DEF R
    <3> QED BY <2>11, <2>12, KeyOfIs
  <2>15. CASE K = NoKey
    BY <2>13, <2>15, NoKeyFound
  <2>16. CASE /\ K.kind \in {"RSA", "P256", "ED25519"} /\ K.spki = R
              /\ K.kind = "RSA" => \E n \in Elem(at, end), e \in Elem(at, end) : K.n = integer(f, n) /\ K.e = integer(f, e)
    <3>1. K.kind # "NONE" /\ K.kind \in {"NONE", "RSA", "P256", "ED25519"}
      BY <2>16
    <3>2. K.spki = Range0(at, After(der_elem(f, at, end)) - at) /\ der_elem(f, at, end).tag = SEQ
      BY <2>2, <2>16
    <3> HIDE DEF R
    <3>3. KeyFound(f, at, end, K)
      BY <2>16, <3>1, <3>2 DEF KeyFound
    <3> QED BY <2>13, <3>3
  <2> QED BY <2>14, <2>15, <2>16
<1> QED BY <1>2, <1>3

\* The number of the serial number among the fields, one more with a version.
SerialOf(fields) == IF fields # <<>> /\ Head(fields).tag = VERSION THEN 2 ELSE 1

\* The key of a certificate is where der.c's walk has the sixth field.
LEMMA KeyIs ==
  ASSUME NEW f \in Seq(Byte), x509_key_of(f).kind # "NONE"
  PROVE  \E t : \E at \in Nat :
           /\ After(t) \in 0..Len(f) /\ at <= After(t)
           /\ x509_key_of(f) = KeyAt(f, at, After(t)) /\ KeyFound(f, at, After(t), x509_key_of(f))
           /\ \A c, u : Outer(f, c, u) => t = u /\ at > t.off /\ der_tbs_field(f, 5) = der_elem(f, at, After(t))
<1> DEFINE c == element(f, Len(f), 0)
           t == element(f, Len(f), c.off)
           fields == Elements(f, t.off, After(t))
           serial == SerialOf(fields)
           at == After(fields[serial + 4])
           P == /\ c.tag = SEQ /\ t.tag = SEQ /\ Len(fields) >= serial + 4 /\ fields[serial].tag = INT
                /\ \A i \in serial + 1..serial + 4 : fields[i].tag = SEQ
           K == KeyAt(f, at, After(t))
<1>1. x509_key_of(f) = IF P THEN K ELSE NoKey
  BY Zenon DEF x509_key_of, SerialOf, TbsEnd
<1>2. P /\ x509_key_of(f) = K
  <2> HIDE DEF P, K
  <2>1. NoKey.kind = "NONE"
    BY DEF NoKey
  <2> QED BY <1>1, <2>1
<1>3. Len(f) \in Nat /\ Len(f) \in 0..Len(f) /\ 0 \in Nat
  OBVIOUS
<1>4. c = der_elem(f, 0, Len(f)) /\ c \in Elem(0, Len(f))
  <2>1. c = der_elem(f, 0, Len(f))
    BY <1>3, SameWalker
  <2>2. c.tag = SEQ
    BY <1>2
  <2> QED BY <1>3, <2>1, <2>2, Tagged, Tags
<1>14. t.tag = SEQ /\ Len(fields) >= serial + 4
  BY <1>2
<1> HIDE DEF c
<1>5. c.off \in Nat /\ After(c) \in 0..Len(f)
  BY <1>3, <1>4, ElemFacts
<1>6. t = der_elem(f, c.off, Len(f)) /\ t \in Elem(c.off, Len(f))
  <2>1. t = der_elem(f, c.off, Len(f))
    BY <1>3, <1>5, SameWalker
  <2> QED BY <1>3, <1>5, <1>14, <2>1, Tagged, Tags
<1> HIDE DEF t, P
<1>7. t.off \in 0..Len(f) /\ After(t) \in 0..Len(f) /\ After(t) \in Nat /\ t.off \in Nat
  <2>1. t.off \in Nat /\ After(t) \in Nat /\ After(t) <= Len(f) /\ t.off <= After(t)
    BY <1>3, <1>5, <1>6, ElemFacts
  <2> QED BY <1>3, <2>1
<1>8. fields = Walk(f, t.off, After(t)) /\ fields \in Seq(Elem(t.off, After(t)))
  BY <1>7, ElementsAre, WalkFirst
<1> HIDE DEF fields
<1>9. serial \in 1..2
  BY DEF SerialOf
<1> HIDE DEF serial
<1>10. serial + 4 \in Nat /\ serial + 4 \in DOMAIN fields
  BY <1>8, <1>9, <1>14
<1>11. fields[serial + 4] \in Elem(t.off, After(t))
  BY <1>8, <1>10
<1>12. at \in Nat /\ at > t.off /\ at <= After(t)
  BY <1>7, <1>11, ElemFacts
<1>13. K = x509_key_of(f) /\ KeyFound(f, at, After(t), K)
  <2> HIDE DEF at
  <2> QED BY <1>2, <1>7, <1>12, KeyAtIs
<1>15. ASSUME NEW d, NEW u, Outer(f, d, u)
       PROVE  t = u /\ der_tbs_field(f, 5) = der_elem(f, at, After(t))
  <2>1. d = c /\ u = der_elem(f, c.off, After(c)) /\ u # Missing
    <3>1. d = c
      BY <1>4, <1>15 DEF Outer
    <3> QED BY <1>15, <3>1, OuterFacts DEF Outer
  <2>2. u = t
    <3>1. After(c) <= Len(f)
      BY <1>3, <1>5
    <3> QED BY <1>3, <1>5, <1>6, <2>1, <3>1, Wider
  <2>3. der_tbs(f) = t
    BY <1>15, <2>2, DerTbsIs
  <2>4. der_tbs_field(f, 5) = field_of(fields, 5)
    BY <1>8, <2>3, Zenon DEF der_tbs_field
  <2>5. field_of(fields, 5) = IF serial + 5 \in DOMAIN fields THEN fields[serial + 5] ELSE Missing
    <3>1. 5 + 2 = 2 + 5 /\ 5 + 1 = 1 + 5
      OBVIOUS
    <3> QED BY <3>1 DEF field_of, SerialOf, serial
  <2>6. (serial + 4) + 1 = serial + 5
    BY <1>9
  <2>7. /\ serial + 5 \in DOMAIN fields <=> der_elem(f, at, After(t)) # Missing
        /\ serial + 5 \in DOMAIN fields => fields[serial + 5] = der_elem(f, at, After(t))
    BY <1>7, <1>8, <1>10, <2>6, WalkNext
  <2> HIDE DEF at, Missing
  <2>8. field_of(fields, 5) = der_elem(f, at, After(t))
    BY <2>5, <2>7
  <2> QED BY <2>2, <2>4, <2>8
<1> HIDE DEF at, K
<1>16. KeyFound(f, at, After(t), x509_key_of(f)) /\ x509_key_of(f) = KeyAt(f, at, After(t))
  BY <1>13 DEF K
<1> QED BY <1>7, <1>12, <1>15, <1>16

\* Of any bytes, what is found is inside them, and the key where both walkers
\* find it (chain_parts in src/src/tls/chain.c, x509_key_of in
\* src/src/tls/x509.c, der_tbs_field in src/src/tls/der.c).
THEOREM FoundInside ==
  ASSUME NEW f \in Seq(Byte), NEW p, NEW k, NEW s, NEW t,
         p = chain_parts(f), k = x509_key_of(f), s = der_tbs_field(f, 5), t = der_tbs(f), p.ok
  PROVE  /\ p.sig.off >= p.tbs.off + p.tbs.len /\ p.sig.off + p.sig.len <= Len(f)
         /\ k.kind # "NONE" =>
              /\ s.tag = SEQ /\ After(k.spki) = After(s) /\ k.spki.off < s.off
              /\ k.spki.off + k.spki.len <= After(t) /\ k.spki.off >= t.off
              /\ k.kind = "RSA" => k.n.off + k.n.len <= After(t) /\ k.e.off + k.e.len <= After(t)
<1>1. PICK c, u, z : PartsAre(f, c, u, z)
  BY PartsFound
<1>2. Outer(f, c, u) /\ u = t
  BY <1>1, DerTbsIs DEF PartsAre
<1>3. /\ Len(f) \in Nat /\ c.off \in Nat /\ After(c) \in 0..Len(f) /\ After(c) \in Nat /\ t.off \in Nat
      /\ After(t) \in 0..Len(f) /\ After(t) \in Nat /\ After(t) >= c.off
  BY <1>2, OuterFacts
<1>4. z.off \in Nat /\ z.len \in Nat /\ z.off >= After(t) + 2 /\ After(z) <= After(c)
  <2>1. z \in Elem(After(t), After(c))
    BY <1>1, <1>2 DEF PartsAre
  <2> QED BY <1>3, <2>1, ElemFacts
<1>5. p.tbs.off = c.off /\ p.tbs.len = After(t) - c.off /\ p.sig.off = z.off + 1 /\ p.sig.len = z.len - 1
  <2>1. p.tbs = Range0(c.off, After(t) - c.off) /\ p.sig = Range0(z.off + 1, z.len - 1)
    BY <1>1, <1>2 DEF PartsAre
  <2> QED BY <2>1 DEF Range0
<1>6. p.sig.off >= p.tbs.off + p.tbs.len
  BY <1>3, <1>4, <1>5
<1>7. p.sig.off + p.sig.len <= Len(f)
  <2>1. z.off + z.len <= Len(f)
    BY <1>3, <1>4 DEF After
  <2> QED BY <1>4, <1>5, <2>1
<1>8. ASSUME k.kind # "NONE"
      PROVE  /\ s.tag = SEQ /\ After(k.spki) = After(s) /\ k.spki.off < s.off
             /\ k.spki.off + k.spki.len <= After(t) /\ k.spki.off >= t.off
             /\ k.kind = "RSA" => k.n.off + k.n.len <= After(t) /\ k.e.off + k.e.len <= After(t)
  <2>1. PICK at \in Nat : at > t.off /\ s = der_elem(f, at, After(t)) /\ KeyFound(f, at, After(t), k)
    BY <1>2, <1>8, KeyIs
  <2>2. s.tag = SEQ /\ k.spki = Range0(at, After(s) - at)
    BY <1>8, <2>1 DEF KeyFound
  <2>3. s \in Elem(at, After(t))
    BY <1>3, <2>1, <2>2, Tagged, Tags
  <2>4. s.off >= at + 2 /\ s.off \in Nat /\ After(s) \in Nat /\ After(s) <= After(t) /\ After(s) > at
    BY <1>3, <2>3, ElemFacts
  <2>5. k.spki.off = at /\ k.spki.len = After(s) - at
    BY <2>2 DEF Range0
  <2>6. After(k.spki) = k.spki.off + k.spki.len
    BY DEF After
  <2>7. at + (After(s) - at) = After(s)
    BY <2>4
  <2>8. ASSUME k.kind = "RSA" PROVE k.n.off + k.n.len <= After(t) /\ k.e.off + k.e.len <= After(t)
    <3>1. PICK n \in Elem(at, After(t)), e \in Elem(at, After(t)) : k.n = integer(f, n) /\ k.e = integer(f, e)
      BY <2>1, <2>8 DEF KeyFound
    <3>2. \A d \in Elem(at, After(t)) : integer(f, d).off + integer(f, d).len <= After(t)
      <4> SUFFICES ASSUME NEW d \in Elem(at, After(t)) PROVE integer(f, d).off + integer(f, d).len <= After(t)
        OBVIOUS
      <4>1. d.off \in Nat /\ d.len \in Nat /\ After(d) <= After(t)
        BY <1>3, ElemFacts
      <4>2. PICK off \in Nat, len \in Nat : integer(f, d) = Range0(off, len) /\ off + len = After(d)
        BY <4>1, IntegerIs
      <4>3. integer(f, d).off = off /\ integer(f, d).len = len
        BY <4>2 DEF Range0
      <4> QED BY <4>1, <4>2, <4>3
    <3> QED BY <3>1, <3>2
  <2>9. After(k.spki) = After(s) /\ k.spki.off + k.spki.len <= After(t)
    BY <2>4, <2>5, <2>6, <2>7
  <2>10. k.spki.off < s.off /\ k.spki.off >= t.off
    BY <1>3, <2>1, <2>4, <2>5
  <2> QED BY <2>2, <2>8, <2>9, <2>10
<1> QED BY <1>6, <1>7, <1>8

-----------------------------------------------------------------------------
(* What is written *)

\* Bytes, unless they are too many for a length to say.
Encoded(s) == s \in Seq(Nat) /\ (TwoBytes(Len(s)) => s \in Seq(Byte))

LEMMA Bytes16 ==
  ASSUME NEW m \in Nat, NEW n \in Nat, m <= n, TwoBytes(n)
  PROVE  TwoBytes(m)
<1>1. 256 * 256 \in Nat
  OBVIOUS
<1> DEFINE x == 256 * 256
<1>2. n < x
  BY DEF TwoBytes
<1>3. x \in Nat
  OBVIOUS
<1> HIDE DEF x
<1>4. m < x
  BY <1>2, <1>3
<1> QED BY <1>4 DEF x, TwoBytes

LEMMA EncodedBytes == ASSUME NEW s \in Seq(Byte) PROVE Encoded(s)
<1>1. Byte \subseteq Nat
  BY DEF Byte
<1>2. s \in Seq(Nat)
  BY <1>1, WalkSub
<1> QED BY <1>2 DEF Encoded

LEMMA EncodedJoined ==
  ASSUME NEW a, NEW b, Encoded(a), Encoded(b)
  PROVE  Encoded(a \o b) /\ Len(a \o b) = Len(a) + Len(b)
<1>1. a \in Seq(Nat) /\ b \in Seq(Nat)
  BY DEF Encoded
<1>2. a \o b \in Seq(Nat) /\ Len(a \o b) = Len(a) + Len(b)
  BY <1>1
<1>3. Len(a) \in Nat /\ Len(b) \in Nat /\ Len(a \o b) \in Nat /\ Len(a) <= Len(a \o b) /\ Len(b) <= Len(a \o b)
  <2>1. Len(a) \in Nat /\ Len(b) \in Nat
    BY <1>1
  <2> QED BY <1>2, <2>1
<1>4. ASSUME TwoBytes(Len(a \o b)) PROVE a \o b \in Seq(Byte)
  <2>1. TwoBytes(Len(a)) /\ TwoBytes(Len(b))
    BY <1>3, <1>4, Bytes16
  <2>2. a \in Seq(Byte) /\ b \in Seq(Byte)
    BY <2>1 DEF Encoded
  <2> QED BY <2>2, Joined
<1> QED BY <1>2, <1>4 DEF Encoded

\* A length is at most three numbers, whatever it is of.
LEMMA LengthNat ==
  ASSUME NEW form, NEW n \in Nat
  PROVE  Length(form, n) \in Seq(Nat)
<1> DEFINE P == form = 1 /\ n < 128
           R == form <= 2 /\ n < 256
           u == n \div 256
           w == n % 256
<1>1. u \in Nat /\ w \in Nat
  OBVIOUS
<1>2. Length(form, n) = IF P THEN <<n>> ELSE IF R THEN <<129, n>> ELSE <<130, u, w>>
  BY DEF Length
<1>3. 129 \in Nat /\ 130 \in Nat
  OBVIOUS
<1> HIDE DEF P, R, u, w
<1>4. <<n>> \in Seq(Nat) /\ <<129, n>> \in Seq(Nat) /\ <<130, u, w>> \in Seq(Nat)
  BY <1>1, <1>3
<1> QED BY <1>2, <1>4

LEMMA EncodedTlv ==
  ASSUME NEW form \in 1..3, NEW tag \in Byte, NEW content, Encoded(content)
  PROVE  Encoded(Tlv(form, tag, content)) /\ Len(content) <= Len(Tlv(form, tag, content)) /\ Len(Tlv(form, tag, content)) \in Nat
<1>1. content \in Seq(Nat) /\ Len(content) \in Nat
  BY DEF Encoded
<1>2. PICK l \in Seq(Nat) : l = Length(form, Len(content))
  BY <1>1, LengthNat
<1>3. <<tag>> \in Seq(Nat) /\ Len(<<tag>>) = 1
  <2>1. tag \in Nat
    BY DEF Byte
  <2> QED BY <2>1
<1> DEFINE h == <<tag>> \o l
           v == h \o content
<1>4. v = Tlv(form, tag, content)
  BY <1>2 DEF Tlv
<1>5. h \in Seq(Nat) /\ Len(h) = 1 + Len(l)
  BY <1>3
<1> HIDE DEF h
<1>6. v \in Seq(Nat) /\ Len(v) = Len(h) + Len(content) /\ Len(h) \in Nat /\ Len(v) \in Nat
  <2>1. v \in Seq(Nat) /\ Len(v) = Len(h) + Len(content)
    <3>1. content \in Seq(Nat)
      BY <1>1
    <3>2. h \in Seq(Nat)
      BY <1>5
    <3> QED BY ONLY <3>1, <3>2
  <2>2. Len(h) \in Nat /\ Len(content) \in Nat
    BY <1>1, <1>5
  <2> HIDE DEF v
  <2> QED BY <2>1, <2>2
<1> HIDE DEF v
<1>7. Len(content) <= Len(v)
  BY <1>1, <1>6
<1>8. ASSUME TwoBytes(Len(v)) PROVE v \in Seq(Byte)
  <2>1. TwoBytes(Len(content))
    BY <1>1, <1>6, <1>7, <1>8, Bytes16
  <2>2. content \in Seq(Byte)
    BY <2>1 DEF Encoded
  <2> QED BY <1>4, <2>1, <2>2, TlvIs
<1> QED BY <1>4, <1>6, <1>7, <1>8 DEF Encoded

\* Bytes stand in a file from one offset to another.
Spans(f, p, q, s) == Found(f, p, s) /\ p + Len(s) = q

LEMMA SpansJoined ==
  ASSUME NEW f \in Seq(Byte), NEW p \in Nat, NEW q \in 0..Len(f), NEW a, NEW b, Encoded(a), Encoded(b), Spans(f, p, q, a \o b)
  PROVE  \E m \in Nat : m >= p /\ m <= q /\ m \in 0..Len(f) /\ Spans(f, p, m, a) /\ Spans(f, m, q, b)
<1>1. a \in Seq(Nat) /\ b \in Seq(Nat)
  BY DEF Encoded
<1> DEFINE c == a \o b
           m == p + Len(a)
<1>2. /\ c \in Seq(Nat) /\ Len(c) = Len(a) + Len(b)
      /\ \A i \in 1..Len(a) : c[i] = a[i]
      /\ \A i \in 1..Len(b) : c[Len(a) + i] = b[i]
  BY <1>1
<1>3. p + Len(c) <= Len(f) /\ (\A i \in 1..Len(c) : f[p + i] = c[i]) /\ p + Len(c) = q
  BY DEF Found, Spans
<1>4. Len(a) \in Nat /\ Len(b) \in Nat /\ Len(f) \in Nat
  BY <1>1
<1> HIDE DEF c
<1>5. m \in Nat /\ m >= p /\ m <= q /\ m + Len(b) = q /\ m \in 0..Len(f)
  BY <1>2, <1>3, <1>4
<1>6. Spans(f, p, m, a)
  <2>1. \A i \in 1..Len(a) : f[p + i] = a[i]
    BY <1>2, <1>3, <1>4
  <2> QED BY <1>3, <1>4, <1>5, <2>1 DEF Found, Spans
<1>7. \A i \in 1..Len(b) : f[m + i] = b[i]
  <2> SUFFICES ASSUME NEW i \in 1..Len(b) PROVE f[m + i] = b[i]
    OBVIOUS
  <2>1. Len(a) + i \in 1..Len(c) /\ p + (Len(a) + i) = m + i
    BY <1>2, <1>4
  <2> QED BY <1>2, <1>3, <2>1
<1> HIDE DEF m
<1>8. Spans(f, m, q, b)
  BY <1>3, <1>4, <1>5, <1>7 DEF Found, Spans
<1> QED BY <1>5, <1>6, <1>8

\* What is read of an element that was written.
ReadAs(f, p, q, d, tag, content) ==
  /\ d \in Elem(p, q) /\ After(d) = q /\ \A e \in q..Len(f) : der_elem(f, p, e) = d /\ element(f, e, p) = d
  /\ d.tag = tag /\ d.len = Len(content) /\ content \in Seq(Byte) /\ Content(f, d) = content
  /\ Spans(f, d.off, q, content)

LEMMA ReadBack ==
  ASSUME NEW f \in Seq(Byte), TwoBytes(Len(f)), NEW p \in Nat, NEW q \in 0..Len(f), NEW form \in 1..3, NEW tag \in Byte,
         NEW content, Encoded(content), Spans(f, p, q, Tlv(form, tag, content))
  PROVE  \E d : ReadAs(f, p, q, d, tag, content)
<1>1. content \in Seq(Byte) /\ TwoBytes(Len(content))
  <2>1. Len(content) <= Len(Tlv(form, tag, content)) /\ Len(Tlv(form, tag, content)) \in Nat
    BY EncodedTlv
  <2>2. p + Len(Tlv(form, tag, content)) = q /\ Len(f) \in Nat
    BY DEF Spans
  <2>3. Len(content) \in Nat
    BY DEF Encoded
  <2>4. Len(content) <= Len(f)
    <3> DEFINE n == Len(Tlv(form, tag, content))
    <3>1. n \in Nat /\ Len(content) <= n /\ p + n = q
      BY <2>1, <2>2
    <3> HIDE DEF n
    <3> QED BY <2>2, <2>3, <3>1
  <2>5. TwoBytes(Len(content))
    BY <2>2, <2>3, <2>4, Bytes16
  <2> QED BY <2>5 DEF Encoded
<1>2. Fits(f, p, q, Tlv(form, tag, content)) /\ p + Len(Tlv(form, tag, content)) = q
  <2>1. q \in Nat
    OBVIOUS
  <2> QED BY <2>1 DEF Fits, Spans
<1> DEFINE d == der_elem(f, p, q)
<1>3. Reads(f, d, tag, content) /\ After(d) = q
  BY <1>1, <1>2, TlvRead
<1>4. d.tag = tag /\ d.len = Len(content) /\ d.off \in Nat /\ Found(f, d.off, content)
  BY <1>3 DEF Reads
<1>5. d \in Elem(p, q) /\ d # Missing
  BY <1>4, Tagged
<1>6. ASSUME NEW e \in q..Len(f) PROVE der_elem(f, p, e) = d /\ element(f, e, p) = d
  <2>1. e \in 0..Len(f) /\ q <= e
    OBVIOUS
  <2>2. der_elem(f, p, e) = d
    BY <1>5, <2>1, Wider
  <2> QED BY <2>1, <2>2, SameWalker
<1> HIDE DEF d
<1>7. Content(f, d) = content
  <2>1. Cut(f, d.off, Len(content)) = content
    BY <1>1, <1>4, FoundCut
  <2> QED BY <1>4, <2>1 DEF Content
<1>8. Spans(f, d.off, q, content)
  <2>1. d.off + Len(content) = q
    BY <1>3, <1>4 DEF After
  <2> QED BY <1>4, <2>1 DEF Spans
<1> QED BY <1>1, <1>3, <1>4, <1>5, <1>6, <1>7, <1>8 DEF ReadAs

\* The list of names.
LEMMA NameListIs ==
  ASSUME NEW names \in Seq(Seq(Byte))
  PROVE  /\ NameList(names)[0] = Short(DNS - 1, <<97>>)
         /\ \A k \in 1..Len(names) : NameList(names)[k] = NameList(names)[k - 1] \o Short(DNS, names[k])
<1> DEFINE n == Len(names)
           init == Short(DNS - 1, <<97>>)
           Body(g, k) == IF k = 0 THEN init ELSE g[k - 1] \o Short(DNS, names[k])
<1>1. n \in Nat
  OBVIOUS
<1>2. \E g : g = [k \in 0..n |-> Body(g, k)]
  <2> DEFINE Is(g, m) == g = [k \in 0..m |-> Body(g, k)]
             S == {m \in Nat : \E g : Is(g, m)}
  <2>1. 0 \in S
    <3> DEFINE g == [k \in 0..0 |-> init]
    <3>1. \A k \in 0..0 : init = Body(g, k)
      OBVIOUS
    <3>2. Is(g, 0)
      <4> HIDE DEF Body, init
      <4> QED BY <3>1
    <3> HIDE DEF Is, g
    <3> QED BY <3>2
  <2>2. ASSUME NEW m \in S PROVE m + 1 \in S
    <3>0. m \in Nat /\ m + 1 \in Nat
      OBVIOUS
    <3>1. PICK g : Is(g, m)
      BY <2>2
    <3> DEFINE h == [k \in 0..m + 1 |-> Body(g, k)]
    <3>2. \A k \in 0..m : h[k] = g[k]
      <4>1. g = [k \in 0..m |-> Body(g, k)] /\ h = [k \in 0..m + 1 |-> Body(g, k)]
        BY <3>1
      <4>2. \A k \in 0..m : k \in 0..m + 1
        BY <3>0
      <4> HIDE DEF Body, h
      <4> QED BY <4>1, <4>2
    <3>3. \A k \in 0..m + 1 : Body(h, k) = Body(g, k)
      <4> SUFFICES ASSUME NEW k \in 0..m + 1 PROVE Body(h, k) = Body(g, k)
        OBVIOUS
      <4>1. k = 0 \/ h[k - 1] = g[k - 1]
        <5> HIDE DEF h
        <5> QED BY <3>0, <3>2
      <4> HIDE DEF h
      <4> QED BY <4>1
    <3>4. Is(h, m + 1)
      <4>1. h = [k \in 0..m + 1 |-> Body(g, k)]
        OBVIOUS
      <4> HIDE DEF Body, h
      <4>2. [k \in 0..m + 1 |-> Body(g, k)] = [k \in 0..m + 1 |-> Body(h, k)]
        BY <3>3
      <4> QED BY <4>1, <4>2
    <3> HIDE DEF Is, h
    <3> QED BY <3>0, <3>4
  <2>3. \E g : Is(g, n)
    <3>0. S \in SUBSET Nat
      OBVIOUS
    <3> HIDE DEF Is
    <3>1. n \in S
      <4> HIDE DEF S, n
      <4> QED BY <1>1, <2>1, <2>2, <3>0, Counted
    <3> QED BY <3>1
  <2> QED BY <2>3
<1>3. NameList(names) = CHOOSE g : g = [k \in 0..n |-> Body(g, k)]
  BY Zenon DEF NameList
<1> HIDE DEF Body
<1>4. NameList(names) = [k \in 0..n |-> Body(NameList(names), k)]
  BY <1>2, <1>3
<1>5. \A k \in 0..n : NameList(names)[k] = Body(NameList(names), k)
  BY <1>4
<1>6. NameList(names)[0] = init
  BY <1>1, <1>5 DEF Body
<1>7. \A k \in 1..n : k \in 0..n /\ k # 0
  BY <1>1
<1> QED BY <1>5, <1>6, <1>7 DEF Body

LEMMA EncShort ==
  ASSUME NEW tag \in Byte, NEW content, Encoded(content)
  PROVE  Encoded(Short(tag, content))
<1>1. 1 \in 1..3
  OBVIOUS
<1> QED BY <1>1, EncodedTlv DEF Short

LEMMA EncEmpty == Encoded(<<>>) /\ <<>> \in Seq(Byte)
<1>1. <<>> \in Seq(Byte)
  OBVIOUS
<1> QED BY <1>1, EncodedBytes

LEMMA EncOne == ASSUME NEW a \in Byte PROVE Encoded(<<a>>) /\ <<a>> \in Seq(Byte)
<1>1. <<a>> \in Seq(Byte)
  OBVIOUS
<1> QED BY <1>1, EncodedBytes

LEMMA EncTwo == ASSUME NEW a \in Byte, NEW b \in Byte PROVE Encoded(<<a, b>>) /\ <<a, b>> \in Seq(Byte)
<1>1. <<a, b>> \in Seq(Byte)
  OBVIOUS
<1> QED BY <1>1, EncodedBytes

LEMMA EncThree == ASSUME NEW a \in Byte, NEW b \in Byte, NEW c \in Byte PROVE Encoded(<<a, b, c>>) /\ <<a, b, c>> \in Seq(Byte)
<1>1. <<a, b, c>> \in Seq(Byte)
  OBVIOUS
<1> QED BY <1>1, EncodedBytes

LEMMA Numbers == /\ 0 \in Byte /\ 1 \in Byte /\ 2 \in Byte /\ 3 \in Byte /\ 4 \in Byte /\ 5 \in Byte /\ 7 \in Byte /\ 9 \in Byte /\ 90 \in Byte
                 /\ 97 \in Byte /\ 200 \in Byte /\ 255 \in Byte
BY DEF Byte

LEMMA OidBytes ==
  /\ OidRsa \in Seq(Byte) /\ OidEc \in Seq(Byte) /\ OidP256 \in Seq(Byte) /\ OidEd25519 \in Seq(Byte)
  /\ OidRsaSha256 \in Seq(Byte) /\ OidEcdsaSha2 \in Seq(Byte) /\ OidSan \in Seq(Byte) /\ OidOther \in Seq(Byte)
<1>1. OidOther \in Seq(Byte)
  BY Numbers, EncTwo DEF OidOther
<1> QED BY <1>1, OidsAssumption

-----------------------------------------------------------------------------
(* Keys *)

\* How a key is written: its algorithm, and its bits.
SpkiAlg(key) ==
  IF key.kind = "RSA" THEN Short(OID, OidRsa) \o <<5, 0>>
  ELSE IF key.kind = "P256" THEN Short(OID, OidEc) \o Short(OID, OidP256)
  ELSE IF key.kind = "ED25519" THEN Short(OID, OidEd25519) \o <<>>
  ELSE Short(OID, OidRsa \o <<1>>) \o <<5, 0>>
RsaPair(key) == Short(INT, <<0>> \o Modulus(key)) \o Short(INT, Exponent)
SpkiBits(key) ==
  IF key.kind = "RSA" THEN Short(SEQ, RsaPair(key))
  ELSE IF key.kind = "P256" THEN KeyBits(key, P256Len)
  ELSE IF key.kind = "ED25519" THEN KeyBits(key, Ed25519Len)
  ELSE <<key.id>>

LEMMA KeyFacts ==
  ASSUME NEW key \in Keys
  PROVE  key.id \in Byte /\ key.kind \in {"RSA", "P256", "ED25519", "NONE"}
BY DEF Keys

LEMMA SpkiIs ==
  ASSUME NEW key \in Keys
  PROVE  Spki(key) = Short(SEQ, Short(SEQ, SpkiAlg(key)) \o Short(BITS, <<0>> \o SpkiBits(key)))
<1>1. key.kind \in {"RSA", "P256", "ED25519", "NONE"}
  BY KeyFacts
<1> DEFINE a(oid, rest) == Short(SEQ, Short(OID, oid) \o rest)
           r == a(OidRsa, <<5, 0>>) \o Bits(Short(SEQ, Short(INT, <<0>> \o Modulus(key)) \o Short(INT, Exponent)))
           p == a(OidEc, Short(OID, OidP256)) \o Bits(KeyBits(key, P256Len))
           e == a(OidEd25519, <<>>) \o Bits(KeyBits(key, Ed25519Len))
           o == a(OidRsa \o <<1>>, <<5, 0>>) \o Bits(<<key.id>>)
           v == CASE key.kind = "RSA" -> r [] key.kind = "P256" -> p [] key.kind = "ED25519" -> e [] key.kind = "NONE" -> o
           w == Short(SEQ, SpkiAlg(key)) \o Short(BITS, <<0>> \o SpkiBits(key))
<1>2. Spki(key) = Short(SEQ, v)
  BY Zenon DEF Spki
<1>3. CASE key.kind = "RSA"
  <2>1. v = r
    <3> HIDE DEF r, p, e, o
    <3> QED BY <1>3
  <2>2. w = r
    BY <1>3, Zenon DEF SpkiAlg, SpkiBits, RsaPair, Bits
  <2> QED BY <1>2, <2>1, <2>2, Zenon
<1>4. CASE key.kind = "P256"
  <2>1. v = p
    <3> HIDE DEF r, p, e, o
    <3> QED BY <1>4
  <2>2. w = p
    <3>1. key.kind # "RSA"
      BY <1>4
    <3> QED BY <1>4, <3>1, Zenon DEF SpkiAlg, SpkiBits, Bits
  <2> QED BY <1>2, <2>1, <2>2, Zenon
<1>5. CASE key.kind = "ED25519"
  <2>1. v = e
    <3> HIDE DEF r, p, e, o
    <3> QED BY <1>5
  <2>2. w = e
    <3>1. key.kind # "RSA" /\ key.kind # "P256"
      BY <1>5
    <3> QED BY <1>5, <3>1, Zenon DEF SpkiAlg, SpkiBits, Bits
  <2> QED BY <1>2, <2>1, <2>2, Zenon
<1>6. CASE key.kind = "NONE"
  <2>1. v = o
    <3> HIDE DEF r, p, e, o
    <3> QED BY <1>6
  <2>2. w = o
    <3>1. key.kind # "RSA" /\ key.kind # "P256" /\ key.kind # "ED25519"
      BY <1>6
    <3> QED BY <3>1, Zenon DEF SpkiAlg, SpkiBits, Bits
  <2> QED BY <1>2, <2>1, <2>2, Zenon
<1> QED BY <1>1, <1>3, <1>4, <1>5, <1>6

LEMMA KeyBitsAre ==
  ASSUME NEW key \in Keys, NEW n \in Nat
  PROVE  /\ KeyBits(key, n) \in Seq(Byte) /\ Len(KeyBits(key, n)) = n
         /\ key.kind = "P256" /\ n # 0 => KeyBits(key, n)[1] = 4
<1>1. key.id \in Byte /\ 4 \in Byte
  BY KeyFacts, Numbers
<1>2. \A k \in 1..n : (IF k = 1 /\ key.kind = "P256" THEN 4 ELSE key.id) \in Byte
  BY <1>1
<1>3. KeyBits(key, n) = [k \in 1..n |-> IF k = 1 /\ key.kind = "P256" THEN 4 ELSE key.id]
  BY DEF KeyBits
<1>4. KeyBits(key, n) \in [1..n -> Byte]
  BY <1>2, <1>3
<1>5. KeyBits(key, n) \in Seq(Byte)
  BY <1>4
<1>6. Len(KeyBits(key, n)) = n
  BY <1>3
<1>7. ASSUME key.kind = "P256", n # 0 PROVE KeyBits(key, n)[1] = 4
  <2>1. 1 \in 1..n
    BY <1>7
  <2> QED BY <1>3, <1>7, <2>1
<1> QED BY <1>5, <1>6, <1>7

LEMMA ModulusIs ==
  ASSUME NEW key \in Keys
  PROVE  /\ Modulus(key) \in Seq(Byte) /\ Len(Modulus(key)) = 2 /\ <<0>> \o Modulus(key) \in Seq(Byte)
         /\ Len(<<0>> \o Modulus(key)) = 3 /\ (<<0>> \o Modulus(key))[1] = 0 /\ (<<0>> \o Modulus(key))[2] = 200
         /\ Exponent \in Seq(Byte) /\ Len(Exponent) = 1 /\ Exponent[1] = 3
<1>1. key.id \in Byte
  BY KeyFacts
<1>2. Modulus(key) \in Seq(Byte) /\ Len(Modulus(key)) = 2 /\ Modulus(key)[1] = 200
  BY <1>1, Numbers, EncTwo DEF Modulus
<1>3. Exponent \in Seq(Byte) /\ Len(Exponent) = 1 /\ Exponent[1] = 3
  BY Numbers, EncOne DEF Exponent
<1>4. <<0>> \in Seq(Byte) /\ Len(<<0>>) = 1 /\ <<0>>[1] = 0
  BY Numbers, EncOne
<1>5. PICK m \in Seq(Byte) : m = Modulus(key)
  BY <1>2
<1>6. PICK z \in Seq(Byte) : z = <<0>>
  BY <1>4
<1>7. Len(m) = 2 /\ m[1] = 200 /\ Len(z) = 1 /\ z[1] = 0
  BY <1>2, <1>4, <1>5, <1>6
<1>8. z \o m \in Seq(Byte) /\ Len(z \o m) = 3 /\ (z \o m)[1] = 0 /\ (z \o m)[2] = 200
  <2>1. /\ z \o m \in Seq(Byte) /\ Len(z \o m) = Len(z) + Len(m)
        /\ \A i \in 1..Len(z) : (z \o m)[i] = z[i]
        /\ \A i \in 1..Len(m) : (z \o m)[Len(z) + i] = m[i]
    BY Joined
  <2>2. 1 \in 1..Len(z) /\ 1 \in 1..Len(m) /\ Len(z) + 1 = 2 /\ Len(z) + Len(m) = 3
    BY <1>7
  <2>3. (z \o m)[1] = 0
    BY <1>7, <2>1, <2>2
  <2>4. (z \o m)[2] = 200
    BY <1>7, <2>1, <2>2
  <2> QED BY <2>1, <2>2, <2>3, <2>4
<1> QED BY <1>2, <1>3, <1>5, <1>6, <1>8

LEMMA ConcatByte ==
  ASSUME NEW a \in Seq(Byte), NEW b \in Seq(Byte)
  PROVE  a \o b \in Seq(Byte) /\ Len(a \o b) = Len(a) + Len(b)
OBVIOUS

LEMMA EncSpki ==
  ASSUME NEW key \in Keys
  PROVE  /\ Encoded(SpkiAlg(key)) /\ Encoded(SpkiBits(key)) /\ Encoded(<<0>> \o SpkiBits(key)) /\ Encoded(RsaPair(key))
         /\ Encoded(Short(SEQ, SpkiAlg(key))) /\ Encoded(Short(BITS, <<0>> \o SpkiBits(key)))
         /\ Encoded(Short(SEQ, SpkiAlg(key)) \o Short(BITS, <<0>> \o SpkiBits(key)))
         /\ Encoded(Spki(key))
<1>1. key.id \in Byte /\ P256Len \in Nat /\ Ed25519Len \in Nat
  BY KeyFacts, OidsAssumption
<1>2. Encoded(<<5, 0>>) /\ Encoded(<<>>) /\ Encoded(<<0>>) /\ <<1>> \in Seq(Byte)
  BY Numbers, EncTwo, EncOne, EncEmpty
<1>3. Encoded(OidRsa) /\ Encoded(OidEc) /\ Encoded(OidP256) /\ Encoded(OidEd25519) /\ Encoded(OidRsa \o <<1>>)
  BY <1>2, OidBytes, EncodedBytes, ConcatByte
<1>4. /\ Encoded(Short(OID, OidRsa)) /\ Encoded(Short(OID, OidEc)) /\ Encoded(Short(OID, OidP256))
      /\ Encoded(Short(OID, OidEd25519)) /\ Encoded(Short(OID, OidRsa \o <<1>>))
  BY <1>3, EncShort, Tags
<1>5. Encoded(SpkiAlg(key))
  BY <1>2, <1>4, EncodedJoined DEF SpkiAlg
<1>6. Encoded(RsaPair(key))
  <2>1. Encoded(<<0>> \o Modulus(key)) /\ Encoded(Exponent)
    BY ModulusIs, EncodedBytes
  <2>2. Encoded(Short(INT, <<0>> \o Modulus(key))) /\ Encoded(Short(INT, Exponent))
    BY <2>1, EncShort, Tags
  <2> QED BY <2>2, EncodedJoined DEF RsaPair
<1>7. Encoded(SpkiBits(key))
  <2>1. Encoded(Short(SEQ, RsaPair(key)))
    BY <1>6, EncShort, Tags
  <2>2. Encoded(KeyBits(key, P256Len)) /\ Encoded(KeyBits(key, Ed25519Len)) /\ Encoded(<<key.id>>)
    BY <1>1, KeyBitsAre, EncodedBytes, EncOne
  <2> QED BY <2>1, <2>2 DEF SpkiBits
<1>8. Encoded(<<0>> \o SpkiBits(key))
  BY <1>2, <1>7, EncodedJoined
<1>9. Encoded(Short(SEQ, SpkiAlg(key))) /\ Encoded(Short(BITS, <<0>> \o SpkiBits(key)))
  BY <1>5, <1>8, EncShort, Tags
<1>10. Encoded(Short(SEQ, SpkiAlg(key)) \o Short(BITS, <<0>> \o SpkiBits(key)))
  BY <1>9, EncodedJoined
<1>11. Encoded(Spki(key))
  BY <1>10, EncShort, Tags, SpkiIs
<1> QED BY <1>5, <1>6, <1>7, <1>8, <1>9, <1>10, <1>11

\* A part that was written is the content of its range.
LEMMA SpansContent ==
  ASSUME NEW f \in Seq(Byte), NEW p \in Nat, NEW q, NEW s \in Seq(Byte), Spans(f, p, q, s)
  PROVE  /\ Content(f, Range0(p, Len(s))) = s /\ Range0(p, q - p) = Range0(p, Len(s))
         /\ \A i \in 1..Len(s) : f[p + i] = s[i]
<1>1. Found(f, p, s) /\ p + Len(s) = q /\ Len(s) \in Nat
  BY DEF Spans
<1>2. Cut(f, p, Len(s)) = s
  BY <1>1, FoundCut
<1>3. Content(f, Range0(p, Len(s))) = s
  BY <1>2 DEF Content, Range0
<1>4. q - p = Len(s)
  BY <1>1
<1> QED BY <1>1, <1>3, <1>4 DEF Found

LEMMA SpansByte ==
  ASSUME NEW f \in Seq(Byte), NEW p \in Nat, NEW q, NEW s \in Seq(Byte), Spans(f, p, q, s), NEW i \in Nat, i >= 1, i <= Len(s)
  PROVE  f[p + i] = s[i]
<1>1. i \in 1..Len(s)
  OBVIOUS
<1> QED BY <1>1, SpansContent

LEMMA SpansFirst ==
  ASSUME NEW f \in Seq(Byte), NEW p \in Nat, NEW q, NEW s \in Seq(Byte), Spans(f, p, q, s)
  PROVE  /\ Len(s) >= 1 => f[p + 1] = s[1]
         /\ Len(s) >= 2 => f[p + 2] = s[2]
<1>1. ASSUME Len(s) >= 1 PROVE f[p + 1] = s[1]
  BY <1>1, SpansByte
<1>2. ASSUME Len(s) >= 2 PROVE f[p + 2] = s[2]
  BY <1>2, SpansByte
<1> QED BY <1>1, <1>2

LEMMA IntegerRead ==
  ASSUME NEW f, NEW d, d.off \in Nat, d.len \in Nat
  PROVE  /\ d.len >= 1 /\ f[d.off + 1] # 0 => integer(f, d) = Range0(d.off, d.len)
         /\ d.len >= 2 /\ f[d.off + 1] = 0 /\ f[d.off + 2] # 0 => integer(f, d) = Range0(d.off + 1, d.len - 1)
<1> DEFINE zeros == {k \in 0..d.len - 1 : \A j \in 1..k : f[d.off + j] = 0}
           k == CHOOSE z \in zeros : \A y \in zeros : y <= z
<1>1. integer(f, d) = IF d.len = 0 THEN Range0(d.off, 0) ELSE Range0(d.off + k, d.len - k)
  BY Zenon DEF integer
<1>2. ASSUME NEW z \in zeros, \A y \in zeros : y <= z PROVE k = z
  <2>1. k \in zeros /\ \A y \in zeros : y <= k
    <3> HIDE DEF zeros
    <3> QED BY <1>2
  <2>2. k <= z /\ z <= k
    <3> HIDE DEF zeros, k
    <3> QED BY <1>2, <2>1
  <2>3. k \in Nat /\ z \in Nat
    <3>1. zeros \subseteq Nat
      OBVIOUS
    <3> HIDE DEF zeros, k
    <3> QED BY <1>2, <2>1, <3>1
  <2> HIDE DEF k
  <2> QED BY <2>2, <2>3
<1>3. ASSUME d.len >= 1, f[d.off + 1] # 0 PROVE integer(f, d) = Range0(d.off, d.len)
  <2>1. 0 \in zeros
    BY <1>3
  <2>2. \A y \in zeros : y <= 0
    <3> SUFFICES ASSUME NEW y \in zeros, y > 0 PROVE FALSE
      OBVIOUS
    <3>1. 1 \in 1..y
      OBVIOUS
    <3> QED BY <1>3, <3>1
  <2>3. k = 0
    <3> HIDE DEF zeros, k
    <3> QED BY <1>2, <2>1, <2>2
  <2>4. d.len # 0 /\ d.off + 0 = d.off /\ d.len - 0 = d.len
    BY <1>3
  <2> HIDE DEF zeros, k
  <2> QED BY <1>1, <2>3, <2>4
<1>4. ASSUME d.len >= 2, f[d.off + 1] = 0, f[d.off + 2] # 0 PROVE integer(f, d) = Range0(d.off + 1, d.len - 1)
  <2>1. 1 \in zeros
    <3>1. 1 \in 0..d.len - 1
      BY <1>4
    <3>2. \A j \in 1..1 : j = 1
      OBVIOUS
    <3> QED BY <1>4, <3>1, <3>2
  <2>2. \A y \in zeros : y <= 1
    <3> SUFFICES ASSUME NEW y \in zeros, y > 1 PROVE FALSE
      OBVIOUS
    <3>1. 2 \in 1..y
      OBVIOUS
    <3> QED BY <1>4, <3>1
  <2>3. k = 1
    <3> HIDE DEF zeros, k
    <3> QED BY <1>2, <2>1, <2>2
  <2>4. d.len # 0
    BY <1>4
  <2> HIDE DEF zeros, k
  <2> QED BY <1>1, <2>3, <2>4
<1> QED BY <1>3, <1>4

\* What a key is to be read as.
KeyRead(f, at, q, key, k) ==
  /\ k.kind = key.kind
  /\ k.kind # "NONE" => k.spki = Range0(at, q - at) /\ Content(f, k.spki) = Spki(key)
  /\ k.kind = "RSA" => Content(f, k.n) = Modulus(key) /\ Content(f, k.e) = Exponent
  /\ k.kind = "NONE" => k = NoKey

\* The head of a key: its algorithm's identifier and its bits.
HeadOf(key) ==
  IF key.kind = "RSA" THEN OidRsa ELSE IF key.kind = "P256" THEN OidEc
  ELSE IF key.kind = "ED25519" THEN OidEd25519 ELSE OidRsa \o <<1>>
RestOf(key) == IF key.kind = "P256" THEN Short(OID, OidP256) ELSE IF key.kind = "ED25519" THEN <<>> ELSE <<5, 0>>

LEMMA HeadOfIs ==
  ASSUME NEW key \in Keys
  PROVE  SpkiAlg(key) = Short(OID, HeadOf(key)) \o RestOf(key) /\ HeadOf(key) \in Seq(Byte) /\ Encoded(RestOf(key))
         /\ Encoded(Short(OID, HeadOf(key)))
<1>1. SpkiAlg(key) = Short(OID, HeadOf(key)) \o RestOf(key)
  BY KeyFacts DEF SpkiAlg, HeadOf, RestOf
<1>2. OidRsa \o <<1>> \in Seq(Byte)
  BY Numbers, EncOne, OidBytes, ConcatByte
<1>3. HeadOf(key) \in Seq(Byte)
  BY <1>2, OidBytes DEF HeadOf
<1>4. Encoded(Short(OID, OidP256))
  BY OidBytes, EncodedBytes, EncShort, Tags
<1>5. Encoded(RestOf(key))
  BY <1>4, EncEmpty, EncTwo, Numbers DEF RestOf
<1>6. Encoded(Short(OID, HeadOf(key)))
  BY <1>3, EncodedBytes, EncShort, Tags
<1> QED BY <1>1, <1>3, <1>5, <1>6

LEMMA HeadsDiffer ==
  /\ OidRsa # OidEc /\ OidEc # OidEd25519 /\ OidEd25519 # OidRsa
  /\ OidRsa \o <<1>> # OidEc /\ OidRsa \o <<1>> # OidEd25519 /\ OidRsa \o <<1>> # OidRsa
<1>1. /\ OidRsa # OidEc /\ OidEc # OidEd25519 /\ OidEd25519 # OidRsa
      /\ OidRsa \o <<1>> # OidEc /\ OidRsa \o <<1>> # OidEd25519
  BY OidsAssumption
<1>2. OidRsa \o <<1>> # OidRsa
  <2>1. PICK o \in Seq(Byte) : o = OidRsa
    BY OidBytes
  <2>2. <<1>> \in Seq(Byte) /\ Len(<<1>>) = 1
    BY Numbers, EncOne
  <2>3. Len(o \o <<1>>) = Len(o) + 1 /\ Len(o) \in Nat
    BY <2>2, ConcatByte
  <2> QED BY <2>1, <2>3
<1> QED BY <1>1, <1>2

LEMMA ConcatNat ==
  ASSUME NEW a \in Seq(Nat), NEW b \in Seq(Nat)
  PROVE  a \o b \in Seq(Nat) /\ Len(a \o b) = Len(a) + Len(b) /\ Len(a) \in Nat /\ Len(b) \in Nat
OBVIOUS

LEMMA SpkiBitsLen ==
  ASSUME NEW key \in Keys
  PROVE  Len(SpkiBits(key)) >= 1
<1>1. P256Len \in Nat /\ P256Len # 0 /\ Ed25519Len \in Nat /\ Ed25519Len # 0
  BY OidsAssumption
<1>2. CASE key.kind = "RSA"
  <2>1. Encoded(RsaPair(key))
    BY EncSpki
  <2>2. Short(SEQ, RsaPair(key)) = <<SEQ>> \o Length(1, Len(RsaPair(key))) \o RsaPair(key)
    BY DEF Short, Tlv
  <2>3. RsaPair(key) \in Seq(Nat) /\ Len(RsaPair(key)) \in Nat
    BY <2>1 DEF Encoded
  <2>4. PICK l \in Seq(Nat) : l = Length(1, Len(RsaPair(key)))
    BY <2>3, LengthNat
  <2>5. <<SEQ>> \in Seq(Nat) /\ Len(<<SEQ>>) = 1
    BY DEF SEQ
  <2>6. <<SEQ>> \o l \in Seq(Nat) /\ Len(<<SEQ>> \o l) >= 1
    <3> DEFINE s == <<SEQ>>
    <3>1. s \in Seq(Nat) /\ Len(s) = 1
      BY <2>5
    <3> HIDE DEF s
    <3>2. s \o l \in Seq(Nat) /\ Len(s \o l) = 1 + Len(l) /\ Len(l) \in Nat
      BY <3>1, ConcatNat
    <3> QED BY <3>2 DEF s
  <2>7. PICK h \in Seq(Nat) : h = <<SEQ>> \o l
    BY <2>6
  <2>8. PICK r \in Seq(Nat) : r = RsaPair(key)
    BY <2>3
  <2>9. Len(h \o r) >= 1
    BY <2>6, <2>7
  <2>10. SpkiBits(key) = h \o r
    BY <1>2, <2>2, <2>4, <2>7, <2>8 DEF SpkiBits
  <2> QED BY <2>9, <2>10
<1>3. CASE key.kind = "P256"
  BY <1>1, <1>3, KeyBitsAre DEF SpkiBits
<1>5. CASE key.kind = "ED25519"
  BY <1>1, <1>5, KeyBitsAre DEF SpkiBits
<1>4. CASE key.kind = "NONE"
  BY <1>4 DEF SpkiBits
<1> QED BY <1>2, <1>3, <1>4, <1>5, KeyFacts

LEMMA KeyOfRead ==
  ASSUME NEW f \in Seq(Byte), TwoBytes(Len(f)), NEW q \in 0..Len(f), NEW end \in q..Len(f), NEW key \in Keys,
         NEW spki, NEW oid, NEW bits, NEW m2 \in 0..Len(f), NEW m1 \in 0..end,
         Content(f, oid) = HeadOf(key), After(oid) = m2, Spans(f, m2, m1, RestOf(key)),
         bits.off \in Nat, bits.len = 1 + Len(SpkiBits(key)), Spans(f, bits.off + 1, q, SpkiBits(key))
  PROVE  LET k == KeyOf(f, end, spki, oid, bits)
         IN  /\ k.kind = key.kind /\ (k.kind # "NONE" => k.spki = spki) /\ (k.kind = "NONE" => k = NoKey)
             /\ k.kind = "RSA" => Content(f, k.n) = Modulus(key) /\ Content(f, k.e) = Exponent
<1> DEFINE curve == element(f, end, After(oid))
           rsa == element(f, end, bits.off + 1)
           n == element(f, end, rsa.off)
           e == element(f, end, After(n))
           kk(kind) == [kind |-> kind, spki |-> spki, n |-> integer(f, n), e |-> integer(f, e), bits |-> bits]
           algorithm == Content(f, oid)
           P == /\ algorithm = OidEc /\ curve.tag = OID /\ Content(f, curve) = OidP256
                /\ bits.len = P256Len + 1 /\ f[bits.off + 2] = 4
           E25519 == algorithm = OidEd25519 /\ bits.len = Ed25519Len + 1
           R == algorithm = OidRsa /\ rsa.tag = SEQ /\ n.tag = INT /\ e.tag = INT
           k == KeyOf(f, end, spki, oid, bits)
           kp == kk("P256")
           ke == kk("ED25519")
           kr == kk("RSA")
<1>1. k = CASE P -> kp [] E25519 -> ke [] R -> kr [] OTHER -> NoKey
  BY Zenon DEF KeyOf
<1>2. /\ kp.kind = "P256" /\ kp.spki = spki /\ ke.kind = "ED25519" /\ ke.spki = spki
      /\ kr.kind = "RSA" /\ kr.spki = spki /\ kr.n = integer(f, n) /\ kr.e = integer(f, e)
  <2> HIDE DEF n, e
  <2> QED OBVIOUS
<1>3. Len(f) \in Nat /\ end \in Nat /\ q \in Nat /\ end \in 0..Len(f)
  OBVIOUS
<1>4. key.kind \in {"RSA", "P256", "ED25519", "NONE"}
  BY KeyFacts
<1>5. CASE key.kind = "RSA"
  <2>1. algorithm = OidRsa /\ SpkiBits(key) = Short(SEQ, RsaPair(key))
    BY <1>5 DEF HeadOf, SpkiBits
  <2>2. Encoded(RsaPair(key)) /\ SpkiBits(key) = Tlv(1, SEQ, RsaPair(key)) /\ 1 \in 1..3 /\ bits.off + 1 \in Nat
    BY <2>1, EncSpki DEF Short
  <2>3. PICK d : ReadAs(f, bits.off + 1, q, d, SEQ, RsaPair(key))
    BY <2>2, ReadBack, Tags
  <2>4. rsa = d /\ d.tag = SEQ /\ d \in Elem(bits.off + 1, q) /\ Spans(f, d.off, q, RsaPair(key))
    BY <2>3 DEF ReadAs
  <2>5. d.off \in Nat
    BY <1>3, <2>2, <2>4, ElemFacts
  <2>6. /\ Encoded(<<0>> \o Modulus(key)) /\ Encoded(Exponent)
        /\ Encoded(Short(INT, <<0>> \o Modulus(key))) /\ Encoded(Short(INT, Exponent))
    BY ModulusIs, EncodedBytes, EncShort, Tags
  <2>7. PICK m3 \in Nat : /\ m3 <= q /\ m3 \in 0..Len(f) /\ Spans(f, d.off, m3, Short(INT, <<0>> \o Modulus(key)))
                          /\ Spans(f, m3, q, Short(INT, Exponent))
    BY <2>4, <2>5, <2>6, SpansJoined DEF RsaPair
  <2>8. PICK dn : ReadAs(f, d.off, m3, dn, INT, <<0>> \o Modulus(key))
    BY <2>2, <2>5, <2>6, <2>7, ReadBack, Tags DEF Short
  <2>9. PICK de : ReadAs(f, m3, q, de, INT, Exponent)
    BY <2>2, <2>6, <2>7, ReadBack, Tags DEF Short
  <2>10. end \in m3..Len(f)
    BY <1>3, <2>7
  <2>11. n = dn /\ dn.tag = INT /\ After(dn) = m3 /\ dn \in Elem(d.off, m3)
    BY <2>4, <2>8, <2>10 DEF ReadAs
  <2>12. e = de /\ de.tag = INT /\ de \in Elem(m3, q)
    BY <2>9, <2>11 DEF ReadAs
  <2>13. R /\ ~P /\ ~E25519
    BY <2>1, <2>4, <2>11, <2>12, HeadsDiffer
  <2>14. k = kr
    <3> HIDE DEF P, E25519, R, kp, ke, kr, k
    <3> QED BY <1>1, <2>13
  <2>15. Content(f, integer(f, dn)) = Modulus(key)
    <3>1. dn.len = 3 /\ Spans(f, dn.off, m3, <<0>> \o Modulus(key)) /\ dn.off \in Nat
      BY <1>3, <2>5, <2>7, <2>8, ModulusIs, ElemFacts DEF ReadAs
    <3>2. <<0>> \o Modulus(key) \in Seq(Byte) /\ (<<0>> \o Modulus(key))[1] = 0 /\ (<<0>> \o Modulus(key))[2] = 200 /\ Len(<<0>> \o Modulus(key)) = 3
      BY ModulusIs
    <3>3. f[dn.off + 1] = 0 /\ f[dn.off + 2] = 200
      <4> DEFINE s == <<0>> \o Modulus(key)
      <4>1. s \in Seq(Byte) /\ s[1] = 0 /\ s[2] = 200 /\ Len(s) = 3 /\ Spans(f, dn.off, m3, s) /\ dn.off \in Nat
        BY <3>1, <3>2
      <4> HIDE DEF s
      <4> DEFINE o == dn.off
      <4>4. o \in Nat /\ s \in Seq(Byte) /\ Spans(f, o, m3, s)
        BY <4>1
      <4> HIDE DEF o
      <4>5. (Len(s) >= 1 => f[o + 1] = s[1]) /\ (Len(s) >= 2 => f[o + 2] = s[2])
        BY ONLY f \in Seq(Byte), <4>4, SpansFirst
      <4>2. (Len(s) >= 1 => f[dn.off + 1] = s[1]) /\ (Len(s) >= 2 => f[dn.off + 2] = s[2])
        BY ONLY <4>5 DEF o
      <4>3. Len(s) >= 1 /\ Len(s) >= 2
        BY <4>1
      <4> QED BY ONLY <4>1, <4>2, <4>3
    <3>4. integer(f, dn) = Range0(dn.off + 1, dn.len - 1)
      <4>1. dn.len \in Nat /\ dn.len >= 2 /\ f[dn.off + 2] # 0
        BY <3>1, <3>3
      <4> HIDE DEF n, e
      <4> QED BY ONLY <3>1, <3>3, <4>1, IntegerRead
    <3>5. PICK m4 \in Nat : Spans(f, dn.off, m4, <<0>>) /\ Spans(f, m4, m3, Modulus(key))
      <4>1. Encoded(<<0>>) /\ Encoded(Modulus(key))
        BY Numbers, EncOne, ModulusIs, EncodedBytes
      <4> QED BY <2>7, <3>1, <4>1, SpansJoined
    <3>6. m4 = dn.off + 1
      BY <3>5 DEF Spans
    <3>7. Content(f, Range0(m4, Len(Modulus(key)))) = Modulus(key) /\ Len(Modulus(key)) = 2
      BY <3>5, ModulusIs, SpansContent
    <3>8. dn.len - 1 = 2
      BY <3>1
    <3> QED BY <3>4, <3>6, <3>7, <3>8
  <2>16. Content(f, integer(f, de)) = Exponent
    <3>1. de.len = 1 /\ Spans(f, de.off, q, Exponent) /\ de.off \in Nat
      BY <1>3, <2>7, <2>9, ModulusIs, ElemFacts DEF ReadAs
    <3>2. f[de.off + 1] = 3
      <4>1. Exponent \in Seq(Byte) /\ Len(Exponent) = 1 /\ Exponent[1] = 3
        BY ModulusIs
      <4>2. Len(Exponent) >= 1 => f[de.off + 1] = Exponent[1]
        BY ONLY f \in Seq(Byte), <3>1, <4>1, SpansFirst
      <4>3. Len(Exponent) >= 1
        BY <4>1
      <4> QED BY ONLY <4>1, <4>2, <4>3
    <3>3. integer(f, de) = Range0(de.off, de.len)
      <4>1. de.len \in Nat /\ de.len >= 1 /\ f[de.off + 1] # 0
        BY ONLY <3>1, <3>2
      <4> QED BY ONLY <3>1, <4>1, IntegerRead
    <3>4. Exponent \in Seq(Byte) /\ Len(Exponent) = 1
      BY ModulusIs
    <3>5. Content(f, Range0(de.off, Len(Exponent))) = Exponent
      BY ONLY f \in Seq(Byte), <3>1, <3>4, SpansContent
    <3> QED BY ONLY <3>1, <3>3, <3>4, <3>5
  <2> HIDE DEF k, kr, n, e
  <2>17. /\ k.kind = "RSA" /\ k.spki = spki /\ k.n = integer(f, dn) /\ k.e = integer(f, de)
    BY <1>2, <2>11, <2>12, <2>14
  <2> QED BY <1>5, <2>15, <2>16, <2>17 DEF k
<1>6. CASE key.kind = "P256"
  <2>1. algorithm = OidEc /\ SpkiBits(key) = KeyBits(key, P256Len) /\ RestOf(key) = Tlv(1, OID, OidP256)
    BY <1>6 DEF HeadOf, SpkiBits, RestOf, Short
  <2>2. P256Len \in Nat /\ P256Len # 0
    BY OidsAssumption
  <2>3. SpkiBits(key) \in Seq(Byte) /\ Len(SpkiBits(key)) = P256Len /\ SpkiBits(key)[1] = 4
    BY <1>6, <2>1, <2>2, KeyBitsAre
  <2>4. bits.len = P256Len + 1
    BY <2>2, <2>3
  <2>5. f[bits.off + 2] = 4
    <3>1. bits.off + 1 \in Nat /\ (bits.off + 1) + 1 = bits.off + 2
      OBVIOUS
    <3>2. 1 <= Len(SpkiBits(key))
      BY <2>2, <2>3
    <3> DEFINE p == bits.off + 1
               s == SpkiBits(key)
    <3>3. p \in Nat /\ s \in Seq(Byte) /\ Spans(f, p, q, s) /\ p + 1 = bits.off + 2 /\ Len(s) >= 1 /\ s[1] = 4
      BY <2>3, <3>1, <3>2
    <3> HIDE DEF p, s
    <3>4. Len(s) >= 1 => f[p + 1] = s[1]
      BY ONLY f \in Seq(Byte), <3>3, SpansFirst
    <3> QED BY ONLY <3>3, <3>4
  <2>6. Encoded(OidP256) /\ 1 \in 1..3 /\ m2 \in Nat /\ m1 \in 0..Len(f)
    BY OidBytes, EncodedBytes, <1>3
  <2>7. PICK d : ReadAs(f, m2, m1, d, OID, OidP256)
    BY <2>1, <2>6, ReadBack, Tags
  <2>8. end \in m1..Len(f)
    BY <1>3, <2>6
  <2>9. curve = d /\ d.tag = OID /\ Content(f, d) = OidP256
    BY <2>7, <2>8 DEF ReadAs
  <2>10. P /\ ~E25519 /\ ~R
    BY <2>1, <2>4, <2>5, <2>9, HeadsDiffer
  <2>11. k = kp
    <3> HIDE DEF P, E25519, R, kp, ke, kr, k
    <3> QED BY <1>1, <2>10
  <2> HIDE DEF k, kp
  <2> QED BY <1>2, <1>6, <2>11 DEF k
<1>7. CASE key.kind = "ED25519"
  <2>1. algorithm = OidEd25519 /\ SpkiBits(key) = KeyBits(key, Ed25519Len)
    BY <1>7 DEF HeadOf, SpkiBits
  <2>2. Ed25519Len \in Nat
    BY OidsAssumption
  <2>3. bits.len = Ed25519Len + 1
    BY <2>1, <2>2, KeyBitsAre
  <2>4. E25519 /\ ~P /\ ~R
    BY <2>1, <2>3, HeadsDiffer
  <2>5. k = ke
    <3> HIDE DEF P, E25519, R, kp, ke, kr, k
    <3> QED BY <1>1, <2>4
  <2> HIDE DEF k, ke
  <2> QED BY <1>2, <1>7, <2>5 DEF k
<1>8. CASE key.kind = "NONE"
  <2>1. algorithm = OidRsa \o <<1>>
    BY <1>8 DEF HeadOf
  <2>2. ~P /\ ~E25519 /\ ~R
    BY <2>1, HeadsDiffer
  <2>3. k = NoKey
    <3> HIDE DEF P, E25519, R, kp, ke, kr, k
    <3> QED BY <1>1, <2>2
  <2>4. NoKey.kind = "NONE"
    BY DEF NoKey
  <2> HIDE DEF k
  <2> QED BY <1>8, <2>3, <2>4 DEF k
<1> QED BY <1>4, <1>5, <1>6, <1>7, <1>8

\* The last of what was written is split off and read.
LEMMA LastRead ==
  ASSUME NEW f \in Seq(Byte), TwoBytes(Len(f)), NEW p \in Nat, NEW q \in 0..Len(f), NEW a, Encoded(a), NEW form \in 1..3,
         NEW tag \in Byte, NEW content, Encoded(content), Spans(f, p, q, a \o Tlv(form, tag, content))
  PROVE  \E m \in 0..Len(f) : \E d : m >= p /\ m <= q /\ Spans(f, p, m, a) /\ ReadAs(f, m, q, d, tag, content)
<1>1. Encoded(Tlv(form, tag, content))
  BY EncodedTlv
<1>2. PICK m \in Nat : m >= p /\ m <= q /\ m \in 0..Len(f) /\ Spans(f, p, m, a) /\ Spans(f, m, q, Tlv(form, tag, content))
  BY <1>1, SpansJoined
<1>3. \E d : ReadAs(f, m, q, d, tag, content)
  BY <1>2, ReadBack
<1> QED BY <1>2, <1>3

LEMMA SpansBytes ==
  ASSUME NEW f \in Seq(Byte), TwoBytes(Len(f)), NEW p \in Nat, NEW q, NEW s, Encoded(s), Spans(f, p, q, s)
  PROVE  s \in Seq(Byte) /\ Content(f, Range0(p, Len(s))) = s /\ Range0(p, q - p) = Range0(p, Len(s))
<1>1. s \in Seq(Nat) /\ Len(s) \in Nat /\ Len(f) \in Nat
  BY DEF Encoded
<1>2. p + Len(s) <= Len(f)
  BY DEF Spans, Found
<1>3. Len(s) <= Len(f)
  BY <1>1, <1>2
<1>4. TwoBytes(Len(s))
  BY <1>1, <1>3, Bytes16
<1>5. s \in Seq(Byte)
  BY <1>4 DEF Encoded
<1> QED BY <1>5, SpansContent

\* A key that was written is the key that is read.
LEMMA KeyAtRead ==
  ASSUME NEW f \in Seq(Byte), TwoBytes(Len(f)), NEW at \in Nat, NEW q \in 0..Len(f), NEW end \in q..Len(f), NEW key \in Keys,
         Spans(f, at, q, Spki(key))
  PROVE  KeyRead(f, at, q, key, KeyAt(f, at, end))
<1> DEFINE A == SpkiAlg(key)
           B == <<0>> \o SpkiBits(key)
           both == Short(SEQ, A) \o Short(BITS, B)
<1>1. /\ Encoded(A) /\ Encoded(B) /\ Encoded(Short(SEQ, A)) /\ Encoded(both) /\ Encoded(Spki(key)) /\ Encoded(SpkiBits(key))
      /\ 1 \in 1..3 /\ SEQ \in Byte /\ BITS \in Byte /\ OID \in Byte
  BY EncSpki, Tags
<1>2. Spki(key) = Tlv(1, SEQ, both)
  BY SpkiIs DEF Short
<1> HIDE DEF both
<1>3. PICK s : ReadAs(f, at, q, s, SEQ, both)
  BY <1>1, <1>2, ReadBack
<1>4. Spans(f, s.off, q, both) /\ s \in Elem(at, q) /\ s.tag = SEQ /\ After(s) = q /\ element(f, end, at) = s
  BY <1>3 DEF ReadAs
<1>5. s.off \in Nat /\ q \in Nat
  BY <1>4, ElemFacts
<1>6. PICK m \in 0..Len(f) : \E b0 : m >= s.off /\ m <= q /\ Spans(f, s.off, m, Short(SEQ, A)) /\ ReadAs(f, m, q, b0, BITS, B)
  <2>1. both = Short(SEQ, A) \o Tlv(1, BITS, B)
    BY DEF both, Short
  <2>2. Spans(f, s.off, q, Short(SEQ, A) \o Tlv(1, BITS, B))
    BY <1>4, <2>1
  <2> HIDE DEF A, B
  <2> QED BY <1>1, <1>5, <2>2, LastRead
<1>6b. PICK b : ReadAs(f, m, q, b, BITS, B)
  BY <1>6
<1>7. PICK a : ReadAs(f, s.off, m, a, SEQ, A)
  BY <1>1, <1>5, <1>6, ReadBack DEF Short
<1>8. m \in Nat /\ m \in 0..Len(f) /\ end \in m..Len(f) /\ m \in 0..end /\ end \in Nat
  BY <1>5, <1>6
<1>9. /\ a.tag = SEQ /\ After(a) = m /\ element(f, end, s.off) = a /\ a.off \in Nat /\ Spans(f, a.off, m, A)
      /\ a \in Elem(s.off, m)
  BY <1>5, <1>7, <1>8, ElemFacts DEF ReadAs
<1>10. element(f, end, m) = b /\ b.tag = BITS /\ b.off \in Nat /\ b.len = Len(B) /\ Spans(f, b.off, q, B) /\ b \in Elem(m, q)
  BY <1>5, <1>6, <1>6b, <1>8, ElemFacts DEF ReadAs
<1>11. A = Short(OID, HeadOf(key)) \o RestOf(key) /\ HeadOf(key) \in Seq(Byte) /\ Encoded(RestOf(key))
       /\ Encoded(Short(OID, HeadOf(key))) /\ Encoded(HeadOf(key))
  BY HeadOfIs, EncodedBytes
<1> HIDE DEF A
<1>12. PICK m2 \in Nat : m2 >= a.off /\ m2 <= m /\ m2 \in 0..Len(f) /\ Spans(f, a.off, m2, Short(OID, HeadOf(key)))
                         /\ Spans(f, m2, m, RestOf(key))
  BY <1>8, <1>9, <1>11, SpansJoined
<1>13. PICK o : ReadAs(f, a.off, m2, o, OID, HeadOf(key))
  BY <1>1, <1>9, <1>11, <1>12, ReadBack DEF Short
<1>14. end \in m2..Len(f)
  BY <1>8, <1>12
<1>15. element(f, end, a.off) = o /\ o.tag = OID /\ After(o) = m2 /\ Content(f, o) = HeadOf(key)
  BY <1>13, <1>14 DEF ReadAs
<1>16. PICK n \in Nat : Spans(f, b.off, n, <<0>>) /\ Spans(f, n, q, SpkiBits(key))
  <2>1. Encoded(<<0>>)
    BY Numbers, EncOne
  <2> QED BY <1>1, <1>10, <2>1, SpansJoined DEF B
<1>17. n = b.off + 1 /\ f[b.off + 1] = 0
  <2>1. <<0>> \in Seq(Byte) /\ Len(<<0>>) = 1 /\ <<0>>[1] = 0
    BY Numbers, EncOne
  <2> DEFINE z == <<0>>
  <2>2. z \in Seq(Byte) /\ Len(z) = 1 /\ z[1] = 0 /\ Spans(f, b.off, n, z) /\ b.off \in Nat
    BY <1>10, <1>16, <2>1
  <2> HIDE DEF z
  <2>3. Len(z) >= 1 => f[b.off + 1] = z[1]
    BY <2>2, SpansFirst
  <2>4. n = b.off + Len(z)
    BY <2>2 DEF Spans
  <2> QED BY <2>2, <2>3, <2>4
<1>18. b.len = 1 + Len(SpkiBits(key)) /\ b.len >= 2
  <2>1. Len(B) = 1 + Len(SpkiBits(key))
    <3>1. <<0>> \in Seq(Nat) /\ Len(<<0>>) = 1 /\ SpkiBits(key) \in Seq(Nat)
      BY <1>1 DEF Encoded
    <3>2. Len(<<0>> \o SpkiBits(key)) = Len(<<0>>) + Len(SpkiBits(key))
      BY <3>1, ConcatNat
    <3> QED BY <3>1, <3>2 DEF B
  <2>2. Len(SpkiBits(key)) >= 1 /\ Len(SpkiBits(key)) \in Nat
    BY <1>1, SpkiBitsLen DEF Encoded
  <2> HIDE DEF B
  <2> QED BY <1>10, <2>1, <2>2
<1> DEFINE spki == Range0(at, q - at)
           k == KeyOf(f, end, spki, o, b)
<1>19. KeyAt(f, at, end) = k
  <2> DEFINE K(x, y, z, w) == IF x.tag = SEQ /\ y.tag = SEQ /\ z.tag = OID /\ w.tag = BITS /\ w.len >= 2 /\ f[w.off + 1] = 0
                              THEN KeyOf(f, end, Range0(at, After(x) - at), z, w) ELSE NoKey
  <2>1. KeyAt(f, at, end) = K(element(f, end, at), element(f, end, element(f, end, at).off),
                              element(f, end, element(f, end, element(f, end, at).off).off),
                              element(f, end, After(element(f, end, element(f, end, at).off))))
    BY Zenon DEF KeyAt
  <2>2. KeyAt(f, at, end) = K(s, a, o, b)
    <3>1. element(f, end, at) = s
      BY <1>4
    <3>2. element(f, end, s.off) = a
      BY <1>9
    <3>3. element(f, end, a.off) = o
      BY <1>15
    <3>4. element(f, end, After(a)) = b
      BY <1>9, <1>10
    <3> HIDE DEF K
    <3> QED BY ONLY <3>1, <3>2, <3>3, <3>4, <2>1
  <2>3. s.tag = SEQ /\ a.tag = SEQ /\ o.tag = OID /\ b.tag = BITS /\ b.len >= 2 /\ f[b.off + 1] = 0 /\ After(s) = q
    BY <1>4, <1>9, <1>10, <1>15, <1>17, <1>18
  <2> QED BY Zenon, <2>2, <2>3
<1>20. /\ k.kind = key.kind /\ (k.kind # "NONE" => k.spki = spki) /\ (k.kind = "NONE" => k = NoKey)
       /\ k.kind = "RSA" => Content(f, k.n) = Modulus(key) /\ Content(f, k.e) = Exponent
  <2>1. Spans(f, b.off + 1, q, SpkiBits(key))
    BY <1>16, <1>17
  <2> HIDE DEF spki
  <2>2. Content(f, o) = HeadOf(key) /\ After(o) = m2 /\ Spans(f, m2, m, RestOf(key)) /\ m2 \in 0..Len(f) /\ m \in 0..end
    BY <1>8, <1>12, <1>15
  <2>3. b.off \in Nat /\ b.len = 1 + Len(SpkiBits(key))
    BY <1>10, <1>18
  <2>4. f \in Seq(Byte) /\ TwoBytes(Len(f)) /\ at \in Nat /\ q \in 0..Len(f) /\ end \in q..Len(f) /\ key \in Keys
    OBVIOUS
  <2> QED BY ONLY <2>1, <2>2, <2>3, <2>4, KeyOfRead
<1>21. Content(f, spki) = Spki(key)
  <2>1. Content(f, Range0(at, Len(Spki(key)))) = Spki(key) /\ Range0(at, q - at) = Range0(at, Len(Spki(key)))
    BY <1>1, SpansBytes
  <2> QED BY <2>1
<1> HIDE DEF k, spki
<1>22. /\ k.kind = key.kind /\ (k.kind # "NONE" => k.spki = spki /\ Content(f, k.spki) = Spki(key))
       /\ (k.kind = "RSA" => Content(f, k.n) = Modulus(key) /\ Content(f, k.e) = Exponent) /\ (k.kind = "NONE" => k = NoKey)
  BY <1>20, <1>21
<1> QED BY <1>19, <1>22 DEF KeyRead, spki

-----------------------------------------------------------------------------
(* Certificates *)

LEMMA SeqAt == ASSUME NEW S, NEW d \in Seq(S), NEW i \in 1..Len(d) PROVE d[i] \in S
OBVIOUS

LEMMA OfSeq == ASSUME NEW S, NEW n \in Nat, NEW t \in [1..n -> S] PROVE t \in Seq(S) /\ Len(t) = n
OBVIOUS

LEMMA CertFacts ==
  ASSUME NEW c \in Certs
  PROVE  /\ c.key \in Keys /\ c.by \in Keys /\ c.alg \in {"RSA_SHA256", "ECDSA", "UNKNOWN"} /\ c.names \in Seq(Seq(Byte))
         /\ c.san \in {"first", "later", "critical", "none"} /\ c.from \in Dates /\ c.till \in Dates
         /\ c.version \in BOOLEAN /\ c.form \in 1..3
BY DEF Certs

\* The identifier of the algorithm a certificate was signed with.
AlgOid(c) ==
  IF c.alg = "RSA_SHA256" THEN OidRsaSha256 ELSE IF c.alg = "ECDSA" THEN OidEcdsaSha2 \o <<2>> ELSE OidRsaSha256 \o <<1>>

LEMMA AlgorithmIs ==
  ASSUME NEW c \in Certs
  PROVE  /\ Algorithm(c) = Short(SEQ, Short(OID, AlgOid(c)) \o <<5, 0>>)
         /\ AlgOid(c) \in Seq(Byte) /\ Encoded(Short(OID, AlgOid(c))) /\ Encoded(<<5, 0>>)
         /\ Encoded(Short(OID, AlgOid(c)) \o <<5, 0>>) /\ Encoded(Algorithm(c))
<1>1. c.alg \in {"RSA_SHA256", "ECDSA", "UNKNOWN"}
  BY CertFacts
<1> DEFINE r == OidRsaSha256
           e == OidEcdsaSha2 \o <<2>>
           u == OidRsaSha256 \o <<1>>
           v == CASE c.alg = "RSA_SHA256" -> r [] c.alg = "ECDSA" -> e [] c.alg = "UNKNOWN" -> u
<1>2. Algorithm(c) = Short(SEQ, Short(OID, v) \o <<5, 0>>)
  BY Zenon DEF Algorithm
<1>3. AlgOid(c) = IF c.alg = "RSA_SHA256" THEN r ELSE IF c.alg = "ECDSA" THEN e ELSE u
  BY DEF AlgOid
<1>4. r \in Seq(Byte) /\ e \in Seq(Byte) /\ u \in Seq(Byte)
  BY OidBytes, Numbers, EncOne, ConcatByte
<1>5. v = IF c.alg = "RSA_SHA256" THEN r ELSE IF c.alg = "ECDSA" THEN e ELSE u
  <2> HIDE DEF r, e, u
  <2> QED BY <1>1
<1> HIDE DEF v, r, e, u
<1>6. v = AlgOid(c) /\ AlgOid(c) \in Seq(Byte)
  BY <1>3, <1>4, <1>5
<1>7. Encoded(Short(OID, AlgOid(c))) /\ Encoded(<<5, 0>>)
  BY <1>6, EncodedBytes, EncShort, Tags, Numbers, EncTwo
<1>8. Encoded(Short(OID, AlgOid(c)) \o <<5, 0>>)
  BY <1>7, EncodedJoined
<1>9. Algorithm(c) = Short(SEQ, Short(OID, AlgOid(c)) \o <<5, 0>>)
  BY ONLY <1>2, <1>6
<1>10. Encoded(Algorithm(c))
  BY <1>8, <1>9, EncShort, Tags
<1> QED BY <1>6, <1>7, <1>8, <1>9, <1>10

LEMMA NameOfIs ==
  ASSUME NEW key \in Keys
  PROVE  Encoded(NameOf(key)) /\ NameOf(key) = Tlv(1, SEQ, <<key.id, 7>>) /\ Encoded(<<key.id, 7>>)
<1>1. Encoded(<<key.id, 7>>)
  BY KeyFacts, Numbers, EncTwo
<1>2. NameOf(key) = Short(SEQ, <<key.id, 7>>)
  BY Zenon DEF NameOf
<1>3. Encoded(NameOf(key))
  BY <1>1, <1>2, EncShort, Tags
<1> QED BY Zenon, <1>1, <1>2, <1>3 DEF Short

LEMMA DateFacts ==
  ASSUME NEW d \in Dates
  PROVE  /\ Len(d) = 6 /\ d[1] >= 2000 /\ d[1] <= 2099 /\ d[1] \in Nat
         /\ \A i \in 1..6 : d[i] \in Nat
         /\ \A i \in 2..6 : d[i] <= 99
<1>1. d \in Seq(0..2099) /\ Len(d) = 6 /\ d[1] >= 2000 /\ \A i \in 2..6 : d[i] <= 99
  BY DEF Dates
<1> DEFINE Y == 0..2099
<1>2. \A i \in 1..6 : d[i] \in Y
  <2> HIDE DEF Y
  <2>1. d \in Seq(Y)
    BY <1>1 DEF Y
  <2>2. Len(d) = 6
    BY <1>1
  <2> QED BY ONLY <2>1, <2>2, SeqAt
<1>3. \A y \in Y : y \in Nat /\ y <= 2099
  OBVIOUS
<1> HIDE DEF Y
<1>4. 1 \in 1..6
  OBVIOUS
<1>5. d[1] \in Nat /\ d[1] <= 2099 /\ \A i \in 1..6 : d[i] \in Nat
  BY ONLY <1>2, <1>3, <1>4
<1> QED BY <1>1, <1>5

LEMMA PairIs ==
  ASSUME NEW v \in Nat, v <= 99
  PROVE  /\ Pair(v) \in Seq(Byte) /\ Len(Pair(v)) = 2 /\ Pair(v)[1] = 48 + (v \div 10) /\ Pair(v)[2] = 48 + (v % 10)
         /\ v \div 10 \in 0..9 /\ v % 10 \in 0..9 /\ v = 10 * (v \div 10) + (v % 10)
<1> DEFINE u == v \div 10
           w == v % 10
<1>1. u \in 0..9 /\ w \in 0..9 /\ v = 10 * u + w
  OBVIOUS
<1>2. Pair(v) = <<48 + u, 48 + w>>
  BY DEF Pair
<1> HIDE DEF u, w
<1>3. 48 + u \in Byte /\ 48 + w \in Byte
  BY <1>1 DEF Byte
<1>4. Pair(v) \in Seq(Byte) /\ Len(Pair(v)) = 2 /\ Pair(v)[1] = 48 + u /\ Pair(v)[2] = 48 + w
  BY <1>2, <1>3
<1> QED BY <1>1, <1>4 DEF u, w

\* The two digits of a date's part.
Part(d, i) == d[i] % 100

LEMMA PartIs ==
  ASSUME NEW d \in Dates, NEW i \in 1..6
  PROVE  /\ Part(d, i) \in Nat /\ Part(d, i) <= 99
         /\ i >= 2 => Part(d, i) = d[i]
         /\ i = 1 => d[1] = 2000 + Part(d, 1)
<1>1. d[i] \in Nat
  BY DateFacts
<1> DEFINE v == d[i]
           u == v % 100
<1>2. v \in Nat
  BY <1>1
<1>3. u \in Nat /\ u <= 99 /\ (v <= 99 => u = v) /\ (v >= 2000 /\ v <= 2099 => v = 2000 + u)
  <2> HIDE DEF v
  <2> QED BY <1>2
<1>4. (i >= 2 => v <= 99) /\ (i = 1 => v >= 2000 /\ v <= 2099)
  <2>1. i >= 2 => i \in 2..6
    OBVIOUS
  <2>2. d[1] >= 2000 /\ d[1] <= 2099 /\ \A k \in 2..6 : d[k] <= 99
    BY DateFacts
  <2> QED BY <2>1, <2>2
<1>5. Part(d, i) = u /\ d[i] = v /\ (i = 1 => Part(d, 1) = u /\ d[1] = v)
  BY DEF Part
<1> HIDE DEF u, v
<1> QED BY <1>3, <1>4, <1>5

LEMMA TwelveIs ==
  ASSUME NEW d \in Dates
  PROVE  /\ Twelve(d) \in Seq(Byte) /\ Len(Twelve(d)) = 12
         /\ \A i \in 1..6 : Twelve(d)[2 * i - 1] = Pair(Part(d, i))[1] /\ Twelve(d)[2 * i] = Pair(Part(d, i))[2]
<1> DEFINE t(k) == Pair(d[(k + 1) \div 2] % 100)[((k + 1) % 2) + 1]
<1>1. Twelve(d) = [k \in 1..12 |-> t(k)]
  BY DEF Twelve
<1>2. ASSUME NEW k \in 1..12 PROVE \E i \in 1..6, j \in 1..2 : t(k) = Pair(Part(d, i))[j]
  <2> DEFINE i == (k + 1) \div 2
             j == ((k + 1) % 2) + 1
  <2>1. i \in 1..6 /\ j \in 1..2
    OBVIOUS
  <2>2. t(k) = Pair(Part(d, i))[j]
    BY DEF Part
  <2> HIDE DEF i, j, t
  <2> QED BY <2>1, <2>2
<1>3. ASSUME NEW i \in 1..6 PROVE t(2 * i - 1) = Pair(Part(d, i))[1] /\ t(2 * i) = Pair(Part(d, i))[2]
  <2>1. (2 * i - 1 + 1) \div 2 = i /\ (2 * i + 1) \div 2 = i /\ (2 * i - 1 + 1) % 2 = 0 /\ (2 * i + 1) % 2 = 1
    OBVIOUS
  <2>2. t(2 * i - 1) = Pair(d[i] % 100)[0 + 1] /\ t(2 * i) = Pair(d[i] % 100)[1 + 1]
    BY <2>1
  <2> HIDE DEF t
  <2> QED BY <2>2 DEF Part
<1> HIDE DEF t
<1>4. ASSUME NEW k \in 1..12 PROVE t(k) \in Byte
  <2>1. PICK i \in 1..6, j \in 1..2 : t(k) = Pair(Part(d, i))[j]
    BY <1>2
  <2> DEFINE v == Part(d, i)
  <2>2. v \in Nat /\ v <= 99
    BY PartIs
  <2>3. t(k) = Pair(v)[j]
    BY <2>1
  <2> HIDE DEF v
  <2>4. Pair(v) \in Seq(Byte) /\ Len(Pair(v)) = 2
    BY <2>2, PairIs
  <2>5. Pair(v)[j] \in Byte
    BY <2>4, SeqAt
  <2> QED BY <2>3, <2>5
<1>5. Twelve(d) \in [1..12 -> Byte]
  BY <1>1, <1>4
<1>6. Twelve(d) \in Seq(Byte) /\ Len(Twelve(d)) = 12
  <2>1. 12 \in Nat
    OBVIOUS
  <2> QED BY <1>5, <2>1, OfSeq
<1>7. \A i \in 1..6 : 2 * i - 1 \in 1..12 /\ 2 * i \in 1..12
  OBVIOUS
<1> QED BY <1>1, <1>3, <1>6, <1>7

\* How a date is written: its tag and its bytes.
DateTag(d) == IF d[1] < 2050 THEN UTCTIME ELSE GENERALIZED
DateBytes(d) == IF d[1] < 2050 THEN Twelve(d) \o <<90>> ELSE Pair(d[1] \div 100) \o Twelve(d) \o <<90>>

LEMMA DatedIs ==
  ASSUME NEW d \in Dates
  PROVE  /\ Dated(d) = Short(DateTag(d), DateBytes(d)) /\ DateTag(d) \in Byte /\ DateBytes(d) \in Seq(Byte) /\ Encoded(DateBytes(d))
         /\ Encoded(Dated(d)) /\ Dated(d) = Tlv(1, DateTag(d), DateBytes(d))
<1>1. Twelve(d) \in Seq(Byte) /\ <<90>> \in Seq(Byte)
  BY TwelveIs, Numbers, EncOne
<1>2. Pair(d[1] \div 100) \in Seq(Byte)
  <2> DEFINE v == d[1]
             u == v \div 100
  <2>1. v \in Nat /\ v <= 2099
    BY DateFacts
  <2>2. u \in Nat /\ u <= 99
    <3> HIDE DEF v
    <3> QED BY <2>1
  <2> HIDE DEF u
  <2>3. Pair(u) \in Seq(Byte)
    BY <2>2, PairIs
  <2> QED BY <2>3 DEF u
<1>3. Twelve(d) \o <<90>> \in Seq(Byte) /\ Pair(d[1] \div 100) \o Twelve(d) \in Seq(Byte)
  BY <1>1, <1>2, ConcatByte
<1>4. Pair(d[1] \div 100) \o Twelve(d) \o <<90>> \in Seq(Byte)
  BY <1>1, <1>3, ConcatByte
<1> DEFINE a == Twelve(d) \o <<90>>
           b == Pair(d[1] \div 100) \o Twelve(d) \o <<90>>
           early == d[1] < 2050
<1>9. Dated(d) = IF early THEN Short(UTCTIME, a) ELSE Short(GENERALIZED, b)
  BY DEF Dated
<1>10. DateBytes(d) = (IF early THEN a ELSE b) /\ DateTag(d) = IF early THEN UTCTIME ELSE GENERALIZED
  BY DEF DateBytes, DateTag
<1>11. a \in Seq(Byte) /\ b \in Seq(Byte)
  BY <1>3, <1>4
<1> HIDE DEF a, b, early
<1>5. DateBytes(d) \in Seq(Byte)
  BY Zenon, <1>10, <1>11
<1>6. Dated(d) = Short(DateTag(d), DateBytes(d))
  BY Zenon, <1>9, <1>10
<1>7. DateTag(d) \in Byte
  BY Zenon, <1>10, Tags
<1>8. Encoded(DateBytes(d)) /\ Encoded(Dated(d))
  <2>1. Encoded(DateBytes(d))
    BY <1>5, EncodedBytes
  <2> QED BY <1>6, <1>7, <2>1, EncShort
<1> QED BY Zenon, <1>5, <1>6, <1>7, <1>8 DEF Short

\* The parts of what is signed.
VersionOf(c) == IF c.version THEN Short(VERSION, Short(INT, <<2>>)) ELSE <<>>
Validity(c) == Dated(c.from) \o Dated(c.till)
OtherExt == Extension(1, OidOther, TRUE, Short(SEQ, Short(DNS, <<97>>)))
ExtAll(c) == IF c.san = "none" THEN OtherExt ELSE IF c.san = "later" THEN OtherExt \o SanOf(c) ELSE SanOf(c) \o OtherExt
ExtOf(c) == IF c.version THEN Extensions(c) ELSE <<>>
BodyOf(c) == VersionOf(c) \o Short(INT, <<c.key.id>>) \o Algorithm(c) \o NameOf(c.by) \o Short(SEQ, Validity(c)) \o NameOf(c.key)
           \o Spki(c.key) \o ExtOf(c)

LEMMA EncExtension ==
  ASSUME NEW form \in 1..3, NEW oid \in Seq(Byte), NEW critical \in BOOLEAN, NEW value, Encoded(value)
  PROVE  /\ Encoded(Short(OID, oid)) /\ Encoded(IF critical THEN Short(BOOL, <<255>>) ELSE <<>>) /\ Encoded(Short(OCTETS, value))
         /\ Encoded(Short(OID, oid) \o (IF critical THEN Short(BOOL, <<255>>) ELSE <<>>))
         /\ Encoded(Short(OID, oid) \o (IF critical THEN Short(BOOL, <<255>>) ELSE <<>>) \o Short(OCTETS, value))
         /\ Encoded(Extension(form, oid, critical, value))
<1> DEFINE x == IF critical THEN Short(BOOL, <<255>>) ELSE <<>>
           o == Short(OID, oid)
           v == Short(OCTETS, value)
<1>1. Encoded(o) /\ Encoded(v)
  BY EncodedBytes, EncShort, Tags
<1>2. Encoded(Short(BOOL, <<255>>)) /\ Encoded(<<>>)
  BY EncOne, EncShort, EncEmpty, Tags, Numbers
<1>3. Encoded(x)
  BY Zenon, <1>2
<1>4. Extension(form, oid, critical, value) = Tlv(form, SEQ, o \o x \o v)
  BY Zenon DEF Extension
<1> HIDE DEF x, o, v
<1>5. Encoded(o \o x)
  BY <1>1, <1>3, EncodedJoined
<1>6. Encoded(o \o x \o v)
  BY <1>1, <1>5, EncodedJoined
<1>7. Encoded(Extension(form, oid, critical, value))
  BY <1>4, <1>6, EncodedTlv, Tags
<1> QED BY <1>1, <1>3, <1>5, <1>6, <1>7 DEF x, o, v

LEMMA EncNames ==
  ASSUME NEW names \in Seq(Seq(Byte))
  PROVE  /\ \A k \in 1..Len(names) : Encoded(Short(DNS, names[k]))
         /\ \A k \in 0..Len(names) : Encoded(NameList(names)[k])
<1>1. ASSUME NEW k \in 1..Len(names) PROVE Encoded(Short(DNS, names[k]))
  <2>1. names[k] \in Seq(Byte)
    BY SeqAt
  <2> QED BY <2>1, EncodedBytes, EncShort, Tags
<1>2. Encoded(NameList(names)[0])
  <2>1. DNS - 1 \in Byte
    BY DEF DNS, Byte
  <2>2. Encoded(Short(DNS - 1, <<97>>))
    BY <2>1, Numbers, EncOne, EncShort
  <2> QED BY <2>2, NameListIs
<1> DEFINE S == {k \in Nat : k <= Len(names) => Encoded(NameList(names)[k])}
<1>3. 0 \in S
  BY <1>2
<1>4. ASSUME NEW n \in S PROVE n + 1 \in S
  <2>1. n \in Nat /\ (n <= Len(names) => Encoded(NameList(names)[n])) /\ Len(names) \in Nat
    OBVIOUS
  <2>2. ASSUME n + 1 <= Len(names) PROVE Encoded(NameList(names)[n + 1])
    <3> DEFINE l == Len(names)
    <3>0. l \in Nat /\ n \in Nat /\ n + 1 <= l
      BY ONLY <2>1, <2>2
    <3> HIDE DEF l
    <3>5. n + 1 \in 1..l /\ (n + 1) - 1 = n /\ n <= l
      BY ONLY <3>0
    <3>1. n + 1 \in 1..Len(names) /\ (n + 1) - 1 = n /\ n <= Len(names)
      BY ONLY <3>5 DEF l
    <3>2. NameList(names)[n + 1] = NameList(names)[(n + 1) - 1] \o Short(DNS, names[n + 1])
      <4>1. \A k \in 1..Len(names) : NameList(names)[k] = NameList(names)[k - 1] \o Short(DNS, names[k])
        BY NameListIs
      <4> DEFINE j == n + 1
      <4>2. j \in 1..Len(names)
        BY <3>1
      <4> HIDE DEF j
      <4>3. NameList(names)[j] = NameList(names)[j - 1] \o Short(DNS, names[j])
        BY ONLY <4>1, <4>2
      <4> QED BY ONLY <4>3 DEF j
    <3>3. NameList(names)[n + 1] = NameList(names)[n] \o Short(DNS, names[n + 1])
      BY <3>1, <3>2
    <3>4. Encoded(NameList(names)[n]) /\ Encoded(Short(DNS, names[n + 1]))
      BY <1>1, <2>1, <3>1
    <3> QED BY <3>3, <3>4, EncodedJoined
  <2>3. n + 1 \in Nat
    BY <2>1
  <2> QED BY <2>2, <2>3
<1>5. S \in SUBSET Nat
  OBVIOUS
<1>6. \A n \in Nat : n \in S
  <2> HIDE DEF S
  <2> QED BY <1>3, <1>4, <1>5, Counted
<1> QED BY <1>1, <1>6

LEMMA EncExtensions ==
  ASSUME NEW c \in Certs
  PROVE  /\ Encoded(Tlv(c.form, SEQ, NameList(c.names)[Len(c.names)])) /\ Encoded(NameList(c.names)[Len(c.names)])
         /\ Encoded(SanOf(c)) /\ Encoded(OtherExt) /\ Encoded(ExtAll(c)) /\ Encoded(Tlv(c.form, SEQ, ExtAll(c)))
         /\ Extensions(c) = Short(EXTENSIONS, Tlv(c.form, SEQ, ExtAll(c))) /\ Encoded(Extensions(c))
<1>1. /\ c.form \in 1..3 /\ c.names \in Seq(Seq(Byte)) /\ c.san \in {"first", "later", "critical", "none"} /\ SEQ \in Byte
      /\ EXTENSIONS \in Byte
  BY CertFacts, Tags
<1>2. Len(c.names) \in 0..Len(c.names)
  BY <1>1
<1>3. Encoded(NameList(c.names)[Len(c.names)])
  BY <1>1, <1>2, EncNames
<1>4. Encoded(Tlv(c.form, SEQ, NameList(c.names)[Len(c.names)]))
  BY <1>1, <1>3, EncodedTlv
<1>5. Encoded(SanOf(c))
  <2>1. (c.san = "critical") \in BOOLEAN
    OBVIOUS
  <2> QED BY <1>1, <1>4, <2>1, OidBytes, EncExtension DEF SanOf
<1>6. Encoded(OtherExt)
  <2>1. Encoded(Short(SEQ, Short(DNS, <<97>>)))
    BY Tags, Numbers, EncOne, EncShort
  <2>2. 1 \in 1..3 /\ TRUE \in BOOLEAN
    OBVIOUS
  <2> QED BY <2>1, <2>2, OidBytes, EncExtension DEF OtherExt
<1>7. Encoded(ExtAll(c))
  <2>1. Encoded(OtherExt \o SanOf(c)) /\ Encoded(SanOf(c) \o OtherExt)
    BY <1>5, <1>6, EncodedJoined
  <2> QED BY Zenon, <1>6, <2>1 DEF ExtAll
<1>8. Extensions(c) = Short(EXTENSIONS, Tlv(c.form, SEQ, ExtAll(c)))
  <2> DEFINE o == Extension(1, OidOther, TRUE, Short(SEQ, Short(DNS, <<97>>)))
             l == o \o SanOf(c)
             e == SanOf(c) \o o
             all == CASE c.san = "none" -> o [] c.san = "later" -> l [] OTHER -> e
  <2>1. Extensions(c) = Short(EXTENSIONS, Tlv(c.form, SEQ, all))
    BY Zenon DEF Extensions
  <2>2. ExtAll(c) = IF c.san = "none" THEN o ELSE IF c.san = "later" THEN l ELSE e
    BY Zenon DEF ExtAll, OtherExt
  <2> HIDE DEF o, l, e
  <2>3. all = ExtAll(c)
    BY <2>2
  <2> HIDE DEF all
  <2> QED BY ONLY <2>1, <2>3
<1>9. Encoded(Tlv(c.form, SEQ, ExtAll(c)))
  BY <1>1, <1>7, EncodedTlv
<1>10. Encoded(Extensions(c))
  BY <1>1, <1>8, <1>9, EncShort
<1> QED BY <1>3, <1>4, <1>5, <1>6, <1>7, <1>8, <1>9, <1>10

\* What is signed, a part longer at a time.
B1(c) == VersionOf(c) \o Short(INT, <<c.key.id>>)
B2(c) == B1(c) \o Algorithm(c)
B3(c) == B2(c) \o NameOf(c.by)
B4(c) == B3(c) \o Short(SEQ, Validity(c))
B5(c) == B4(c) \o NameOf(c.key)
B6(c) == B5(c) \o Spki(c.key)

LEMMA EncBody ==
  ASSUME NEW c \in Certs
  PROVE  /\ Encoded(VersionOf(c)) /\ Encoded(<<c.key.id>>) /\ Encoded(Algorithm(c)) /\ Encoded(Validity(c)) /\ Encoded(Spki(c.key))
         /\ Encoded(ExtOf(c)) /\ Encoded(Dated(c.from)) /\ Encoded(Dated(c.till))
         /\ Encoded(B1(c)) /\ Encoded(B2(c)) /\ Encoded(B3(c)) /\ Encoded(B4(c)) /\ Encoded(B5(c)) /\ Encoded(B6(c))
         /\ Encoded(BodyOf(c)) /\ BodyOf(c) = B6(c) \o ExtOf(c)
         /\ Tbs(c) = Tlv(c.form, SEQ, BodyOf(c)) /\ Encoded(Tbs(c))
<1>1. c \in Certs /\ c.key \in Keys /\ c.by \in Keys /\ c.from \in Dates /\ c.till \in Dates /\ c.version \in BOOLEAN /\ c.form \in 1..3
  BY CertFacts
<1>2. Encoded(VersionOf(c))
  <2>1. Encoded(Short(VERSION, Short(INT, <<2>>))) /\ Encoded(<<>>)
    BY Tags, Numbers, EncOne, EncShort, EncEmpty
  <2> QED BY Zenon, <2>1 DEF VersionOf
<1>3. Encoded(<<c.key.id>>) /\ Encoded(Short(INT, <<c.key.id>>))
  BY <1>1, KeyFacts, Tags, EncOne, EncShort
<1>4. Encoded(Algorithm(c)) /\ Encoded(NameOf(c.by)) /\ Encoded(NameOf(c.key)) /\ Encoded(Spki(c.key))
  BY <1>1, AlgorithmIs, NameOfIs, EncSpki
<1>5. Encoded(Dated(c.from)) /\ Encoded(Dated(c.till))
  BY <1>1, DatedIs
<1>6. Encoded(Validity(c))
  BY <1>5, EncodedJoined DEF Validity
<1>7. Encoded(Short(SEQ, Validity(c)))
  BY <1>6, EncShort, Tags
<1>8. Encoded(ExtOf(c))
  BY Zenon, <1>1, EncExtensions, EncEmpty DEF ExtOf
<1>9. Encoded(B1(c))
  BY <1>2, <1>3, EncodedJoined DEF B1
<1>10. Encoded(B2(c))
  BY <1>4, <1>9, EncodedJoined DEF B2
<1>11. Encoded(B3(c))
  BY <1>4, <1>10, EncodedJoined DEF B3
<1>12. Encoded(B4(c))
  BY <1>7, <1>11, EncodedJoined DEF B4
<1>13. Encoded(B5(c))
  BY <1>4, <1>12, EncodedJoined DEF B5
<1>14. Encoded(B6(c))
  BY <1>4, <1>13, EncodedJoined DEF B6
<1>15. BodyOf(c) = B6(c) \o ExtOf(c)
  BY Zenon DEF BodyOf, B1, B2, B3, B4, B5, B6
<1>16. Encoded(BodyOf(c))
  BY <1>8, <1>14, <1>15, EncodedJoined
<1>17. Tbs(c) = Tlv(c.form, SEQ, BodyOf(c))
  BY Zenon DEF Tbs, BodyOf, VersionOf, ExtOf, Validity
<1>18. Encoded(Tbs(c))
  BY <1>1, <1>16, <1>17, EncodedTlv, Tags
<1> QED BY <1>2, <1>3, <1>4, <1>5, <1>6, <1>8, <1>9, <1>10, <1>11, <1>12, <1>13, <1>14, <1>15, <1>16, <1>17, <1>18

\* A walk's element.
Has(w, k, d) == k \in Nat /\ k \in DOMAIN w /\ w[k] = d

LEMMA ReadsFacts ==
  ASSUME NEW f \in Seq(Byte), NEW m \in Nat, NEW n \in 0..Len(f), NEW end \in n..Len(f), NEW d, NEW tag, NEW content, ReadAs(f, m, n, d, tag, content)
  PROVE  /\ der_elem(f, m, end) = d /\ element(f, end, m) = d /\ d # Missing /\ After(d) = n /\ d.tag = tag /\ d.off \in Nat
         /\ d \in Elem(m, n) /\ d.len = Len(content) /\ content \in Seq(Byte) /\ Content(f, d) = content
         /\ Spans(f, d.off, n, content) /\ d.off >= m + 2 /\ n \in Nat /\ d.off <= n /\ m < n
<1>1. d \in Elem(m, n) /\ n \in Nat
  BY DEF ReadAs
<1>2. d # Missing /\ d.off \in Nat /\ d.off >= m + 2 /\ After(d) > m /\ After(d) >= d.off
  BY <1>1, ElemFacts
<1> QED BY <1>1, <1>2 DEF ReadAs

LEMMA WalkStarts ==
  ASSUME NEW f \in Seq(Byte), NEW end \in 0..Len(f), NEW p \in 0..Len(f), NEW n \in 0..Len(f), end \in n..Len(f), NEW d, NEW tag, NEW content,
         ReadAs(f, p, n, d, tag, content)
  PROVE  Has(Walk(f, p, end), 1, d)
<1>1. der_elem(f, p, end) = d /\ d # Missing /\ p \in Nat /\ 1 \in Nat
  BY ReadsFacts
<1> QED BY <1>1, WalkFirst DEF Has

LEMMA WalkGoesOn ==
  ASSUME NEW f \in Seq(Byte), NEW end \in 0..Len(f), NEW p \in 0..Len(f), NEW m \in Nat, NEW n \in 0..Len(f), end \in n..Len(f), NEW k, NEW b, NEW d,
         NEW tag, NEW content, Has(Walk(f, p, end), k, b), After(b) = m, ReadAs(f, m, n, d, tag, content)
  PROVE  Has(Walk(f, p, end), k + 1, d)
<1>1. der_elem(f, m, end) = d /\ d # Missing
  BY ReadsFacts
<1> DEFINE w == Walk(f, p, end)
<1>2. k \in Nat /\ k \in DOMAIN w /\ After(w[k]) = m
  BY DEF Has
<1>3. /\ k + 1 \in DOMAIN w <=> der_elem(f, m, end) # Missing
      /\ k + 1 \in DOMAIN w => w[k + 1] = der_elem(f, m, end)
  BY <1>2, WalkNext
<1> HIDE DEF w
<1>4. k + 1 \in Nat
  BY <1>2
<1>5. Has(w, k + 1, d)
  BY <1>1, <1>3, <1>4 DEF Has
<1> QED BY <1>5 DEF w

LEMMA WalkStops ==
  ASSUME NEW f \in Seq(Byte), NEW end \in 0..Len(f), NEW p \in 0..Len(f), NEW k, NEW b, Has(Walk(f, p, end), k, b), After(b) = end
  PROVE  k + 1 \notin DOMAIN Walk(f, p, end)
<1>1. end \in Nat /\ ~(end + 2 <= end)
  OBVIOUS
<1>2. der_elem(f, end, end) = Missing
  BY <1>1, NoHead
<1> DEFINE w == Walk(f, p, end)
<1>3. k \in Nat /\ k \in DOMAIN w /\ After(w[k]) = end
  BY DEF Has
<1>4. k + 1 \in DOMAIN w <=> der_elem(f, After(w[k]), end) # Missing
  BY <1>3, WalkNext
<1> HIDE DEF w
<1>5. k + 1 \notin DOMAIN w
  BY <1>2, <1>3, <1>4
<1> QED BY <1>5 DEF w

\* What is signed of a certificate, part by part, behind its version.
Laid(f, o, q, c, m, d) ==
  /\ m \in [1..7 -> 0..Len(f)]
  /\ m[1] >= o /\ Spans(f, o, m[1], VersionOf(c))
  /\ ReadAs(f, m[1], m[2], d[1], INT, <<c.key.id>>)
  /\ ReadAs(f, m[2], m[3], d[2], SEQ, Short(OID, AlgOid(c)) \o <<5, 0>>)
  /\ ReadAs(f, m[3], m[4], d[3], SEQ, <<c.by.id, 7>>)
  /\ ReadAs(f, m[4], m[5], d[4], SEQ, Validity(c))
  /\ ReadAs(f, m[5], m[6], d[5], SEQ, <<c.key.id, 7>>)
  /\ Spans(f, m[6], m[7], Spki(c.key))
  /\ \E s : ReadAs(f, m[6], m[7], d[6], SEQ, s)
  /\ m[7] <= q /\ Spans(f, m[7], q, ExtOf(c))

LEMMA BodyLaid ==
  ASSUME NEW f \in Seq(Byte), TwoBytes(Len(f)), NEW o \in Nat, NEW q \in 0..Len(f), NEW c \in Certs, Spans(f, o, q, BodyOf(c))
  PROVE  \E m, d : Laid(f, o, q, c, m, d)
<1>1. c \in Certs /\ c.key \in Keys /\ c.by \in Keys /\ 1 \in 1..3 /\ SEQ \in Byte /\ INT \in Byte
  BY CertFacts, Tags
<1>2. PICK m7 \in Nat : m7 >= o /\ m7 <= q /\ m7 \in 0..Len(f) /\ Spans(f, o, m7, B6(c)) /\ Spans(f, m7, q, ExtOf(c))
  BY EncBody, SpansJoined
<1>3. PICK m6 \in Nat : m6 >= o /\ m6 <= m7 /\ m6 \in 0..Len(f) /\ Spans(f, o, m6, B5(c)) /\ Spans(f, m6, m7, Spki(c.key))
  <2>1. Spans(f, o, m7, B5(c) \o Spki(c.key))
    BY <1>2 DEF B6
  <2>2. m7 \in 0..Len(f) /\ Encoded(B5(c)) /\ Encoded(Spki(c.key))
    BY <1>2, EncBody
  <2> QED BY ONLY f \in Seq(Byte), o \in Nat, <2>1, <2>2, SpansJoined
<1>4. PICK s, d6 : ReadAs(f, m6, m7, d6, SEQ, s)
  <2> DEFINE s == Short(SEQ, SpkiAlg(c.key)) \o Short(BITS, <<0>> \o SpkiBits(c.key))
  <2>1. Spki(c.key) = Tlv(1, SEQ, s) /\ Encoded(s)
    BY <1>1, SpkiIs, EncSpki DEF Short
  <2> HIDE DEF s
  <2> QED BY <1>1, <1>2, <1>3, <2>1, ReadBack
<1>5. PICK m5 \in 0..Len(f) : \E d : m5 >= o /\ m5 <= m6 /\ Spans(f, o, m5, B4(c)) /\ ReadAs(f, m5, m6, d, SEQ, <<c.key.id, 7>>)
  <2>1. Spans(f, o, m6, B4(c) \o Tlv(1, SEQ, <<c.key.id, 7>>)) /\ Encoded(<<c.key.id, 7>>)
    BY <1>1, <1>3, NameOfIs DEF B5
  <2>2. m6 \in 0..Len(f) /\ Encoded(B4(c))
    BY <1>3, EncBody
  <2> QED BY <1>1, <2>1, <2>2, LastRead
<1>6. PICK m4 \in 0..Len(f) : \E d : m4 >= o /\ m4 <= m5 /\ Spans(f, o, m4, B3(c)) /\ ReadAs(f, m4, m5, d, SEQ, Validity(c))
  <2>1. Spans(f, o, m5, B3(c) \o Tlv(1, SEQ, Validity(c))) /\ Encoded(Validity(c))
    BY <1>5, EncBody DEF B4, Short
  <2>2. m5 \in 0..Len(f) /\ Encoded(B3(c))
    BY <1>5, EncBody
  <2> QED BY <1>1, <2>1, <2>2, LastRead
<1>7. PICK m3 \in 0..Len(f) : \E d : m3 >= o /\ m3 <= m4 /\ Spans(f, o, m3, B2(c)) /\ ReadAs(f, m3, m4, d, SEQ, <<c.by.id, 7>>)
  <2>1. Spans(f, o, m4, B2(c) \o Tlv(1, SEQ, <<c.by.id, 7>>)) /\ Encoded(<<c.by.id, 7>>)
    BY <1>1, <1>6, NameOfIs DEF B3
  <2>2. m4 \in 0..Len(f) /\ Encoded(B2(c))
    BY <1>6, EncBody
  <2> QED BY <1>1, <2>1, <2>2, LastRead
<1> DEFINE al == Short(OID, AlgOid(c)) \o <<5, 0>>
<1>8. PICK m2 \in 0..Len(f) : \E d : m2 >= o /\ m2 <= m3 /\ Spans(f, o, m2, B1(c)) /\ ReadAs(f, m2, m3, d, SEQ, al)
  <2>1. Spans(f, o, m3, B1(c) \o Tlv(1, SEQ, al)) /\ Encoded(al)
    BY <1>7, AlgorithmIs DEF B2, Short
  <2>2. m3 \in 0..Len(f) /\ Encoded(B1(c))
    BY <1>7, EncBody
  <2> HIDE DEF al
  <2> QED BY <1>1, <2>1, <2>2, LastRead
<1>9. PICK m1 \in 0..Len(f) : \E d : m1 >= o /\ m1 <= m2 /\ Spans(f, o, m1, VersionOf(c)) /\ ReadAs(f, m1, m2, d, INT, <<c.key.id>>)
  <2>1. Spans(f, o, m2, VersionOf(c) \o Tlv(1, INT, <<c.key.id>>)) /\ Encoded(<<c.key.id>>)
    BY <1>8, EncBody DEF B1, Short
  <2>2. m2 \in 0..Len(f) /\ Encoded(VersionOf(c))
    BY <1>8, EncBody
  <2> QED BY <1>1, <2>1, <2>2, LastRead
<1>10. PICK d5 : ReadAs(f, m5, m6, d5, SEQ, <<c.key.id, 7>>)
  BY <1>5
<1>11. PICK d4 : ReadAs(f, m4, m5, d4, SEQ, Validity(c))
  BY <1>6
<1>12. PICK d3 : ReadAs(f, m3, m4, d3, SEQ, <<c.by.id, 7>>)
  BY <1>7
<1>13. PICK d2 : ReadAs(f, m2, m3, d2, SEQ, al)
  BY <1>8
<1>14. PICK d1 : ReadAs(f, m1, m2, d1, INT, <<c.key.id>>)
  BY <1>9
<1> DEFINE m == <<m1, m2, m3, m4, m5, m6, m7>>
           d == <<d1, d2, d3, d4, d5, d6>>
<1>15. /\ m \in [1..7 -> 0..Len(f)] /\ m[1] = m1 /\ m[2] = m2 /\ m[3] = m3 /\ m[4] = m4 /\ m[5] = m5 /\ m[6] = m6 /\ m[7] = m7
       /\ d[1] = d1 /\ d[2] = d2 /\ d[3] = d3 /\ d[4] = d4 /\ d[5] = d5 /\ d[6] = d6
  BY <1>2, <1>3
<1> HIDE DEF m, d, al
<1>16. m1 >= o /\ Spans(f, o, m1, VersionOf(c)) /\ m7 <= q
  BY <1>2, <1>9
<1>17. Laid(f, o, q, c, m, d)
  BY <1>2, <1>3, <1>4, <1>10, <1>11, <1>12, <1>13, <1>14, <1>15, <1>16 DEF Laid, al
<1> QED BY <1>17

LEMMA LaidInOrder ==
  ASSUME NEW f \in Seq(Byte), NEW o \in Nat, NEW q \in 0..Len(f), NEW c, NEW m, NEW d, Laid(f, o, q, c, m, d)
  PROVE  /\ \A i \in 1..7 : m[i] \in Nat /\ m[i] \in 0..Len(f) /\ q \in m[i]..Len(f) /\ m[i] >= o
         /\ \A i \in 1..6 : After(d[i]) = m[i + 1]
<1>1. \A i \in 1..7 : m[i] \in 0..Len(f)
  <2>1. m \in [1..7 -> 0..Len(f)]
    BY Zenon DEF Laid
  <2> QED BY <2>1
<1>2. \A i \in 1..7 : m[i] \in Nat
  <2>1. 0..Len(f) \subseteq Nat
    OBVIOUS
  <2> QED BY Zenon, <1>1, <2>1
<1>3. 1 \in 1..7 /\ 2 \in 1..7 /\ 3 \in 1..7 /\ 4 \in 1..7 /\ 5 \in 1..7 /\ 6 \in 1..7 /\ 7 \in 1..7
  OBVIOUS
<1>4. ASSUME NEW a \in Nat, NEW b \in Nat, NEW e, NEW tag, NEW s, ReadAs(f, a, b, e, tag, s) PROVE a < b /\ After(e) = b
  <2>1. e \in Elem(a, b) /\ After(e) = b
    BY <1>4 DEF ReadAs
  <2>2. After(e) > a
    BY <2>1, ElemFacts
  <2> QED BY <2>1, <2>2
<1>5. /\ m[1] < m[2] /\ m[2] < m[3] /\ m[3] < m[4] /\ m[4] < m[5] /\ m[5] < m[6] /\ m[6] < m[7] /\ m[7] <= q /\ m[1] >= o
      /\ After(d[1]) = m[2] /\ After(d[2]) = m[3] /\ After(d[3]) = m[4] /\ After(d[4]) = m[5] /\ After(d[5]) = m[6]
      /\ After(d[6]) = m[7]
  BY <1>2, <1>3, <1>4 DEF Laid
<1>6. \A i \in 1..6 : After(d[i]) = m[i + 1]
  BY <1>5
<1>7. ASSUME NEW i \in 1..7 PROVE m[i] <= q /\ m[i] >= o
  <2>1. i \in {1, 2, 3, 4, 5, 6, 7}
    OBVIOUS
  <2>2. /\ m[1] <= q /\ m[2] <= q /\ m[3] <= q /\ m[4] <= q /\ m[5] <= q /\ m[6] <= q /\ m[7] <= q
        /\ m[1] >= o /\ m[2] >= o /\ m[3] >= o /\ m[4] >= o /\ m[5] >= o /\ m[6] >= o /\ m[7] >= o
    <3>1. /\ m[1] \in Nat /\ m[2] \in Nat /\ m[3] \in Nat /\ m[4] \in Nat /\ m[5] \in Nat /\ m[6] \in Nat /\ m[7] \in Nat
          /\ q \in Nat /\ o \in Nat
      BY <1>2, <1>3
    <3> DEFINE m1 == m[1]
               m2 == m[2]
               m3 == m[3]
               m4 == m[4]
               m5 == m[5]
               m6 == m[6]
               m7 == m[7]
    <3>2. /\ m1 \in Nat /\ m2 \in Nat /\ m3 \in Nat /\ m4 \in Nat /\ m5 \in Nat /\ m6 \in Nat /\ m7 \in Nat /\ q \in Nat
          /\ o \in Nat /\ m1 < m2 /\ m2 < m3 /\ m3 < m4 /\ m4 < m5 /\ m5 < m6 /\ m6 < m7 /\ m7 <= q /\ m1 >= o
      BY <1>5, <3>1
    <3> HIDE DEF m1, m2, m3, m4, m5, m6, m7
    <3>3. /\ m1 <= q /\ m2 <= q /\ m3 <= q /\ m4 <= q /\ m5 <= q /\ m6 <= q /\ m7 <= q
          /\ m1 >= o /\ m2 >= o /\ m3 >= o /\ m4 >= o /\ m5 >= o /\ m6 >= o /\ m7 >= o
      BY ONLY <3>2
    <3> QED BY ONLY <3>3 DEF m1, m2, m3, m4, m5, m6, m7
  <2> QED BY <2>1, <2>2
<1>8. ASSUME NEW i \in 1..7 PROVE q \in m[i]..Len(f)
  <2>1. m[i] \in Nat /\ m[i] <= q
    BY <1>2, <1>7
  <2> QED BY <2>1
<1> QED BY <1>1, <1>2, <1>6, <1>7, <1>8

\* What the walk over the part that is signed has.
Row(f, q, c, w, m, d) ==
  /\ SerialOf(w) \in {1, 2}
  /\ \A i \in 1..6 : Has(w, SerialOf(w) + (i - 1), d[i])
  /\ c.version => \E x : Has(w, SerialOf(w) + 6, x) /\ ReadAs(f, m[7], q, x, EXTENSIONS, Tlv(c.form, SEQ, ExtAll(c)))
  /\ ~c.version => SerialOf(w) + 6 \notin DOMAIN w

LEMMA RowStart ==
  ASSUME NEW f \in Seq(Byte), TwoBytes(Len(f)), NEW o \in 0..Len(f), NEW q \in 0..Len(f), NEW c \in Certs, NEW m, NEW d,
         Laid(f, o, q, c, m, d)
  PROVE  SerialOf(Walk(f, o, q)) \in {1, 2} /\ Has(Walk(f, o, q), SerialOf(Walk(f, o, q)), d[1])
<1> DEFINE w == Walk(f, o, q)
<1>1. /\ m[1] \in Nat /\ m[1] \in 0..Len(f) /\ q \in m[1]..Len(f) /\ m[2] \in 0..Len(f) /\ q \in m[2]..Len(f) /\ o \in Nat
      /\ m[1] >= o
  BY LaidInOrder
<1>2. ReadAs(f, m[1], m[2], d[1], INT, <<c.key.id>>) /\ Spans(f, o, m[1], VersionOf(c))
  BY DEF Laid
<1>3. w \in Seq(Elem(o, q))
  BY WalkFirst
<1>4. ASSUME NEW x, Has(w, 1, x) PROVE w # <<>> /\ Head(w) = x
  <2> HIDE DEF w
  <2>1. 1 \in DOMAIN w /\ w[1] = x
    BY <1>4 DEF Has
  <2> QED BY <1>3, <2>1
<1>5. CASE c.version
  <2>1. VersionOf(c) = Tlv(1, VERSION, Short(INT, <<2>>))
    BY Zenon, <1>5 DEF VersionOf, Short
  <2>2. Encoded(Short(INT, <<2>>)) /\ 1 \in 1..3 /\ VERSION \in Byte
    BY Tags, Numbers, EncOne, EncShort
  <2>3. PICK v : ReadAs(f, o, m[1], v, VERSION, Short(INT, <<2>>))
    BY <1>1, <1>2, <2>1, <2>2, ReadBack
  <2>4. Has(w, 1, v) /\ After(v) = m[1] /\ v.tag = VERSION
    <3>1. Has(w, 1, v)
      BY <1>1, <2>3, WalkStarts
    <3> QED BY <3>1, <2>3 DEF ReadAs
  <2>5. SerialOf(w) = 2
    <3>1. w # <<>> /\ Head(w) = v
      BY <1>4, <2>4
    <3> HIDE DEF w
    <3> QED BY <2>4, <3>1 DEF SerialOf
  <2>6. Has(w, 1 + 1, d[1])
    BY <1>1, <1>2, <2>4, WalkGoesOn
  <2> HIDE DEF w
  <2>7. SerialOf(w) \in {1, 2} /\ Has(w, SerialOf(w), d[1])
    BY <2>5, <2>6
  <2> QED BY <2>7 DEF w
<1>6. CASE ~c.version
  <2>1. m[1] = o
    <3>1. VersionOf(c) = <<>>
      BY <1>6 DEF VersionOf
    <3>2. o + Len(<<>>) = m[1]
      BY <1>2, <3>1 DEF Spans
    <3> QED BY <1>1, <3>2
  <2>2. Has(w, 1, d[1])
    <3>1. ReadAs(f, o, m[2], d[1], INT, <<c.key.id>>)
      BY <1>2, <2>1
    <3> QED BY <1>1, <3>1, WalkStarts
  <2>3. d[1].tag = INT
    BY <1>2 DEF ReadAs
  <2>4. SerialOf(w) = 1
    <3>1. w # <<>> /\ Head(w) = d[1]
      BY <1>4, <2>2
    <3>2. INT # VERSION
      BY DEF INT, VERSION
    <3> HIDE DEF w
    <3> QED BY <2>3, <3>1, <3>2 DEF SerialOf
  <2> HIDE DEF w
  <2>5. SerialOf(w) \in {1, 2} /\ Has(w, SerialOf(w), d[1])
    BY <2>2, <2>4
  <2> QED BY <2>5 DEF w
<1>7. c.version \in BOOLEAN
  BY CertFacts
<1> QED BY <1>5, <1>6, <1>7

LEMMA RowIs ==
  ASSUME NEW f \in Seq(Byte), TwoBytes(Len(f)), NEW o \in 0..Len(f), NEW q \in 0..Len(f), NEW c \in Certs, NEW m, NEW d,
         Laid(f, o, q, c, m, d)
  PROVE  Row(f, q, c, Walk(f, o, q), m, d)
<1> DEFINE w == Walk(f, o, q)
           s == SerialOf(w)
<1>1. s \in {1, 2} /\ Has(w, s, d[1])
  BY RowStart
<1>2. \A i \in 1..7 : m[i] \in Nat /\ m[i] \in 0..Len(f) /\ q \in m[i]..Len(f)
  BY LaidInOrder
<1>3. \A i \in 1..6 : After(d[i]) = m[i + 1]
  BY LaidInOrder
<1>4. ASSUME NEW i \in 1..5, NEW k, Has(w, k, d[i]), NEW tag, NEW content, ReadAs(f, m[i + 1], m[i + 2], d[i + 1], tag, content)
      PROVE  Has(w, k + 1, d[i + 1])
  <2>1. i \in 1..6 /\ i + 1 \in 1..7 /\ i + 2 \in 1..7
    OBVIOUS
  <2>2. After(d[i]) = m[i + 1] /\ m[i + 1] \in Nat /\ m[i + 2] \in 0..Len(f) /\ q \in m[i + 2]..Len(f)
    BY <1>2, <1>3, <2>1
  <2> DEFINE a == m[i + 1]
             b == m[i + 2]
             e == d[i + 1]
             h == d[i]
  <2>3. After(h) = a /\ a \in Nat /\ b \in 0..Len(f) /\ q \in b..Len(f) /\ ReadAs(f, a, b, e, tag, content) /\ Has(Walk(f, o, q), k, h)
    BY <1>4, <2>2
  <2> HIDE DEF a, b, e, h
  <2>4. Has(Walk(f, o, q), k + 1, e)
    BY <2>3, WalkGoesOn
  <2> QED BY <2>4 DEF e
<1> HIDE DEF w, s
<1>5. s + 1 \in Nat /\ (s + 1) + 1 = s + 2 /\ (s + 2) + 1 = s + 3 /\ (s + 3) + 1 = s + 4 /\ (s + 4) + 1 = s + 5 /\ (s + 5) + 1 = s + 6 /\ s + 0 = s
  BY <1>1
<1>6. Has(w, s + 1, d[2])
  <2>1. 1 \in 1..5 /\ ReadAs(f, m[1 + 1], m[1 + 2], d[1 + 1], SEQ, Short(OID, AlgOid(c)) \o <<5, 0>>)
    BY DEF Laid
  <2>2. Has(w, s + 1, d[1 + 1])
    BY <1>1, <1>4, <2>1
  <2> QED BY <2>2
<1>7. Has(w, s + 2, d[3])
  <2>1. 2 \in 1..5 /\ ReadAs(f, m[2 + 1], m[2 + 2], d[2 + 1], SEQ, <<c.by.id, 7>>)
    BY DEF Laid
  <2>2. Has(w, (s + 1) + 1, d[2 + 1])
    BY <1>4, <1>6, <2>1
  <2> QED BY <1>5, <2>2
<1>8. Has(w, s + 3, d[4])
  <2>1. 3 \in 1..5 /\ ReadAs(f, m[3 + 1], m[3 + 2], d[3 + 1], SEQ, Validity(c))
    BY DEF Laid
  <2>2. Has(w, (s + 2) + 1, d[3 + 1])
    BY <1>4, <1>7, <2>1
  <2> QED BY <1>5, <2>2
<1>9. Has(w, s + 4, d[5])
  <2>1. 4 \in 1..5 /\ ReadAs(f, m[4 + 1], m[4 + 2], d[4 + 1], SEQ, <<c.key.id, 7>>)
    BY DEF Laid
  <2>2. Has(w, (s + 3) + 1, d[4 + 1])
    BY <1>4, <1>8, <2>1
  <2> QED BY <1>5, <2>2
<1>10. Has(w, s + 5, d[6])
  <2>1. PICK x : ReadAs(f, m[6], m[7], d[6], SEQ, x)
    BY DEF Laid
  <2>2. 5 \in 1..5 /\ ReadAs(f, m[5 + 1], m[5 + 2], d[5 + 1], SEQ, x)
    BY <2>1
  <2>3. Has(w, (s + 4) + 1, d[5 + 1])
    BY <1>4, <1>9, <2>2
  <2> QED BY <1>5, <2>3
<1>11. \A i \in 1..6 : Has(w, s + (i - 1), d[i])
  <2> SUFFICES ASSUME NEW i \in 1..6 PROVE Has(w, s + (i - 1), d[i])
    OBVIOUS
  <2>1. i \in {1, 2, 3, 4, 5, 6}
    OBVIOUS
  <2>2. s + (1 - 1) = s /\ s + (2 - 1) = s + 1 /\ s + (3 - 1) = s + 2 /\ s + (4 - 1) = s + 3 /\ s + (5 - 1) = s + 4 /\ s + (6 - 1) = s + 5
    BY <1>1
  <2>3. CASE i = 1
    BY <1>1, <2>2, <2>3
  <2>4. CASE i = 2
    BY <1>6, <2>2, <2>4
  <2>5. CASE i = 3
    BY <1>7, <2>2, <2>5
  <2>6. CASE i = 4
    BY <1>8, <2>2, <2>6
  <2>7. CASE i = 5
    BY <1>9, <2>2, <2>7
  <2>8. CASE i = 6
    BY <1>10, <2>2, <2>8
  <2> QED BY <2>1, <2>3, <2>4, <2>5, <2>6, <2>7, <2>8
<1>12. After(d[6]) = m[7] /\ Spans(f, m[7], q, ExtOf(c)) /\ m[7] \in Nat /\ m[7] \in 0..Len(f)
  <2>1. 6 \in 1..6 /\ 6 + 1 = 7 /\ 7 \in 1..7
    OBVIOUS
  <2>2. After(d[6]) = m[6 + 1]
    BY <1>3, <2>1
  <2>3. m[7] \in Nat /\ m[7] \in 0..Len(f)
    BY <1>2, <2>1
  <2> QED BY <2>1, <2>2, <2>3 DEF Laid
<1>13. ASSUME c.version PROVE \E x : Has(w, s + 6, x) /\ ReadAs(f, m[7], q, x, EXTENSIONS, Tlv(c.form, SEQ, ExtAll(c)))
  <2>1. ExtOf(c) = Tlv(1, EXTENSIONS, Tlv(c.form, SEQ, ExtAll(c))) /\ Encoded(Tlv(c.form, SEQ, ExtAll(c)))
    <3>1. ExtOf(c) = Extensions(c)
      BY <1>13 DEF ExtOf
    <3> QED BY <3>1, EncExtensions DEF Short
  <2>2. PICK x : ReadAs(f, m[7], q, x, EXTENSIONS, Tlv(c.form, SEQ, ExtAll(c)))
    <3>1. 1 \in 1..3 /\ EXTENSIONS \in Byte
      BY Tags
    <3> QED BY <1>12, <2>1, <3>1, ReadBack
  <2>3. Has(Walk(f, o, q), (s + 5) + 1, x)
    <3>1. q \in q..Len(f)
      OBVIOUS
    <3>2. Has(Walk(f, o, q), s + 5, d[6])
      BY <1>10 DEF w
    <3> QED BY <1>12, <2>2, <3>1, <3>2, WalkGoesOn
  <2>4. Has(w, s + 6, x)
    BY <1>5, <2>3 DEF w
  <2> QED BY <2>2, <2>4
<1>14. ASSUME ~c.version PROVE s + 6 \notin DOMAIN w
  <2>1. m[7] = q
    <3>1. ExtOf(c) = <<>>
      BY <1>14 DEF ExtOf
    <3>2. m[7] + Len(<<>>) = q
      BY <1>12, <3>1 DEF Spans
    <3> QED BY <1>12, <3>2
  <2>2. (s + 5) + 1 \notin DOMAIN Walk(f, o, q)
    <3>1. After(d[6]) = q /\ Has(Walk(f, o, q), s + 5, d[6])
      BY <1>10, <1>12, <2>1 DEF w
    <3> QED BY <3>1, WalkStops
  <2> QED BY <1>5, <2>2 DEF w
<1>15. Row(f, q, c, w, m, d)
  BY <1>1, <1>11, <1>13, <1>14 DEF Row, s
<1> QED BY <1>15 DEF w

LEMMA FieldIs ==
  ASSUME NEW w, NEW k \in Nat
  PROVE  field_of(w, k) = IF SerialOf(w) + k \in DOMAIN w THEN w[SerialOf(w) + k] ELSE Missing
<1> DEFINE s == SerialOf(w)
           V == w # <<>> /\ Head(w).tag = VERSION
           i == IF V THEN k + 2 ELSE k + 1
<1>1. field_of(w, k) = IF i \in DOMAIN w THEN w[i] ELSE Missing
  BY Zenon DEF field_of
<1>2. s = IF V THEN 2 ELSE 1
  BY Zenon DEF SerialOf
<1> HIDE DEF V
<1>3. i = s + k
  <2> HIDE DEF s
  <2> QED BY <1>2
<1> HIDE DEF s, i
<1>4. field_of(w, k) = IF s + k \in DOMAIN w THEN w[s + k] ELSE Missing
  BY ONLY Zenon, <1>1, <1>3
<1> QED BY <1>4 DEF s

\* The part that is signed has a certificate's fields.
SignedIs(f, C, t, c, m, d) ==
  /\ Outer(f, C, t) /\ t.off \in 0..Len(f) /\ After(t) \in 0..Len(f)
  /\ Laid(f, t.off, After(t), c, m, d)
  /\ Row(f, After(t), c, Walk(f, t.off, After(t)), m, d)

LEMMA SignedRead ==
  ASSUME NEW f \in Seq(Byte), TwoBytes(Len(f)), NEW C, NEW t, Outer(f, C, t), NEW c \in Certs, Spans(f, C.off, After(t), Tbs(c))
  PROVE  \E m, d : SignedIs(f, C, t, c, m, d)
<1>1. /\ C.off \in Nat /\ After(t) \in 0..Len(f) /\ After(C) \in 0..Len(f) /\ After(t) <= After(C) /\ t.off \in 0..Len(f) /\ t.off \in Nat
      /\ After(t) \in Nat
  BY OuterFacts
<1>2. Tbs(c) = Tlv(c.form, SEQ, BodyOf(c)) /\ Encoded(BodyOf(c)) /\ c.form \in 1..3 /\ SEQ \in Byte
  BY EncBody, CertFacts, Tags
<1>3. PICK u : ReadAs(f, C.off, After(t), u, SEQ, BodyOf(c))
  BY <1>1, <1>2, ReadBack
<1>4. u = t
  <2>1. After(C) \in After(t)..Len(f)
    BY <1>1
  <2>2. der_elem(f, C.off, After(C)) = u
    BY <1>3, <2>1 DEF ReadAs
  <2> QED BY <2>2 DEF Outer
<1>5. Spans(f, t.off, After(t), BodyOf(c))
  BY <1>3, <1>4 DEF ReadAs
<1>6. PICK m, d : Laid(f, t.off, After(t), c, m, d)
  BY <1>1, <1>5, BodyLaid
<1>7. Row(f, After(t), c, Walk(f, t.off, After(t)), m, d)
  BY <1>1, <1>6, RowIs
<1> QED BY <1>1, <1>6, <1>7 DEF SignedIs

LEMMA FieldsRead ==
  ASSUME NEW f \in Seq(Byte), NEW C, NEW t, NEW c \in Certs, NEW m, NEW d, SignedIs(f, C, t, c, m, d)
  PROVE  /\ der_tbs_field(f, TBS_VALIDITY) = d[4]
         /\ c.version => ReadAs(f, m[7], After(t), der_tbs_field(f, TBS_EXTS), EXTENSIONS, Tlv(c.form, SEQ, ExtAll(c)))
         /\ ~c.version => der_tbs_field(f, TBS_EXTS) = Missing
<1> DEFINE w == Walk(f, t.off, After(t))
           s == SerialOf(w)
<1>1. der_tbs(f) = t
  BY DerTbsIs DEF SignedIs
<1>2. \A k \in Nat : der_tbs_field(f, k) = field_of(w, k)
  BY <1>1, Zenon DEF der_tbs_field
<1>3. \A k \in Nat : der_tbs_field(f, k) = IF s + k \in DOMAIN w THEN w[s + k] ELSE Missing
  BY <1>2, FieldIs
<1>4. Row(f, After(t), c, w, m, d)
  BY DEF SignedIs
<1> HIDE DEF w, s
<1>5. /\ s \in {1, 2}
      /\ \A i \in 1..6 : Has(w, s + (i - 1), d[i])
      /\ c.version => \E x : Has(w, s + 6, x) /\ ReadAs(f, m[7], After(t), x, EXTENSIONS, Tlv(c.form, SEQ, ExtAll(c)))
      /\ ~c.version => s + 6 \notin DOMAIN w
  BY <1>4 DEF Row, s
<1>6. TBS_VALIDITY = 3 /\ TBS_EXTS = 6
  BY DEF TBS_VALIDITY, TBS_EXTS
<1>7. der_tbs_field(f, TBS_VALIDITY) = d[4]
  <2>1. 4 \in 1..6 /\ s + (4 - 1) = s + 3 /\ 3 \in Nat
    BY <1>5
  <2>2. Has(w, s + 3, d[4])
    BY <1>5, <2>1
  <2> QED BY <1>3, <1>6, <2>1, <2>2 DEF Has
<1>8. ASSUME c.version PROVE ReadAs(f, m[7], After(t), der_tbs_field(f, TBS_EXTS), EXTENSIONS, Tlv(c.form, SEQ, ExtAll(c)))
  <2>1. PICK x : Has(w, s + 6, x) /\ ReadAs(f, m[7], After(t), x, EXTENSIONS, Tlv(c.form, SEQ, ExtAll(c)))
    BY <1>5, <1>8
  <2>2. 6 \in Nat
    OBVIOUS
  <2>3. der_tbs_field(f, TBS_EXTS) = x
    BY <1>3, <1>6, <2>1, <2>2 DEF Has
  <2> QED BY <2>1, <2>3
<1>9. ASSUME ~c.version PROVE der_tbs_field(f, TBS_EXTS) = Missing
  <2>1. 6 \in Nat
    OBVIOUS
  <2> QED BY <1>3, <1>5, <1>6, <1>9, <2>1
<1> QED BY <1>7, <1>8, <1>9

LEMMA KeyOfCert ==
  ASSUME NEW f \in Seq(Byte), TwoBytes(Len(f)), NEW C, NEW t, NEW c \in Certs, NEW m, NEW d, SignedIs(f, C, t, c, m, d)
  PROVE  /\ m[6] \in Nat /\ m[7] \in Nat /\ Spans(f, m[6], m[7], Spki(c.key))
         /\ KeyRead(f, m[6], m[7], c.key, x509_key_of(f))
<1> DEFINE e == element(f, Len(f), 0)
           u == element(f, Len(f), e.off)
           fields == Elements(f, u.off, After(u))
           serial == SerialOf(fields)
           at == After(fields[serial + 4])
           P == /\ e.tag = SEQ /\ u.tag = SEQ /\ Len(fields) >= serial + 4 /\ fields[serial].tag = INT
                /\ \A i \in serial + 1..serial + 4 : fields[i].tag = SEQ
           K == KeyAt(f, at, After(u))
<1>1. x509_key_of(f) = IF P THEN K ELSE NoKey
  BY Zenon DEF x509_key_of, SerialOf, TbsEnd
<1>2. Outer(f, C, t)
  BY DEF SignedIs
<1>3. /\ C.off \in Nat /\ After(t) \in 0..Len(f) /\ After(C) \in 0..Len(f) /\ After(t) <= After(C) /\ t.off \in 0..Len(f) /\ t.off \in Nat
      /\ After(t) \in Nat /\ t # Missing /\ Len(f) \in Nat /\ Len(f) \in 0..Len(f) /\ 0 \in Nat /\ After(C) <= Len(f)
  <2>1. Len(f) \in Nat
    OBVIOUS
  <2>2. After(C) \in 0..Len(f)
    BY <1>2, OuterFacts
  <2>3. After(C) <= Len(f) /\ Len(f) \in 0..Len(f)
    BY <2>1, <2>2
  <2> QED BY <1>2, <2>1, <2>3, OuterFacts
<1>4. e = C /\ e.tag = SEQ
  <2>1. e = der_elem(f, 0, Len(f))
    BY <1>3, SameWalker
  <2> HIDE DEF e
  <2> QED BY <1>2, <2>1 DEF Outer
<1> HIDE DEF e
<1>5. u = t /\ u.tag = SEQ
  <2>1. u = der_elem(f, C.off, Len(f))
    BY <1>3, <1>4, SameWalker
  <2>2. der_elem(f, C.off, After(C)) = t /\ t.tag = SEQ
    BY <1>2 DEF Outer
  <2>3. der_elem(f, C.off, Len(f)) = der_elem(f, C.off, After(C))
    BY <1>3, <2>2, Wider
  <2> HIDE DEF u
  <2> QED BY <2>1, <2>2, <2>3
<1> HIDE DEF u
<1> DEFINE w == Walk(f, t.off, After(t))
<1>6. fields = w
  <2>1. fields = Elements(f, t.off, After(t))
    BY <1>5
  <2> QED BY <1>3, <2>1, ElementsAre
<1>7. Row(f, After(t), c, w, m, d) /\ Laid(f, t.off, After(t), c, m, d) /\ w \in Seq(Elem(t.off, After(t)))
  BY <1>3, WalkFirst DEF SignedIs
<1> HIDE DEF w, fields
<1>8. serial \in {1, 2} /\ \A i \in 1..6 : Has(fields, serial + (i - 1), d[i])
  BY <1>6, <1>7 DEF Row
<1> HIDE DEF serial
<1>9. /\ d[1].tag = INT /\ d[2].tag = SEQ /\ d[3].tag = SEQ /\ d[4].tag = SEQ /\ d[5].tag = SEQ
      /\ Spans(f, m[6], m[7], Spki(c.key))
  BY <1>7 DEF Laid, ReadAs
<1>10. /\ Has(fields, serial, d[1]) /\ Has(fields, serial + 1, d[2]) /\ Has(fields, serial + 2, d[3]) /\ Has(fields, serial + 3, d[4])
       /\ Has(fields, serial + 4, d[5])
  <2>1. /\ serial + (1 - 1) = serial /\ serial + (2 - 1) = serial + 1 /\ serial + (3 - 1) = serial + 2 /\ serial + (4 - 1) = serial + 3
        /\ serial + (5 - 1) = serial + 4
    BY <1>8
  <2>2. 1 \in 1..6 /\ 2 \in 1..6 /\ 3 \in 1..6 /\ 4 \in 1..6 /\ 5 \in 1..6
    OBVIOUS
  <2>3. /\ Has(fields, serial + (1 - 1), d[1]) /\ Has(fields, serial + (2 - 1), d[2]) /\ Has(fields, serial + (3 - 1), d[3])
        /\ Has(fields, serial + (4 - 1), d[4]) /\ Has(fields, serial + (5 - 1), d[5])
    BY <1>8, <2>2
  <2> QED BY <2>1, <2>3
<1>11. P
  <2>1. Len(fields) >= serial + 4
    <3>1. serial + 4 \in DOMAIN fields /\ fields \in Seq(Elem(t.off, After(t)))
      BY <1>6, <1>7, <1>10 DEF Has
    <3>2. serial + 4 \in 1..Len(fields) /\ Len(fields) \in Nat
      BY <3>1
    <3> QED BY <1>8, <3>2
  <2>2. fields[serial].tag = INT
    BY <1>9, <1>10 DEF Has
  <2>3. ASSUME NEW i \in serial + 1..serial + 4 PROVE fields[i].tag = SEQ
    <3>1. i = serial + 1 \/ i = serial + 2 \/ i = serial + 3 \/ i = serial + 4
      BY <1>8
    <3>2. /\ fields[serial + 1].tag = SEQ /\ fields[serial + 2].tag = SEQ /\ fields[serial + 3].tag = SEQ /\ fields[serial + 4].tag = SEQ
      BY <1>9, <1>10 DEF Has
    <3> QED BY <3>1, <3>2
  <2> QED BY <1>4, <1>5, <2>1, <2>2, <2>3
<1>12. at = m[6]
  <2>1. fields[serial + 4] = d[5]
    BY <1>10 DEF Has
  <2>2. After(d[5]) = m[6]
    <3>1. 5 \in 1..6 /\ 5 + 1 = 6
      OBVIOUS
    <3>2. \A i \in 1..6 : After(d[i]) = m[i + 1]
      BY <1>3, <1>7, LaidInOrder
    <3> QED BY <3>1, <3>2
  <2> QED BY <2>1, <2>2
<1>13. m[6] \in Nat /\ m[7] \in Nat /\ m[7] \in 0..Len(f) /\ After(t) \in m[7]..Len(f)
  <2>1. 6 \in 1..7 /\ 7 \in 1..7
    OBVIOUS
  <2> QED BY <1>3, <1>7, <2>1, LaidInOrder
<1> HIDE DEF P, at
<1>14. x509_key_of(f) = KeyAt(f, m[6], After(t))
  BY <1>1, <1>5, <1>11, <1>12
<1>15. KeyRead(f, m[6], m[7], c.key, KeyAt(f, m[6], After(t)))
  <2>1. c.key \in Keys
    BY CertFacts
  <2> QED BY <1>9, <1>13, <2>1, KeyAtRead
<1> QED BY <1>9, <1>13, <1>14, <1>15

\* These bytes are an identifier's, so long.
Begins(x, want, len) == Len(x) = len /\ \A i \in 1..Len(want) : x[i] = want[i]

LEMMA OidTest ==
  ASSUME NEW f \in Seq(Byte), NEW o, o.off \in Nat, o.tag = OID, NEW x \in Seq(Byte), o.len = Len(x), NEW q, Spans(f, o.off, q, x),
         NEW want \in Seq(Byte), NEW len \in Nat, Len(want) <= len
  PROVE  der_oid_is(f, o, want, len) <=> Begins(x, want, len)
<1> DEFINE p == o.off
           n == Len(want)
           u == Cut(f, p, n)
<1>1. der_oid_is(f, o, want, len) <=> Len(x) = len /\ u = want
  BY DEF der_oid_is
<1>2. ASSUME Len(x) = len PROVE u = want <=> \A i \in 1..n : x[i] = want[i]
  <2>1. p \in Nat /\ n \in Nat /\ Len(x) \in Nat /\ p + Len(x) <= Len(f) /\ (\A i \in 1..Len(x) : f[p + i] = x[i]) /\ n <= Len(x)
        /\ Len(f) \in Nat
    BY <1>2 DEF Spans, Found
  <2> HIDE DEF p, n
  <2>2. p + n <= Len(f)
    BY <2>1
  <2>3. u \in Seq(Byte) /\ Len(u) = n /\ \A i \in 1..n : u[i] = f[p + i]
    BY <2>1, <2>2, CutIs
  <2>4. \A i \in 1..n : u[i] = x[i]
    <3> SUFFICES ASSUME NEW i \in 1..n PROVE u[i] = x[i]
      OBVIOUS
    <3>1. i \in 1..Len(x)
      BY <2>1
    <3> QED BY <2>1, <2>3, <3>1
  <2>5. want \in Seq(Byte) /\ Len(want) = n
    BY DEF n
  <2> HIDE DEF u
  <2>6. u = want <=> \A i \in 1..n : u[i] = want[i]
    BY <2>3, <2>5
  <2> QED BY <2>4, <2>6
<1> HIDE DEF u
<1>3. Len(x) = len /\ u = want <=> Len(x) = len /\ \A i \in 1..n : x[i] = want[i]
  BY <1>2
<1> QED BY <1>1, <1>3 DEF n, Begins

\* Which algorithm it is, by its identifier.
LEMMA AlgIs ==
  ASSUME NEW f \in Seq(Byte), NEW o, o.off \in Nat, o.tag = OID, NEW c \in Certs, o.len = Len(AlgOid(c)), NEW q, Spans(f, o.off, q, AlgOid(c))
  PROVE  /\ der_oid_is(f, o, OidRsaSha256, Len(OidRsaSha256)) <=> c.alg = "RSA_SHA256"
         /\ der_oid_is(f, o, OidEcdsaSha2, Len(OidEcdsaSha2) + 1) <=> c.alg = "ECDSA"
<1>1. PICK r \in Seq(Byte) : r = OidRsaSha256
  BY OidBytes
<1>2. PICK e \in Seq(Byte) : e = OidEcdsaSha2
  BY OidBytes
<1>3. PICK x \in Seq(Byte) : x = AlgOid(c)
  BY AlgorithmIs
<1> DEFINE l == Len(r)
           k == Len(e)
           R == der_oid_is(f, o, OidRsaSha256, Len(OidRsaSha256))
           E == der_oid_is(f, o, OidEcdsaSha2, Len(OidEcdsaSha2) + 1)
<1>4. l \in Nat /\ k \in Nat /\ k + 1 \in Nat /\ l <= l /\ k <= k + 1
  OBVIOUS
<1>5. R <=> Len(x) = l /\ \A i \in 1..l : x[i] = r[i]
  <2>1. R <=> der_oid_is(f, o, r, l)
    BY <1>1
  <2>2. o.len = Len(x) /\ Spans(f, o.off, q, x) /\ Len(r) = l /\ Len(r) <= l /\ l \in Nat
    BY <1>3, <1>4
  <2>4. f \in Seq(Byte) /\ o.off \in Nat /\ o.tag = OID /\ x \in Seq(Byte) /\ r \in Seq(Byte)
    OBVIOUS
  <2> HIDE DEF R, E, l, k
  <2>3. der_oid_is(f, o, r, l) <=> Begins(x, r, l)
    BY ONLY <2>2, <2>4, OidTest
  <2> QED BY ONLY <2>1, <2>2, <2>3 DEF Begins
<1>6. E <=> Len(x) = k + 1 /\ \A i \in 1..k : x[i] = e[i]
  <2>1. E <=> der_oid_is(f, o, e, k + 1)
    BY <1>2
  <2>2. o.len = Len(x) /\ Spans(f, o.off, q, x) /\ Len(e) = k
    BY <1>3
  <2> DEFINE n == k + 1
  <2>4. n \in Nat /\ Len(e) <= n
    BY <1>4
  <2>5. f \in Seq(Byte) /\ o.off \in Nat /\ o.tag = OID /\ x \in Seq(Byte) /\ e \in Seq(Byte)
    OBVIOUS
  <2> HIDE DEF R, E, l, k, n
  <2>3. der_oid_is(f, o, e, n) <=> Begins(x, e, n)
    BY ONLY <2>2, <2>4, <2>5, OidTest
  <2> QED BY ONLY <2>1, <2>2, <2>3 DEF n, Begins
<1>7. PICK i \in Nat : i \in 1..l /\ i \in 1..k /\ r[i] # e[i]
  <2>1. \E i \in DOMAIN r \cap DOMAIN e : r[i] # e[i]
    BY <1>1, <1>2, OidsAssumption
  <2>2. DOMAIN r = 1..l /\ DOMAIN e = 1..k
    OBVIOUS
  <2> HIDE DEF l, k
  <2>3. PICK i \in DOMAIN r \cap DOMAIN e : r[i] # e[i]
    BY ONLY <2>1
  <2>4. i \in 1..l /\ i \in 1..k
    BY ONLY <2>2, <2>3
  <2>5. i \in Nat
    BY ONLY <2>4
  <2> QED BY ONLY <2>3, <2>4, <2>5
<1>8. CASE c.alg = "RSA_SHA256"
  <2>1. x = r
    BY <1>1, <1>3, <1>8 DEF AlgOid
  <2>2. R /\ ~E
    BY <1>5, <1>6, <1>7, <2>1
  <2> QED BY <1>8, <2>2
<1>9. CASE c.alg = "ECDSA"
  <2>1. x = e \o <<2>> /\ <<2>> \in Seq(Byte) /\ Len(<<2>>) = 1
    BY <1>2, <1>3, <1>9, Numbers, EncOne DEF AlgOid
  <2>2. Len(x) = k + 1 /\ \A j \in 1..k : x[j] = e[j]
    BY <2>1, Joined
  <2>3. E /\ ~R
    BY <1>5, <1>6, <1>7, <2>2
  <2> QED BY <1>9, <2>3
<1>10. CASE c.alg = "UNKNOWN"
  <2>1. x = r \o <<1>> /\ <<1>> \in Seq(Byte) /\ Len(<<1>>) = 1
    BY <1>1, <1>3, <1>10, Numbers, EncOne DEF AlgOid
  <2>2. Len(x) = l + 1 /\ \A j \in 1..l : x[j] = r[j]
    BY <2>1, Joined
  <2>3. ~R
    BY <1>4, <1>5, <2>2
  <2>4. ~E
    BY <1>6, <1>7, <2>2
  <2> QED BY <1>10, <2>3, <2>4
<1> QED BY <1>8, <1>9, <1>10, CertFacts

\* What is found of a certificate: its parts and its key.
PartsRead(f, c) ==
  /\ chain_parts(f).ok /\ Content(f, chain_parts(f).tbs) = Tbs(c) /\ Content(f, chain_parts(f).sig) = Signature(c)
  /\ chain_parts(f).alg = c.alg
  /\ \E a, b \in Nat : KeyRead(f, a, b, c.key, x509_key_of(f))

LEMMA EncFile ==
  ASSUME NEW c \in Certs
  PROVE  /\ Encoded(Algorithm(c)) /\ Signature(c) \in Seq(Byte) /\ Len(Signature(c)) = 3 /\ Encoded(<<0>> \o Signature(c))
         /\ Len(<<0>> \o Signature(c)) = 4 /\ Encoded(Tbs(c) \o Algorithm(c))
         /\ Encoded(Tbs(c) \o Algorithm(c) \o Tlv(1, BITS, <<0>> \o Signature(c)))
         /\ File(c) = Tlv(c.form, SEQ, Tbs(c) \o Algorithm(c) \o Tlv(1, BITS, <<0>> \o Signature(c))) /\ Encoded(File(c))
<1>1. c.key.id \in Byte /\ c.by.id \in Byte /\ c.form \in 1..3 /\ SEQ \in Byte /\ BITS \in Byte /\ 1 \in 1..3
  BY CertFacts, KeyFacts, Tags
<1>2. Signature(c) \in Seq(Byte) /\ Len(Signature(c)) = 3
  BY <1>1, Numbers, EncThree DEF Signature
<1>3. <<0>> \o Signature(c) \in Seq(Byte) /\ Len(<<0>> \o Signature(c)) = 4
  <2>1. <<0>> \in Seq(Byte) /\ Len(<<0>>) = 1
    BY Numbers, EncOne
  <2>2. <<0>> \o Signature(c) \in Seq(Byte) /\ Len(<<0>> \o Signature(c)) = Len(<<0>>) + Len(Signature(c))
    BY <1>2, <2>1, ConcatByte
  <2> QED BY ONLY <1>2, <2>1, <2>2
<1>4. Encoded(<<0>> \o Signature(c))
  BY <1>3, EncodedBytes
<1>5. Encoded(Tlv(1, BITS, <<0>> \o Signature(c)))
  BY <1>1, <1>4, EncodedTlv
<1>6. Encoded(Algorithm(c)) /\ Encoded(Tbs(c))
  BY AlgorithmIs, EncBody
<1>7. Encoded(Tbs(c) \o Algorithm(c))
  BY <1>6, EncodedJoined
<1>8. Encoded(Tbs(c) \o Algorithm(c) \o Tlv(1, BITS, <<0>> \o Signature(c)))
  BY <1>5, <1>7, EncodedJoined
<1>9. File(c) = Tlv(c.form, SEQ, Tbs(c) \o Algorithm(c) \o Tlv(1, BITS, <<0>> \o Signature(c)))
  BY Zenon DEF File, Bits, Short
<1>10. Encoded(File(c))
  BY <1>1, <1>8, <1>9, EncodedTlv
<1> QED BY <1>2, <1>3, <1>4, <1>6, <1>7, <1>8, <1>9, <1>10

\* Of a certificate that was written, whatever it says and however its lengths
\* are, what is found is what was written (chain_parts in src/src/tls/chain.c,
\* x509_key_of in src/src/tls/x509.c).
THEOREM FileRead ==
  ASSUME NEW c \in Certs, NEW f, f = File(c), TwoBytes(Len(f))
  PROVE  f \in Seq(Byte) /\ PartsRead(f, c)
<1>1. f \in Seq(Byte)
  BY EncFile DEF Encoded
<1>2. Len(f) \in Nat /\ Len(f) \in 0..Len(f) /\ 0 \in Nat /\ Len(f) \in Len(f)..Len(f)
  BY <1>1
<1>3. Spans(f, 0, Len(f), f)
  BY <1>1, <1>2 DEF Spans, Found
<1> DEFINE sig == <<0>> \o Signature(c)
           two == Tbs(c) \o Algorithm(c)
           all == two \o Tlv(1, BITS, sig)
<1>4. /\ f = Tlv(c.form, SEQ, all) /\ Encoded(all) /\ Encoded(two) /\ Encoded(sig) /\ Encoded(Tbs(c)) /\ Encoded(Algorithm(c))
      /\ c.form \in 1..3 /\ SEQ \in Byte /\ BITS \in Byte /\ OID \in Byte /\ 1 \in 1..3 /\ Len(sig) = 4
  <2>1. f = Tlv(c.form, SEQ, all) /\ Encoded(all) /\ Encoded(two) /\ Encoded(sig) /\ Encoded(Algorithm(c)) /\ Len(sig) = 4
    <3>1. /\ Encoded(<<0>> \o Signature(c)) /\ Len(<<0>> \o Signature(c)) = 4
      BY EncFile
    <3>2. Encoded(Algorithm(c)) /\ Encoded(Tbs(c) \o Algorithm(c))
      BY EncFile
    <3>3. /\ Encoded(Tbs(c) \o Algorithm(c) \o Tlv(1, BITS, <<0>> \o Signature(c)))
          /\ File(c) = Tlv(c.form, SEQ, Tbs(c) \o Algorithm(c) \o Tlv(1, BITS, <<0>> \o Signature(c)))
      BY EncFile
    <3> QED BY Zenon, <3>1, <3>2, <3>3 DEF all
  <2>2. /\ c.form \in 1..3 /\ SEQ \in Byte /\ BITS \in Byte /\ OID \in Byte /\ 1 \in 1..3 /\ Encoded(Tbs(c))
    <3>1. Encoded(Tbs(c))
      BY EncBody
    <3>2. c.form \in 1..3
      BY CertFacts
    <3> QED BY <3>1, <3>2, Tags
  <2> HIDE DEF all, two, sig
  <2> QED BY ONLY <2>1, <2>2
<1> HIDE DEF all
<1>5. PICK C : ReadAs(f, 0, Len(f), C, SEQ, all)
  BY <1>1, <1>2, <1>3, <1>4, ReadBack
<1>6. der_elem(f, 0, Len(f)) = C /\ After(C) = Len(f) /\ C.tag = SEQ /\ C.off \in Nat /\ Spans(f, C.off, Len(f), all) /\ C \in Elem(0, Len(f))
  BY <1>1, <1>2, <1>5, ReadsFacts
<1>7. PICK m2 \in 0..Len(f) : \E x : m2 >= C.off /\ m2 <= Len(f) /\ Spans(f, C.off, m2, two) /\ ReadAs(f, m2, Len(f), x, BITS, sig)
  <2>1. Spans(f, C.off, Len(f), two \o Tlv(1, BITS, sig))
    BY <1>6 DEF all
  <2> HIDE DEF two, sig
  <2> QED BY <1>1, <1>2, <1>4, <1>6, <2>1, LastRead
<1>8. PICK s : ReadAs(f, m2, Len(f), s, BITS, sig)
  BY <1>7
<1>9. PICK m1 \in Nat : m1 >= C.off /\ m1 <= m2 /\ m1 \in 0..Len(f) /\ Spans(f, C.off, m1, Tbs(c)) /\ Spans(f, m1, m2, Algorithm(c))
  BY <1>1, <1>4, <1>6, <1>7, SpansJoined
<1>10. PICK t : ReadAs(f, C.off, m1, t, SEQ, BodyOf(c))
  <2>1. Tbs(c) = Tlv(c.form, SEQ, BodyOf(c)) /\ Encoded(BodyOf(c))
    BY EncBody
  <2> QED BY <1>1, <1>4, <1>6, <1>9, <2>1, ReadBack
<1> DEFINE al == Short(OID, AlgOid(c)) \o <<5, 0>>
<1>11. PICK a : ReadAs(f, m1, m2, a, SEQ, al)
  <2>1. Algorithm(c) = Tlv(1, SEQ, al) /\ Encoded(al)
    BY AlgorithmIs DEF Short
  <2> HIDE DEF al
  <2> QED BY <1>1, <1>4, <1>9, <2>1, ReadBack
<1>12. m1 \in Nat /\ m2 \in Nat /\ Len(f) \in m1..Len(f) /\ Len(f) \in m2..Len(f)
  <2>1. m2 \in Nat /\ m2 <= Len(f) /\ m1 <= Len(f)
    BY <1>2, <1>7, <1>9
  <2> QED BY <1>2, <1>9, <2>1
<1>13. /\ der_elem(f, C.off, Len(f)) = t /\ t.tag = SEQ /\ t # Missing /\ After(t) = m1
  BY <1>1, <1>6, <1>9, <1>10, <1>12, ReadsFacts
<1>14. /\ der_elem(f, m1, Len(f)) = a /\ a.tag = SEQ /\ After(a) = m2 /\ a.off \in Nat /\ Spans(f, a.off, m2, al)
  BY <1>1, <1>7, <1>11, <1>12, ReadsFacts
<1>15. /\ der_elem(f, m2, Len(f)) = s /\ s.tag = BITS /\ s.len = 4 /\ s.off \in Nat /\ Spans(f, s.off, Len(f), sig)
  <2>1. /\ der_elem(f, m2, Len(f)) = s /\ s.tag = BITS /\ s.len = Len(sig) /\ s.off \in Nat /\ Spans(f, s.off, Len(f), sig)
    <3> HIDE DEF sig
    <3> QED BY <1>1, <1>2, <1>8, <1>12, ReadsFacts
  <2> QED BY <1>4, <2>1
<1>16. PICK m3 \in Nat : m3 >= a.off /\ m3 <= m2 /\ m3 \in 0..Len(f) /\ Spans(f, a.off, m3, Short(OID, AlgOid(c))) /\ Spans(f, m3, m2, <<5, 0>>)
  BY <1>1, <1>7, <1>14, AlgorithmIs, SpansJoined
<1>17. PICK o : ReadAs(f, a.off, m3, o, OID, AlgOid(c))
  <2>1. Encoded(AlgOid(c))
    BY AlgorithmIs, EncodedBytes
  <2> QED BY <1>1, <1>4, <1>14, <1>16, <2>1, ReadBack DEF Short
<1>18. der_elem(f, a.off, Len(f)) = o /\ o.tag = OID /\ o.off \in Nat /\ o.len = Len(AlgOid(c)) /\ Spans(f, o.off, m3, AlgOid(c))
  <2>1. Len(f) \in m3..Len(f)
    BY <1>2, <1>12, <1>16
  <2> QED BY <1>1, <1>14, <1>16, <1>17, <2>1, ReadsFacts
<1>19. der_tbs(f) = t /\ Outer(f, C, t)
  <2>1. Outer(f, C, t)
    BY <1>1, <1>6, <1>13, OuterIs
  <2> QED BY <1>1, <2>1, DerTbsIs
<1>20. PICK n \in Nat : Spans(f, s.off, n, <<0>>) /\ Spans(f, n, Len(f), Signature(c))
  <2>1. Encoded(<<0>>) /\ Encoded(Signature(c))
    BY Numbers, EncOne, EncFile, EncodedBytes
  <2> QED BY <1>1, <1>2, <1>15, <2>1, SpansJoined
<1>21. n = s.off + 1 /\ f[s.off + 1] = 0
  <2>1. <<0>> \in Seq(Byte) /\ Len(<<0>>) = 1 /\ <<0>>[1] = 0
    BY Numbers, EncOne
  <2> DEFINE z == <<0>>
  <2>2. z \in Seq(Byte) /\ Len(z) = 1 /\ z[1] = 0 /\ Spans(f, s.off, n, z) /\ s.off \in Nat
    BY <1>15, <1>20, <2>1
  <2> HIDE DEF z
  <2>3. Len(z) >= 1 => f[s.off + 1] = z[1]
    BY <1>1, <2>2, SpansFirst
  <2>4. n = s.off + Len(z)
    BY <2>2 DEF Spans
  <2> QED BY <2>2, <2>3, <2>4
<1> HIDE DEF al, sig, two
<1> DEFINE R == der_oid_is(f, o, OidRsaSha256, Len(OidRsaSha256))
           E == der_oid_is(f, o, OidEcdsaSha2, Len(OidEcdsaSha2) + 1)
           alg == CASE R -> "RSA_SHA256" [] E -> "ECDSA" [] OTHER -> "UNKNOWN"
           good == t # Missing /\ a.tag = SEQ /\ o.tag = OID /\ s.tag = BITS /\ s.len >= 2 /\ f[s.off + 1] = 0
<1>22. chain_parts(f) = [ok |-> good, tbs |-> Range0(C.off, After(t) - C.off), alg |-> alg, sig |-> Range0(s.off + 1, s.len - 1)]
  <2> DEFINE CP(x, y, v, w, z) ==
        [ok |-> y # Missing /\ v.tag = SEQ /\ w.tag = OID /\ z.tag = BITS /\ z.len >= 2 /\ f[z.off + 1] = 0,
         tbs |-> Range0(x.off, After(y) - x.off),
         alg |-> CASE der_oid_is(f, w, OidRsaSha256, Len(OidRsaSha256)) -> "RSA_SHA256"
                   [] der_oid_is(f, w, OidEcdsaSha2, Len(OidEcdsaSha2) + 1) -> "ECDSA" [] OTHER -> "UNKNOWN",
         sig |-> Range0(z.off + 1, z.len - 1)]
  <2>1. chain_parts(f) = CP(der_elem(f, 0, Len(f)), der_tbs(f), der_elem(f, After(der_tbs(f)), After(der_elem(f, 0, Len(f)))),
                            der_elem(f, der_elem(f, After(der_tbs(f)), After(der_elem(f, 0, Len(f)))).off, After(der_elem(f, 0, Len(f)))),
                            der_elem(f, After(der_elem(f, After(der_tbs(f)), After(der_elem(f, 0, Len(f))))), After(der_elem(f, 0, Len(f)))))
    BY Zenon DEF chain_parts
  <2>2. chain_parts(f) = CP(C, t, a, o, s)
    <3>1. der_elem(f, 0, Len(f)) = C /\ After(C) = Len(f) /\ der_tbs(f) = t /\ After(t) = m1 /\ After(a) = m2
      BY <1>6, <1>13, <1>14, <1>19
    <3>2. der_elem(f, m1, Len(f)) = a /\ der_elem(f, m2, Len(f)) = s /\ der_elem(f, a.off, Len(f)) = o
      BY <1>14, <1>15, <1>18
    <3> HIDE DEF CP
    <3> QED BY ONLY <2>1, <3>1, <3>2
  <2> QED BY <2>2
<1>23. good
  BY <1>13, <1>14, <1>15, <1>18, <1>21
<1>24. (R <=> c.alg = "RSA_SHA256") /\ (E <=> c.alg = "ECDSA")
  BY <1>1, <1>18, AlgIs
<1> HIDE DEF R, E, good
<1>25. alg = c.alg
  BY <1>24, CertFacts
<1> HIDE DEF alg
<1>26. /\ chain_parts(f).ok /\ chain_parts(f).alg = c.alg /\ chain_parts(f).tbs = Range0(C.off, After(t) - C.off)
       /\ chain_parts(f).sig = Range0(s.off + 1, s.len - 1)
  BY <1>22, <1>23, <1>25
<1>27. Content(f, Range0(C.off, After(t) - C.off)) = Tbs(c)
  <2>1. Content(f, Range0(C.off, Len(Tbs(c)))) = Tbs(c) /\ Range0(C.off, m1 - C.off) = Range0(C.off, Len(Tbs(c)))
    BY <1>1, <1>4, <1>6, <1>9, SpansBytes
  <2> QED BY <1>13, <2>1
<1>28. Content(f, Range0(s.off + 1, s.len - 1)) = Signature(c)
  <2>1. Content(f, Range0(n, Len(Signature(c)))) = Signature(c) /\ Len(Signature(c)) = 3
    BY <1>1, <1>20, EncFile, SpansContent
  <2>2. s.len - 1 = 3
    BY <1>15
  <2> QED BY <1>21, <2>1, <2>2
<1>29. \E x, y \in Nat : KeyRead(f, x, y, c.key, x509_key_of(f))
  <2>1. Spans(f, C.off, After(t), Tbs(c))
    BY <1>9, <1>13
  <2>2. PICK m, d : SignedIs(f, C, t, c, m, d)
    BY <1>1, <1>19, <2>1, SignedRead
  <2> QED BY <1>1, <2>2, KeyOfCert
<1>30. PartsRead(f, c)
  BY <1>26, <1>27, <1>28, <1>29 DEF PartsRead
<1> QED BY <1>1, <1>30
=============================================================================

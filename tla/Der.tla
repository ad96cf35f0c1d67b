--------------------------------- MODULE Der ---------------------------------
(***************************************************************************)
(* The certificate's bytes as the client walks them: the DER walker of     *)
(* src/src/tls/der.c, what it finds of a certificate's parts               *)
(* (src/src/tls/chain.c), and the second walker of src/src/tls/x509.c,     *)
(* which finds its key.  Nothing is decoded or copied: a part is an offset *)
(* and a length.                                                           *)
(*                                                                         *)
(* A file is a sequence of bytes, offsets count from zero, and the object  *)
(* identifiers are shorter than the real ones.                             *)
(***************************************************************************)
EXTENDS Integers, Sequences

CONSTANTS
  OidRsa, OidEc, OidP256, OidEd25519,  \* of keys and a curve
  OidRsaSha256, OidEcdsaSha2,          \* of signatures; the second is a family's
  OidSan,                              \* of the extension with the names
  P256Len, Ed25519Len                  \* 65 and 32, bytes of a key's bits

Byte == 0..255

BOOL == 1
INT == 2
BITS == 3
OCTETS == 4
OID == 6
UTCTIME == 23
GENERALIZED == 24
SEQ == 48
DNS == 130
VERSION == 160
EXTENSIONS == 163

Missing == [tag |-> -1, off |-> 0, len |-> 0]

After(d) == d.off + d.len
Cut(f, off, len) == SubSeq(f, off + 1, off + len)
Content(f, d) == Cut(f, d.off, d.len)
Range0(off, len) == [off |-> off, len |-> len]

-----------------------------------------------------------------------------
(* der.c *)

\* What a head's second byte says of its own length, and, with the two behind
\* it, of the content's.
HeadLen(form) == IF form < 128 THEN 2 ELSE form - 126
ContentLen(form, next, last) == IF form < 128 THEN form ELSE IF form = 129 THEN next ELSE (next * 256) + last

\* A byte of a head, if it is before the end.
ByteAt(f, end, i) == IF i < end THEN f[i + 1] ELSE 0

\* The element at an offset, whole before end: its tag and where its content
\* is.  A length takes one byte, or two or three; a longer one is refused.
der_elem(f, at, end) ==
  LET form == ByteAt(f, end, at + 1)
      n == ContentLen(form, ByteAt(f, end, at + 2), ByteAt(f, end, at + 3))
  IN  IF at + 2 <= end /\ form \in 0..127 \cup {129, 130} /\ at + HeadLen(form) + n <= end
        THEN [tag |-> f[at + 1], off |-> at + HeadLen(form), len |-> n]
        ELSE Missing

der_tbs(f) ==
  LET c == der_elem(f, 0, Len(f))
      t == der_elem(f, c.off, After(c))
  IN  IF c.tag = SEQ /\ t.tag = SEQ THEN t ELSE Missing

\* The elements one after another from an offset on, where step has what is at
\* each.
Along(step) ==
  LET from[p \in DOMAIN step] ==
        IF step[p] = Missing THEN <<>> ELSE <<step[p]>> \o from[After(step[p])]
  IN  from

\* The elements up to end, as far as they are whole.
Walk(f, at, end) == Along([p \in 0..Len(f) |-> der_elem(f, p, end)])[at]

TBS_VALIDITY == 3
TBS_EXTS == 6

\* The field so many after the serial number, whatever the ones between are.
field_of(fields, want) ==
  LET i == IF fields # <<>> /\ Head(fields).tag = VERSION THEN want + 2 ELSE want + 1
  IN  IF i \in DOMAIN fields THEN fields[i] ELSE Missing

der_tbs_field(f, want) ==
  LET t == der_tbs(f) IN field_of(Walk(f, t.off, After(t)), want)

der_oid_is(f, o, want, len) ==
  o.tag = OID /\ o.len = len /\ Cut(f, o.off, Len(want)) = want

\* The certificates of a store, one after another, as many as are asked for.
chain_split(s, max) ==
  LET all == Walk(s, 0, Len(s))
      n == CHOOSE k \in 0..max :
             /\ k <= Len(all) /\ \A i \in 1..k : all[i].tag = SEQ
             /\ k = max \/ k = Len(all) \/ all[k + 1].tag # SEQ
      start(i) == IF i = 1 THEN 0 ELSE After(all[i - 1])
  IN  [i \in 1..n |-> SubSeq(s, start(i) + 1, After(all[i]))]

-----------------------------------------------------------------------------
(* chain.c: what is signed, by what algorithm, and the signature *)

chain_parts(f) ==
  LET c == der_elem(f, 0, Len(f))
      t == der_tbs(f)
      a == der_elem(f, After(t), After(c))
      o == der_elem(f, a.off, After(c))
      s == der_elem(f, After(a), After(c))
  IN  [ok  |-> t # Missing /\ a.tag = SEQ /\ o.tag = OID
                 /\ s.tag = BITS /\ s.len >= 2 /\ f[s.off + 1] = 0,
       tbs |-> Range0(c.off, After(t) - c.off),
       alg |-> CASE der_oid_is(f, o, OidRsaSha256, Len(OidRsaSha256)) -> "RSA_SHA256"
                 [] der_oid_is(f, o, OidEcdsaSha2, Len(OidEcdsaSha2) + 1) -> "ECDSA"
                 [] OTHER -> "UNKNOWN",
       sig |-> Range0(s.off + 1, s.len - 1)]

-----------------------------------------------------------------------------
(* x509.c: the key *)

\* The same walk, bounded by a length of the file.
element(f, len, off) ==
  IF off + 2 > len THEN Missing
  ELSE LET form == f[off + 2]
           n == ContentLen(form, ByteAt(f, len, off + 2), ByteAt(f, len, off + 3))
       IN  IF (form >= 128 /\ form \notin {129, 130}) \/ off + HeadLen(form) + n > len THEN Missing
           ELSE [tag |-> f[off + 1], off |-> off + HeadLen(form), len |-> n]

\* An INTEGER's content without its leading zeros.
integer(f, d) ==
  LET zeros == {k \in 0..d.len - 1 : \A j \in 1..k : f[d.off + j] = 0}
      k == CHOOSE z \in zeros : \A y \in zeros : y <= z
  IN  IF d.len = 0 THEN Range0(d.off, 0) ELSE Range0(d.off + k, d.len - k)

NoKey == [kind |-> "NONE"]

\* Mutant: the walk goes on past the TBSCertificate, to the certificate's end.
TbsEnd_certificate(f, t) == Len(f)

TbsEnd(f, t) == After(t)

\* The elements one after another, as the other walker finds them.
Elements(f, at, end) == Along([p \in 0..Len(f) |-> element(f, end, p)])[at]

\* What the bits hold, by the algorithm they are said to be for.
KeyOf(f, end, spki, oid, bits) ==
  LET curve == element(f, end, After(oid))
      rsa == element(f, end, bits.off + 1)
      n == element(f, end, rsa.off)
      e == element(f, end, After(n))
      key(kind) == [kind |-> kind, spki |-> spki, n |-> integer(f, n), e |-> integer(f, e), bits |-> bits]
      algorithm == Content(f, oid)
  IN  CASE /\ algorithm = OidEc /\ curve.tag = OID /\ Content(f, curve) = OidP256
           /\ bits.len = P256Len + 1 /\ f[bits.off + 2] = 4 -> key("P256")
        [] algorithm = OidEd25519 /\ bits.len = Ed25519Len + 1 -> key("ED25519")
        [] algorithm = OidRsa /\ rsa.tag = SEQ /\ n.tag = INT /\ e.tag = INT -> key("RSA")
        [] OTHER -> NoKey

\* The SubjectPublicKeyInfo at an offset.
KeyAt(f, at, end) ==
  LET spki == element(f, end, at)
      alg == element(f, end, spki.off)
      oid == element(f, end, alg.off)
      bits == element(f, end, After(alg))
  IN  IF /\ spki.tag = SEQ /\ alg.tag = SEQ /\ oid.tag = OID
         /\ bits.tag = BITS /\ bits.len >= 2 /\ f[bits.off + 1] = 0
        THEN KeyOf(f, end, Range0(at, After(spki) - at), oid, bits)
        ELSE NoKey

\* Behind the serial number and four more: signature, issuer, validity, subject.
x509_key_of(f) ==
  LET c == element(f, Len(f), 0)
      t == element(f, Len(f), c.off)
      fields == Elements(f, t.off, TbsEnd(f, t))
      serial == IF fields # <<>> /\ Head(fields).tag = VERSION THEN 2 ELSE 1
  IN  IF /\ c.tag = SEQ /\ t.tag = SEQ /\ Len(fields) >= serial + 4 /\ fields[serial].tag = INT
         /\ \A i \in serial + 1..serial + 4 : fields[i].tag = SEQ
        THEN KeyAt(f, After(fields[serial + 4]), TbsEnd(f, t))
        ELSE NoKey
=============================================================================

----------------------------- MODULE Certificates -----------------------------
(***************************************************************************)
(* What the program reads but does not write: an authority's certificates, *)
(* each a record of what it says and the bytes that say it.  External: a   *)
(* certificate is made as X.509 has it, in any of the forms of DER's       *)
(* lengths the walker takes.                                               *)
(*                                                                         *)
(* A certificate c has a key and the key that signed it (c.key, c.by: a    *)
(* kind, "NONE" for one the client does not know, and a number), the       *)
(* algorithm it was signed with (c.alg), the names it is for (c.names) and *)
(* where among the extensions they stand (c.san), its dates (c.from,       *)
(* c.till: year to second), and how it is written: c.version when it says  *)
(* its version, c.form the bytes of a long length.                         *)
(***************************************************************************)
EXTENDS Der

Keys == [kind : {"RSA", "P256", "ED25519", "NONE"}, id : Byte]
Dates == {d \in Seq(0..2099) : Len(d) = 6 /\ d[1] >= 2000 /\ \A i \in 2..6 : d[i] <= 99}
Certs ==
  [key : Keys, by : Keys, alg : {"RSA_SHA256", "ECDSA", "UNKNOWN"}, names : Seq(Seq(Byte)),
   san : {"first", "later", "critical", "none"}, from : Dates, till : Dates, version : BOOLEAN, form : 1..3]

OidOther == <<4, 9>>

\* The object identifiers are bytes, and no two can be taken for one another.
ASSUME OidsAssumption ==
  /\ {OidRsa, OidEc, OidP256, OidEd25519, OidRsaSha256, OidEcdsaSha2, OidSan} \subseteq Seq(Byte)
  /\ OidSan # OidOther /\ OidRsa # OidEc /\ OidEc # OidEd25519 /\ OidEd25519 # OidRsa
  /\ OidRsa \o <<1>> \notin {OidEc, OidEd25519}
  /\ \E i \in DOMAIN OidRsaSha256 \cap DOMAIN OidEcdsaSha2 : OidRsaSha256[i] # OidEcdsaSha2[i]
  /\ P256Len \in Nat \ {0} /\ Ed25519Len \in Nat \ {0}

Length(form, n) ==
  IF form = 1 /\ n < 128 THEN <<n>>
  ELSE IF form <= 2 /\ n < 256 THEN <<129, n>> ELSE <<130, n \div 256, n % 256>>
Tlv(form, tag, content) == <<tag>> \o Length(form, Len(content)) \o content
Short(tag, content) == Tlv(1, tag, content)

Pair(v) == <<48 + (v \div 10), 48 + (v % 10)>>
Twelve(d) == [k \in 1..12 |-> Pair(d[(k + 1) \div 2] % 100)[((k + 1) % 2) + 1]]
Dated(d) ==
  IF d[1] < 2050 THEN Short(UTCTIME, Twelve(d) \o <<90>>)
  ELSE Short(GENERALIZED, Pair(d[1] \div 100) \o Twelve(d) \o <<90>>)

Modulus(key) == <<200, key.id>>
Exponent == <<3>>
Bits(bytes) == Short(BITS, <<0>> \o bytes)
KeyBits(key, n) == [k \in 1..n |-> IF k = 1 /\ key.kind = "P256" THEN 4 ELSE key.id]
Spki(key) ==
  LET alg(oid, rest) == Short(SEQ, Short(OID, oid) \o rest)
  IN  Short(SEQ, CASE key.kind = "RSA" -> alg(OidRsa, <<5, 0>>)
                        \o Bits(Short(SEQ, Short(INT, <<0>> \o Modulus(key)) \o Short(INT, Exponent)))
                   [] key.kind = "P256" -> alg(OidEc, Short(OID, OidP256)) \o Bits(KeyBits(key, P256Len))
                   [] key.kind = "ED25519" -> alg(OidEd25519, <<>>) \o Bits(KeyBits(key, Ed25519Len))
                   [] key.kind = "NONE" -> alg(OidRsa \o <<1>>, <<5, 0>>) \o Bits(<<key.id>>))

Algorithm(c) ==
  Short(SEQ, Short(OID, CASE c.alg = "RSA_SHA256" -> OidRsaSha256
                          [] c.alg = "ECDSA" -> OidEcdsaSha2 \o <<2>>
                          [] c.alg = "UNKNOWN" -> OidRsaSha256 \o <<1>>) \o <<5, 0>>)

Extension(form, oid, critical, value) ==
  Tlv(form, SEQ, Short(OID, oid) \o (IF critical THEN Short(BOOL, <<255>>) ELSE <<>>) \o Short(OCTETS, value))
NameList(names) ==
  LET list[k \in 0..Len(names)] ==
        IF k = 0 THEN Short(DNS - 1, <<97>>) ELSE list[k - 1] \o Short(DNS, names[k])
  IN  list
SanOf(c) == Extension(c.form, OidSan, c.san = "critical", Tlv(c.form, SEQ, NameList(c.names)[Len(c.names)]))
Extensions(c) ==
  LET other == Extension(1, OidOther, TRUE, Short(SEQ, Short(DNS, <<97>>)))
      all == CASE c.san = "none" -> other [] c.san = "later" -> other \o SanOf(c) [] OTHER -> SanOf(c) \o other
  IN  Short(EXTENSIONS, Tlv(c.form, SEQ, all))

NameOf(key) == Short(SEQ, <<key.id, 7>>)

\* What is signed, the signature, and the file.
Tbs(c) ==
  Tlv(c.form, SEQ, (IF c.version THEN Short(VERSION, Short(INT, <<2>>)) ELSE <<>>)
                   \o Short(INT, <<c.key.id>>) \o Algorithm(c) \o NameOf(c.by)
                   \o Short(SEQ, Dated(c.from) \o Dated(c.till)) \o NameOf(c.key)
                   \o Spki(c.key) \o (IF c.version THEN Extensions(c) ELSE <<>>))
Signature(c) == <<c.by.id, c.key.id, 9>>
File(c) == Tlv(c.form, SEQ, Tbs(c) \o Algorithm(c) \o Bits(Signature(c)))

\* What an authority with an RSA key did when it signed a certificate.
Signs(c) == <<Modulus(c.by), Exponent, Signature(c), Tbs(c)>>
=============================================================================

--------------------------------- MODULE Pss ---------------------------------
(***************************************************************************)
(* What a server's signature must open to: the padding of RSA-PSS          *)
(* (src/src/crypto/rsa.c), after the exponentiation that module Mp does.   *)
(***************************************************************************)
EXTENDS Limbs

CONSTANTS
  ByteBits,      \* 8
  HashLen,       \* 32, of the hash and of the salt
  Sha(_)         \* SHA-256 of a sequence of bytes

Xor(a, b) ==
  Value([k \in 1..ByteBits |-> (ToDigits(a, ByteBits, 2)[k] + ToDigits(b, ByteBits, 2)[k]) % 2], 2)

mgf1_xor(seed, out) ==
  [k \in DOMAIN out |->
     Xor(out[k], Sha(seed \o <<0, 0, 0, (k - 1) \div HashLen>>)[((k - 1) % HashLen) + 1])]

\* Mutant: what stands before the salt is not looked at.
pss_opens_unpadded(em, hash) ==
  LET dblen == Len(em) - HashLen - 1
      h == SubSeq(em, dblen + 1, dblen + HashLen)
      masked == mgf1_xor(h, SubSeq(em, 1, dblen))
  IN  /\ Len(em) >= (2 * HashLen) + 2
      /\ em[Len(em)] = 188 % (2^ByteBits)
      /\ Sha(Zeros(8) \o hash \o SubSeq(masked, dblen - HashLen + 1, dblen)) = h

\* The salt and what stands before it are masked; the highest bit is cleared,
\* not looked at.
pss_opens(em, hash) ==
  LET dblen == Len(em) - HashLen - 1
      h == SubSeq(em, dblen + 1, dblen + HashLen)
      masked == mgf1_xor(h, SubSeq(em, 1, dblen))
      db == [masked EXCEPT ![1] = @ % (2^(ByteBits - 1))]
  IN  /\ Len(em) >= (2 * HashLen) + 2
      /\ em[Len(em)] = 188 % (2^ByteBits)
      /\ \A i \in 1..dblen - HashLen - 1 : db[i] = 0
      /\ db[dblen - HashLen] = 1
      /\ Sha(Zeros(8) \o hash \o SubSeq(db, dblen - HashLen + 1, dblen)) = h
=============================================================================

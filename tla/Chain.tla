-------------------------------- MODULE Chain --------------------------------
(***************************************************************************)
(* Is this the server that was dialled?  The answer the bank gives once    *)
(* the handshake is done: the leaf's names and every certificate's dates   *)
(* (src/src/tls/policy.c), then each certificate's signature under the     *)
(* next one's key and the top's key among the anchors the client carries   *)
(* (src/src/tls/chain.c), over the store the engine filled                 *)
(* (src/src/bank/api.c, src/src/bank/chain_api.c), at the clock's time     *)
(* (src/src/clock.c).                                                      *)
(*                                                                         *)
(* A signature is ideal: it is good when the holder of the key made it.    *)
(* The arithmetic that decides it is modules Mp and Pss.                   *)
(***************************************************************************)
EXTENDS Der

CONSTANTS
  DNS_CAP, HostCap, TimeCap,     \* 128, 63 and 20 bytes
  CERT_CAP, CHAIN_MAX,           \* 5888 bytes of store, 5 certificates
  N_CAP, E_CAP, SIG_CAP,         \* 512, 8 and 512 bytes
  CLOCK_BUILT_YY,                \* two digits of the year of the build
  Signed,                        \* <<modulus, exponent, signature, what is signed>>
  Roots                          \* keys, as the bytes of a SubjectPublicKeyInfo

-----------------------------------------------------------------------------
(* clock.c: the time, or nothing *)

\* What the chip's registers hold.
Clocks == [yy : Byte, mm : Byte, dd : Byte, hh : Byte, mi : Byte, ss : Byte]

clock_plausible(d, min_yy) ==
  LET sum == (min_yy + 20) % 256
      hi == IF sum < min_yy THEN 99 ELSE sum
  IN  /\ d.mm \in 1..12 /\ d.dd \in 1..31 /\ d.hh <= 23 /\ d.mi <= 59 /\ d.ss <= 60
      /\ d.yy >= min_yy /\ d.yy <= hi

two(v) == <<48 + (v \div 10), 48 + (v % 10)>>

clock_format(d) == two(d.yy) \o two(d.mm) \o two(d.dd) \o two(d.hh) \o two(d.mi) \o two(d.ss)

NoTime == <<>>

\* The month and the day come from the chip as they are, the year from 1900.
read_clock(rtc) ==
  LET d == [rtc EXCEPT !.yy = (rtc.yy + 1900) % 100]
  IN  IF clock_plausible(d, CLOCK_BUILT_YY) THEN clock_format(d) ELSE NoTime

-----------------------------------------------------------------------------
(* policy.c: dates *)

\* Twelve digits, the century dropped where it is written.
time12(f, d) ==
  LET skip == IF d.tag = GENERALIZED THEN 2 ELSE 0
  IN  IF d.len <= TimeCap /\ d.len >= skip + 12 THEN Cut(f, d.off + skip, 12) ELSE NoTime

\* Mutant: equal digits decide as well as smaller ones.
NotAfter_any(a, b) == \E i \in DOMAIN a : a[i] <= b[i] /\ \A j \in 1..i - 1 : a[j] = b[j]

NotAfter(a, b) == \A i \in DOMAIN a : (\A j \in 1..i - 1 : a[j] = b[j]) => a[i] <= b[i]

dates_hold(f, from, till, now) ==
  LET nb == time12(f, from)
      na == time12(f, till)
  IN  /\ from # Missing /\ nb # NoTime /\ till # Missing /\ na # NoTime
      /\ NotAfter(nb, now) /\ NotAfter(now, na)

valid_at(f, v, now) ==
  LET from == der_elem(f, v.off, After(v))
  IN  v.tag = SEQ /\ dates_hold(f, from, der_elem(f, After(from), After(v)), now)

chain_valid_at(f, now) == valid_at(f, der_tbs_field(f, TBS_VALIDITY), now)

-----------------------------------------------------------------------------
(* policy.c: names *)

STAR == 42
DOT == 46
LowerCase(b) == IF b \in 65..90 THEN b + 32 ELSE b
SameName(a, b) == Len(a) = Len(b) /\ \A i \in DOMAIN a : LowerCase(a[i]) = LowerCase(b[i])

\* Mutant: the wildcard stands for any number of labels.
dns_matches_deep(dns, host) ==
  IF Len(dns) >= 2 /\ dns[1] = STAR /\ dns[2] = DOT
  THEN \E i \in DOMAIN host : SameName(SubSeq(dns, 2, Len(dns)), SubSeq(host, i, Len(host)))
  ELSE SameName(dns, host)

dns_matches(dns, host) ==
  IF Len(dns) >= 2 /\ dns[1] = STAR /\ dns[2] = DOT
  THEN \E i \in DOMAIN host :
         /\ host[i] = DOT /\ \A j \in 1..i - 1 : host[j] # DOT
         /\ SameName(SubSeq(dns, 2, Len(dns)), SubSeq(host, i, Len(host)))
  ELSE SameName(dns, host)

oid_of(f, x) == der_elem(f, x.off, After(x))
is_san(f, x) == der_oid_is(f, oid_of(f, x), OidSan, Len(OidSan))
AfterBool(f, v, end) == IF v.tag = BOOL THEN der_elem(f, After(v), end) ELSE v

AnyMatches(f, names, host) ==
  \E k \in DOMAIN names :
    /\ names[k].tag = DNS /\ names[k].len \in 1..DNS_CAP
    /\ dns_matches(Content(f, names[k]), host)

san_matches(f, value, host) ==
  LET list == der_elem(f, value.off, After(value))
  IN  value.tag = OCTETS /\ list.tag = SEQ /\ AnyMatches(f, Walk(f, list.off, After(list)), host)

\* The first subjectAltName decides; without one no name matches.
first_san_matches(f, exts, host) ==
  \E i \in DOMAIN exts :
    /\ \A j \in 1..i : exts[j].tag = SEQ /\ oid_of(f, exts[j]) # Missing
    /\ is_san(f, exts[i]) /\ \A j \in 1..i - 1 : ~is_san(f, exts[j])
    /\ san_matches(f, AfterBool(f, der_elem(f, After(oid_of(f, exts[i])), After(exts[i])), After(exts[i])), host)

chain_host_matches(f, host) ==
  LET e == der_tbs_field(f, TBS_EXTS)
      all == der_elem(f, e.off, After(e))
  IN  e.tag = EXTENSIONS /\ all.tag = SEQ /\ first_san_matches(f, Walk(f, all.off, After(all)), host)

\* No host and no time leave out their half of the check.
chain_policy(certs, host, now) ==
  CASE certs = <<>> -> "MALFORMED"
    [] certs # <<>> /\ host # <<>> /\ ~chain_host_matches(certs[1], host) -> "BAD_NAME"
    [] OTHER -> IF now # NoTime /\ \E i \in DOMAIN certs : ~chain_valid_at(certs[i], now)
                  THEN "EXPIRED" ELSE "OK"

-----------------------------------------------------------------------------
(* chain.c: signatures and the anchor *)

\* The child's parts p under the issuer's key.
chain_verify_link(child, p, issuer, key) ==
  /\ key.kind = "RSA" /\ key.n.len \in 1..N_CAP /\ key.e.len \in 1..E_CAP
  /\ p.ok /\ p.alg = "RSA_SHA256" /\ p.sig.len \in 1..SIG_CAP
  /\ << Content(issuer, key.n), Content(issuer, key.e),
        Content(child, p.sig), Content(child, p.tbs) >> \in Signed

roots_index(f, key) == Content(f, key.spki) \in Roots

\* What is wrong between a certificate, whose parts are p, and the next, whose
\* key is this, if anything is.
Link(child, p, issuer, key) ==
  CASE ~p.ok \/ p.alg = "UNKNOWN" -> "MALFORMED"
    [] p.ok /\ p.alg = "ECDSA" -> "UNSUPPORTED"
    [] p.ok /\ p.alg = "RSA_SHA256" ->
         CASE key = NoKey -> "MALFORMED"
           [] key # NoKey /\ ~chain_verify_link(child, p, issuer, key) -> "BAD_SIG"
           [] OTHER -> "OK"

Top(f, key) == IF key = NoKey THEN "MALFORMED" ELSE IF roots_index(f, key) THEN "OK" ELSE "NO_ANCHOR"

\* Mutant: the last signature is not checked.
Links_but_last(certs) == 1..Len(certs) - 2

Links(certs) == 1..Len(certs) - 1

\* The first that is not right.
Worst(results) ==
  CASE \A i \in DOMAIN results : results[i] = "OK" -> "OK"
    [] OTHER -> results[CHOOSE i \in DOMAIN results : results[i] # "OK" /\ \A j \in 1..i - 1 : results[j] = "OK"]

chain_verify(certs) ==
  LET keys == [i \in DOMAIN certs |-> x509_key_of(certs[i])]
      links == [i \in Links(certs) |-> Link(certs[i], chain_parts(certs[i]), certs[i + 1], keys[i + 1])]
  IN  IF certs = <<>> THEN "MALFORMED" ELSE Worst(links \o <<Top(certs[Len(certs)], keys[Len(certs)])>>)

-----------------------------------------------------------------------------
(* chain_api.c and api.c: the store and the call *)

ck_api_cert_reset == <<>>
ck_api_cert_append(store, piece) ==
  store \o (IF Len(store) + Len(piece) > CERT_CAP THEN SubSeq(piece, 1, CERT_CAP - Len(store)) ELSE piece)

Unless(wrong, next) == IF wrong # "OK" THEN wrong ELSE next

\* The name and the dates first, the arithmetic when they are right.
policy_and_verify(refs, host, now) == Unless(chain_policy(refs, host, now), chain_verify(refs))

ck_chain_run(store, host, now) == policy_and_verify(chain_split(store, CHAIN_MAX), host, now)

ck_api_chain(store, host, now) == ck_chain_run(store, SubSeq(host, 1, IF Len(host) < HostCap THEN Len(host) ELSE HostCap), now)
=============================================================================

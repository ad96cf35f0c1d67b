------------------------------- MODULE MCAttic -------------------------------
(* A ring of two rows under a count that wraps every four, two lines sent  *)
(* under one that wraps every four too, and two entries for people to      *)
(* ignore, one of whom has a name in two cases and a namesake too long for *)
(* an entry.                                                               *)
EXTENDS Attic, TLC

LowerCase == [n \in Nick |-> IF n = "BOB" THEN "bob" ELSE n]
FirstBytes == [n \in Nick |-> IF n = "bobby" THEN "bob" ELSE n]

Alike == Permutations(Row) \cup Permutations(Line)
=============================================================================

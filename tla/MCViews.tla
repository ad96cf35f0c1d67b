------------------------------- MODULE MCViews -------------------------------
(* Small instances of Views: #a and #A are one channel in two cases, bob and  *)
(* eve are people.                                                            *)
EXTENDS Views, TLC

Symmetry == Permutations(Row)

\* What the open views are, where, and which is showing.  The rows, stars and
\* scroll positions do not influence it, so states that differ only there are
\* one state of the run that asks about it.
OpenViews ==
  <<used, [v \in Slot |-> IF used[v] THEN name[v] ELSE StatusName],
    order, positions, view_active, saying>>

Identity == [n \in Name |-> n]
FoldCase == [n \in Name |-> IF n = "#A" THEN "#a" ELSE n]
=============================================================================

----------------------------- MODULE Scrollback -----------------------------
(***************************************************************************)
(* What the log promises the views (src/src/m65/log.h): the last Ring rows *)
(* of one view in the order they were logged, and a page of them on        *)
(* request, blank past the newest.  Attic implements it with a ring and    *)
(* two sixteen-bit counters; Views is built on it.                         *)
(***************************************************************************)
EXTENDS Naturals, Sequences

CONSTANTS
  Ring,    \* rows a view keeps (LOG_RING)
  Rows,    \* rows of the chat area, the largest page drawn (view_rows)
  Row,     \* contents a logged row can have
  Blank    \* a row of spaces

VARIABLES
  kept,    \* the rows on hand, oldest first
  page     \* the rows the last draw put on the screen

vars == <<kept, page>>

\* One more row; the oldest goes when the ring is full.
Logged(k, r) == IF Len(k) < Ring THEN Append(k, r) ELSE Append(Tail(k), r)

\* Rows top .. top + n - 1, counted from the oldest kept.
Page(k, top, n) == [p \in 1..n |-> IF top + p <= Len(k) THEN k[top + p] ELSE Blank]

Init == kept = <<>> /\ page = <<>>

Add(r) == kept' = Logged(kept, r) /\ UNCHANGED page

Clear == kept' = <<>> /\ UNCHANGED page

Draw(top, n) == page' = Page(kept, top, n) /\ UNCHANGED kept

Next ==
  \/ \E r \in Row : Add(r)
  \/ Clear
  \/ \E top \in 0..Ring, n \in 1..Rows : Draw(top, n)

Spec == Init /\ [][Next]_vars
=============================================================================

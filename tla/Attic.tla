-------------------------------- MODULE Attic --------------------------------
(***************************************************************************)
(* What the client keeps in attic RAM, one memory in the code and here:    *)
(* the ring of rows that is the scrollback of the first view               *)
(* (src/src/m65/log.c), and above it, with nothing between, the last lines *)
(* sent (hist_add and hist_recall of src/src/ircc.c) and the ignore list   *)
(* (src/src/m65/cmd.c).  The other views have a megabyte each of their own *)
(* and behave as the first does.                                           *)
(*                                                                         *)
(* Addresses count slots: a row, a line and a name take one each.          *)
(***************************************************************************)
EXTENDS Naturals, Sequences, FiniteSets

CONSTANTS
  Ring,      \* LOG_RING
  CountMod,  \* 2^16: total is a uint16_t
  Rows,      \* the largest page asked of log_draw
  Row,       \* contents a logged row can have
  Blank,     \* a row of spaces
  Noise,     \* what the attic holds at power-on
  HIST_MAX,
  HistMod,   \* 2^8: hist_count is an unsigned char
  Line,      \* lines that can be typed
  IGNORE_MAX,
  Nick,      \* names, in either case and of any length
  folded,    \* a name as same_ci compares it,
  stored,    \* ... and as much of it as an entry holds
  None       \* an empty entry, line or input

ASSUME AtticAssumption ==
  /\ Ring \in Nat \ {0}
  /\ Rows \in 1..Ring
  /\ CountMod \in Nat /\ CountMod > Ring
  /\ CountMod % Ring = 0   \* "65536 is a whole number of rings"
  /\ HIST_MAX \in Nat \ {0}
  /\ HistMod \in Nat /\ HistMod > HIST_MAX
  /\ HistMod % HIST_MAX = 0   \* "Eight is a power of two and divides 256"
  /\ IGNORE_MAX \in Nat \ {0}
  /\ folded \in [Nick -> Nick] /\ stored \in [Nick -> Nick]
  /\ \A n \in Nick : stored[stored[n]] = stored[n]   \* what is cut fits
  \* The case of a name does not change its length.
  /\ \A m, n \in Nick : folded[m] = folded[n] => (stored[m] = m <=> stored[n] = n)
  /\ Blank \notin Row /\ {Noise, None} \cap (Row \cup Line \cup Nick \cup {Blank}) = {}

VARIABLES
  mem,         \* the attic
  total,       \* rows ever logged, modulo CountMod
  have,        \* rows on hand
  page,        \* what the last log_draw put on the screen
  hist_count,  \* lines sent, modulo HistMod
  hist_at,     \* how far back the cursor keys are
  input,       \* what is being typed
  sent,        \* ghost: the lines sent this session, newest first, HIST_MAX of them
  told,        \* ghost: whom the user was last told to be ignoring
  cut          \* ghost: what was stored of names too long for an entry

rows == <<total, have, page>>
typing == <<hist_count, hist_at, input, sent>>
list == <<told, cut>>
vars == <<mem, rows, typing, list>>

HIST_BASE == Ring
IGNORE_BASE == HIST_BASE + HIST_MAX
Address == 0..(IGNORE_BASE + IGNORE_MAX - 1)

-----------------------------------------------------------------------------
(* The scrollback *)

slot(i) == i % Ring

\* Mutant: the rows on hand are not capped at the ring.
log_row_uncapped(r) ==
  /\ mem' = [mem EXCEPT ![slot(total)] = r]
  /\ total' = (total + 1) % CountMod
  /\ have' = (have + 1) % CountMod
  /\ UNCHANGED <<page, typing, list>>

log_row(r) ==
  /\ mem' = [mem EXCEPT ![slot(total)] = r]
  /\ total' = (total + 1) % CountMod
  /\ have' = IF have < Ring THEN have + 1 ELSE have
  /\ UNCHANGED <<page, typing, list>>

Cleared == total' = 0 /\ have' = 0

log_clear == Cleared /\ UNCHANGED <<mem, page, typing, list>>

\* The row number of row top counted from the oldest kept, in sixteen bits.
FirstDrawn(top) == (CountMod + total - have + top) % CountMod

\* Mutant: the oldest row kept is taken to be row zero.
log_draw_from_zero(top, n) ==
  /\ page' = [p \in 1..n |-> IF top + p <= have THEN mem[slot(top + p - 1)] ELSE Blank]
  /\ UNCHANGED <<mem, total, have, typing, list>>

log_draw(top, n) ==
  /\ page' = [p \in 1..n |->
                IF (top + p - 1) % CountMod < have
                  THEN mem[slot((FirstDrawn(top) + p - 1) % CountMod)]
                  ELSE Blank]
  /\ UNCHANGED <<mem, total, have, typing, list>>

-----------------------------------------------------------------------------
(* The ignore list *)

same_ci(a, b) == folded[a] = folded[b]

entry(i) == mem[IGNORE_BASE + i - 1]
Entries == 1..IGNORE_MAX
InUse == {i \in Entries : entry(i) # None}
FreeEntries == Entries \ InUse
Lowest(S) == CHOOSE i \in S : \A j \in S : i <= j

\* A message from who is dropped (cmd_said, whose sender is a person).
ignored(who) == \E i \in InUse : same_ci(entry(i), who)

\* Mutant: the walk over the entries ends at the first free one.
Matching_before_free(n) ==
  {i \in InUse : same_ci(entry(i), n) /\ \A j \in FreeEntries : i < j}

Matching(n) == {i \in InUse : same_ci(entry(i), n)}

\* One of the entries S set to x: address and value.
Entered(S, x) == [a \in {IGNORE_BASE + Lowest(S) - 1} |-> x]

\* /ignore n: there already, or no room, or entered as far as an entry holds it.
GetsEntry(n) == Matching(n) = {} /\ FreeEntries # {}
ignore_add(n) == IF GetsEntry(n) THEN Entered(FreeEntries, stored[n]) ELSE <<>>

\* /ignore -n: the first entry that matches is emptied.
ignore_remove(n) == IF Matching(n) # {} THEN Entered(Matching(n), None) ELSE <<>>

\* What the user is told.
Told(n) ==
  IF GetsEntry(n)
    THEN /\ told' = told \cup {folded[n]}
         /\ cut' = IF stored[n] = n THEN cut ELSE cut \cup {folded[stored[n]]}
    ELSE UNCHANGED list
Untold(n) ==
  /\ told' = IF Matching(n) # {} THEN told \ {folded[n]} ELSE told
  /\ UNCHANGED cut

-----------------------------------------------------------------------------
(* The lines sent *)

hist_slot(k) == HIST_BASE + (k % HIST_MAX)

hist_recall(back) ==
  /\ hist_at' = back
  /\ input' = IF back = 0 THEN None ELSE mem[hist_slot((HistMod + hist_count - back) % HistMod)]
  /\ UNCHANGED <<mem, rows, hist_count, sent, list>>

Recallable == IF hist_count < HIST_MAX THEN hist_count ELSE HIST_MAX

Up == hist_at < Recallable /\ hist_recall(hist_at + 1)
Down == hist_at > 0 /\ hist_recall(hist_at - 1)

\* The line becomes l, by typing, erasing or correcting what was recalled.
Type(l) ==
  /\ input' = l
  /\ UNCHANGED <<mem, rows, hist_count, hist_at, sent, list>>

Newest(s) == IF Len(s) > HIST_MAX THEN SubSeq(s, 1, HIST_MAX) ELSE s

\* RETURN on a line: it is kept and carried out.  Of what it may say, /ignore
\* is the one that comes back here, to put something in an entry.
Return(entered) ==
  /\ input # None
  /\ mem' = [a \in Address |-> IF a \in DOMAIN entered THEN entered[a]
                              ELSE IF a = hist_slot(hist_count) THEN input ELSE mem[a]]
  /\ hist_count' = (hist_count + 1) % HistMod
  /\ sent' = Newest(<<input>> \o sent)
  /\ hist_at' = 0 /\ input' = None
  /\ UNCHANGED rows

ReturnLine == Return(<<>>) /\ UNCHANGED list
ReturnIgnore(n) == Return(ignore_add(n)) /\ Told(n)
ReturnUnignore(n) == Return(ignore_remove(n)) /\ Untold(n)

\* Mutant: the lines sent outlive the session.
session_again ==
  /\ hist_at' = 0 /\ input' = None /\ sent' = <<>>
  /\ Cleared
  /\ UNCHANGED <<mem, page, hist_count, list>>

\* The next session: no lines sent, and view_init's empty logs.
session ==
  /\ hist_count' = 0 /\ hist_at' = 0 /\ input' = None /\ sent' = <<>>
  /\ Cleared
  /\ UNCHANGED <<mem, page, list>>

-----------------------------------------------------------------------------
\* log_init has found the attic, and cmd_init has emptied the ignore list.
Init ==
  /\ mem = [a \in Address |-> IF a >= IGNORE_BASE THEN None ELSE Noise]
  /\ total = 0 /\ have = 0 /\ page = <<>>
  /\ hist_count = 0 /\ hist_at = 0 /\ input = None /\ sent = <<>>
  /\ told = {} /\ cut = {}

Next ==
  \/ \E r \in Row : log_row(r)
  \/ log_clear
  \/ \E top \in 0..Ring, n \in 1..Rows : log_draw(top, n)
  \/ Up \/ Down \/ ReturnLine \/ session
  \/ \E l \in Line : Type(l)
  \/ \E n \in Nick : ReturnIgnore(n) \/ ReturnUnignore(n)

Spec == Init /\ [][Next]_vars

-----------------------------------------------------------------------------
\* The attic's three tenants keep to their own slots, and the counts to theirs.
AtticOK ==
  /\ \A a \in 0..Ring - 1 : mem[a] \in Row \cup {Noise}
  /\ \A k \in 1..HIST_MAX : mem[hist_slot(k)] \in Line \cup {Noise}
  /\ \A i \in Entries : entry(i) \in Nick \cup {None}
  /\ total \in 0..(CountMod - 1) /\ have \in 0..Ring
  /\ hist_count \in 0..(HistMod - 1) /\ hist_at \in 0..HIST_MAX
  /\ input \in Line \cup {None}

\* The rows on hand, oldest first: the refinement mapping.
kept == [i \in 1..have |-> mem[slot((FirstDrawn(0) + i - 1) % CountMod)]]

Abs == INSTANCE Scrollback WITH kept <- kept

\* log_row, log_clear and log_draw keep and show exactly the last Ring rows in
\* the order they were logged, across any number of wraps of the ring and of
\* the sixteen-bit count, and never show what the attic held before, nor what
\* the lines sent and the ignore list put beside the rows.
KeepsTheNewestRows == Abs!Spec

\* What the cursor keys offer k lines back is the k-th newest line the user
\* sent this session, whatever was logged or ignored in between and however
\* often the eight-bit count has wrapped.
RecallsTheLines ==
  [][hist_at' # hist_at /\ hist_at' > 0 => hist_at' <= Len(sent) /\ input' = sent[hist_at']]_vars

\* Of the people whose name fits an entry, those are silent whom the user was
\* last told to be ignoring, in either case of the name: a longer name is cut
\* when it is stored, and what is left of it may be somebody else's.
IgnoredAreSilent ==
  \A who \in Nick :
    stored[who] = who /\ folded[who] \notin cut => (ignored(who) <=> folded[who] \in told)
=============================================================================

------------------------------- MODULE Marks -------------------------------
(***************************************************************************)
(* The bookmarks (src/src/m65/marks.c): a text in memory, of a magic line  *)
(* and the entries, read from IRC.CFG at each visit to the first screen    *)
(* and written back whole after every change.  A file is not replaced: it  *)
(* is deleted and created anew.                                            *)
(*                                                                         *)
(* The magic line and an entry are an Item each, so a file of n entries    *)
(* takes n + 1 blocks.                                                     *)
(***************************************************************************)
EXTENDS Disk

CONSTANTS
  Cfg,          \* MARKS_FILE
  Magic,        \* MARKS_MAGIC
  Mark,         \* entries
  MARKS_MAX,    \* entries there is room for on the screen
  MARKS_CAP     \* ... and how long a text there is room for in memory

ASSUME MarksAssumption ==
  /\ Cfg \in Name /\ Magic \notin Mark /\ {Magic} \cup Mark \subseteq Item
  /\ MARKS_MAX \in Nat \ {0} /\ MARKS_CAP \in Nat

VARIABLES
  text,         \* the file's lines in memory
  marks_count,  \* the entries the first screen counts in it
  was,          \* text before an addition
  step,         \* "load", "screen", or write_file's: "create" or "put"
  why,          \* whose the file is being written: "add" or "remove"
  told          \* what the first screen said of a bookmark added

marks == <<text, marks_count, was, step, why, told>>

\* The entries of a text; of more than there is room for, the first are seen.
count_entries(t) == Cardinality({n \in 1..MARKS_MAX : n < Len(t)})

-----------------------------------------------------------------------------
\* A file longer than the memory for it is refused, as one that cannot be read,
\* is not there or is not ours: of these, nothing.
Fits(t) == Len(t) <= MARKS_CAP
Loaded(t) == IF t # <<>> /\ Fits(t) /\ Head(t) = Magic THEN t ELSE <<>>

\* A visit to the first screen begins.
marks_load ==
  /\ step = "load" /\ at = "idle"
  /\ \/ text' = Loaded(Contents(Cfg)) /\ Fine
     \/ text' = <<>> /\ Trouble("read")
  /\ marks_count' = count_entries(text')
  /\ step' = "screen" /\ told' = "nothing"
  /\ UNCHANGED <<disk, bam, at, doing, ret, file, target, was, why>>

\* Mutant: one more than there is room for.
HasRoom_count == marks_count <= MARKS_MAX

HasRoom == marks_count < MARKS_MAX

\* Mutant: the first entry goes in without the magic line.
Added_bare(t, m) == Append(t, m)

Added(t, m) == Append(IF t = <<>> THEN <<Magic>> ELSE t, m)

\* Mutant: nobody asks how long the text gets.
put_field_any(t) == TRUE

\* The lines of a text put in, if there is room in memory for each of them.
put_field(t) == Fits(t)

\* The prompts are answered and the bookmark is to be saved; write_file begins,
\* or memory is full and the session does.
marks_add(m) ==
  /\ step = "screen" /\ at = "idle" /\ HasRoom
  /\ IF put_field(Added(text, m))
       THEN /\ text' = Added(text, m) /\ was' = text /\ marks_count' = marks_count + 1
            /\ cbmdos_delete(Cfg)
            /\ step' = "create" /\ why' = "add" /\ UNCHANGED told
       ELSE /\ step' = "load" /\ told' = "could not write"
            /\ UNCHANGED <<vars, text, marks_count, was, why>>

\* Mutant: the lines are counted from the first, which is the magic.
Removed_line(t, n) == RemoveAt(t, n)

Removed(t, n) == RemoveAt(t, n + 1)

\* dN; the list is shown again when the file is written, of as many as are left
\* of those counted before.
marks_remove(n) ==
  /\ step = "screen" /\ at = "idle" /\ n \in 1..marks_count
  /\ text' = Removed(text, n) /\ marks_count' = marks_count - 1
  /\ cbmdos_delete(Cfg)
  /\ step' = "create" /\ why' = "remove" /\ UNCHANGED <<was, told>>

\* A session, from a bookmark or without saving one, and the first screen again.
session ==
  /\ step = "screen"
  /\ step' = "load" /\ UNCHANGED <<vars, text, marks_count, was, why, told>>

-----------------------------------------------------------------------------
(* write_file: what cbmdos_delete returned is not looked at *)

Create ==
  /\ step = "create" /\ cbmdos_create(Cfg)
  /\ step' = "put" /\ UNCHANGED <<text, marks_count, was, why, told>>

Put ==
  /\ step = "put"
  /\ IF Len(put) + 1 < Len(text) THEN cbmdos_put(text[Len(put) + 1]) ELSE cbmdos_close(Last(text))
  /\ UNCHANGED marks

\* The file is closed, or could not be created or filled.  An addition that
\* failed is taken back and the session begins; a removal is not.
Written ==
  /\ step = "put" /\ at = "idle"
  /\ IF why = "add"
       THEN /\ step' = "load"
            /\ IF ret = "OK" THEN told' = "saved" /\ UNCHANGED <<text, marks_count>>
               ELSE told' = "could not write" /\ text' = was /\ marks_count' = count_entries(was)
       ELSE step' = "screen" /\ UNCHANGED <<text, marks_count, told>>
  /\ UNCHANGED <<vars, was, why>>

\* In the middle of a write or between two calls; the program is loaded again.
Reset ==
  /\ step # "load"
  /\ \/ Crash
     \/ at = "idle" /\ Trouble("crash") /\ UNCHANGED <<disk, bam, at, doing, ret, file, target>>
  /\ text' = <<>> /\ marks_count' = 0 /\ step' = "load" /\ told' = "nothing" /\ UNCHANGED <<was, why>>

-----------------------------------------------------------------------------
MarksInit ==
  /\ Init
  /\ text = <<>> /\ marks_count = 0 /\ was = <<>> /\ step = "load" /\ why = "add" /\ told = "nothing"

MarksNext ==
  \/ marks_load \/ session
  \/ \E m \in Mark : marks_add(m)
  \/ \E n \in 1..MARKS_MAX : marks_remove(n)
  \/ Create \/ Put \/ Written
  \/ Writing /\ UNCHANGED marks
  \/ Reset

MarksSpec == MarksInit /\ [][MarksNext]_<<vars, marks>>

-----------------------------------------------------------------------------
\* The types, the disk's too: the text is never longer than the memory for it,
\* whoever wrote the file, it is the magic line and entries, or nothing, and
\* every number the first screen shows is an entry's.
MarksTypeOK ==
  /\ TypeOK
  /\ text \in Seq(Item) /\ Fits(text) /\ (text # <<>> => Head(text) = Magic)
  /\ marks_count \in 0..MARKS_MAX /\ (marks_count > 0 => marks_count < Len(text))
  /\ was \in Seq(Item) /\ Fits(was)
  /\ step \in {"load", "screen", "create", "put"} /\ why \in {"add", "remove"}
  /\ told \in {"nothing", "saved", "could not write"}

\* "saved to IRC.CFG" is said only when the file holds every entry in memory,
\* for the next visit to find, whatever failed on the way: unless an old file
\* that could be neither deleted nor seen is before it in the directory.
SavedIsKept == told = "saved" /\ Cardinality(Places(Cfg)) = 1 => Loaded(Contents(Cfg)) = text

\* The list shown is the file's: a removal, whose result nobody looks at, is
\* written however full the disk is, if the drive does not fail.
ListIsTheFile == step = "screen" /\ faults = 0 => text = Loaded(Contents(Cfg))

\* Whatever fails, and whenever, the other files of the disk the client is on
\* (its program) keep their contents, unless a new file's entry was written and
\* the map then was not: that file's blocks are free, and what they link to once
\* they are used again is freed with it.
OthersKept == [][~torn => \A n \in Name \ {Cfg} : Contents(n)' = Contents(n)]_<<vars, marks>>
=============================================================================

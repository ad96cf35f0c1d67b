------------------------------ MODULE MCMarks ------------------------------
(* Boot disks for Marks: with the program alone, with IRC.CFG written by      *)
(* something else, too long for the memory, or with no room for every entry,  *)
(* and with no room in the directory.                                         *)
EXTENDS Marks

\* A disk of some files, each [name, in: its blocks, holds], an entry to a
\* block of the directory.  Every free block still links to one in use.
BootDisk(files) ==
  LET own(k) == files[k].in
      used == UNION {Range(own(k)) : k \in DOMAIN files}
      within(k, j) ==
        [next |-> IF j = Len(own(k)) THEN 0 ELSE own(k)[j + 1], holds |-> files[k].holds[j]]
      entry(k) == [name |-> files[k].name, first |-> own(k)[1]]
      dirs == {DirFirst + k - 1 : k \in DOMAIN files}
  IN  [data |-> [b \in Data |->
         IF b \in used
           THEN LET k == CHOOSE i \in DOMAIN files : b \in Range(own(i))
                IN  within(k, CHOOSE j \in DOMAIN own(k) : own(k)[j] = b)
           ELSE [next |-> 1, holds |-> "code"]],
       dir |-> [d \in DirTrack |->
         LET k == d + 1 - DirFirst
         IN  IF d \notin dirs THEN EmptyDir
             ELSE [next |-> IF k = Len(files) THEN 0 ELSE d + 1,
                   slots |-> [i \in 1..Slots |-> IF i = 1 THEN entry(k) ELSE Empty]]],
       map |-> <<(Near \cup DirTrack) \ (used \cup dirs), Far \ used>>]

File(n, in, holds) == [name |-> n, in |-> in, holds |-> holds]

BootDisks ==
  {BootDisk(<<File("irc", <<1, 2>>, <<"code", "code">>)>>),
   BootDisk(<<File("irc", <<1, 2>>, <<"code", "code">>), File(Cfg, <<3>>, <<"code">>)>>),
   BootDisk(<<File("irc", <<1, 2, 3>>, <<"code", "code", "code">>)>>),
   BootDisk(<<File("irc", <<1>>, <<"code">>), File(Cfg, <<2, 3, 4, 5>>, <<Magic, "m", "n", "m">>)>>),
   BootDisk(<<File("irc", <<1>>, <<"code">>), File("boot", <<2>>, <<"code">>),
              File("font", <<3>>, <<"code">>)>>)}

LiveView ==
  <<disk, at, faults, torn, text, marks_count, step, told,
    IF step = "screen" \/ step = "load" THEN <<>>
    ELSE <<bam, doing, name, first, cur, put, target, ret, was, why>>>>
=============================================================================

-------------------------------- MODULE Disk --------------------------------
(***************************************************************************)
(* Files on a 1581 disk or image as the client's driver keeps them         *)
(* (src/src/platform/m65_cbmdos.c over m65_f011.c): a map of free blocks   *)
(* in two sectors, a directory of chained blocks on a track of its own,    *)
(* and files that are chains of blocks.  Nothing is journalled: the order  *)
(* of the writes is all there is between an operation and a fault.         *)
(*                                                                         *)
(* What is read before an operation's first write is one step; then every  *)
(* block written is a step of its own, after which the power may fail.     *)
(* Blocks are numbered from 1 in the order bam_find tries them; 0 is the   *)
(* link that ends a chain.  What fills a block, and the rest that goes     *)
(* into the last one, is one Item.                                         *)
(***************************************************************************)
EXTENDS Naturals, FiniteSets, Sequences, SequencesExt

CONSTANTS
  Near, Far,    \* data blocks: of the tracks the first BAM sector maps, and the second
  DirTrack,     \* blocks of the directory track past the header and the BAM
  DirFirst,     \* the directory's first block
  Slots,        \* entries in a directory block (8)
  Name, NoName, \* file names; an entry of type 0
  Item,
  Formats,      \* the disks it may find, as [data, dir, map]
  Perils,       \* what can go wrong, of "read", "write" and "crash"
  MaxFaults     \* bound: how often

Data == Near \cup Far
Block == Data \cup DirTrack

ASSUME DiskAssumption ==
  /\ IsFiniteSet(Block) /\ Block \subseteq Nat \ {0}
  /\ Near \cap Far = {} /\ Data \cap DirTrack = {} /\ DirFirst \in DirTrack
  /\ Slots \in Nat \ {0}
  /\ NoName \notin Name
  /\ MaxFaults \in Nat

VARIABLES
  data,         \* on the disk: the data blocks,
  dir,          \* ... the directory's,
  map,          \* ... and the two BAM sectors, as sets of free blocks
  bam,          \* BAM_BUF and bam2 in memory, as one set
  at,           \* "idle", open for "filling", or what is to be written next
  doing,        \* "create" or "delete": whose write it is
  ret,          \* what the last operation returned
  name,         \* fname
  first, cur,   \* a new file's first block, and the one being filled
  target,       \* a directory block and slot
  put,          \* ghost: what was put so far
  faults,
  torn          \* ghost: one came between create's writes to the directory and the map

disk == <<data, dir, map>>
file == <<name, first, cur, put>>
vars == <<disk, bam, at, doing, ret, file, target, faults, torn>>

Empty == [name |-> NoName, first |-> 0]
EmptyDir == [next |-> 0, slots |-> [i \in 1..Slots |-> Empty]]

Lowest(S) == CHOOSE b \in S : \A c \in S : b <= c

-----------------------------------------------------------------------------
(* Chains *)

\* The blocks from c on, link by link, to the end or k of them.
Walk(blocks) ==
  LET walk[k \in 0..Cardinality(DOMAIN blocks)] ==
        [c \in {0} \cup DOMAIN blocks |->
           IF k = 0 \/ c = 0 THEN <<>> ELSE <<c>> \o walk[k - 1][blocks[c].next]]
  IN  walk

Chain(blocks, b) == Walk(blocks)[Cardinality(DOMAIN blocks)][b]

Dirs == Chain(dir, DirFirst)
Ends == dir[Last(Dirs)].next = 0

\* The places of the directory's entries, each a block and a slot in it, and
\* those of the entries of name n.
Listing == Range(Dirs) \X (1..Slots)
Entry(p) == dir[p[1]].slots[p[2]]
Places(n) == {p \in Listing : Entry(p).name = n}

\* The directory is read block by block and slot by slot; the first of some
\* places that is met.
Before(p, q) ==
  \/ p[1] = q[1] /\ p[2] < q[2]
  \/ \E k \in DOMAIN Dirs : Dirs[k] = p[1] /\ \A j \in 1..k : Dirs[j] # q[1]
Foremost(places) == CHOOSE p \in places : \A q \in places : q # p => Before(p, q)

\* What a chain of blocks holds, and what a file holds, to a reader: the first of
\* its name.
Held(c) == [k \in DOMAIN c |-> data[c[k]].holds]
Contents(n) ==
  IF Places(n) = {} THEN <<>> ELSE Held(Chain(data, Entry(Foremost(Places(n))).first))

-----------------------------------------------------------------------------
(* The disks it may find *)

DataBlock == [next : {0} \cup Data, holds : Item]
DirBlock == [next : {0} \cup DirTrack, slots : [1..Slots -> [name : Name, first : Data] \cup {Empty}]]
Maps == (SUBSET (Near \cup DirTrack)) \X (SUBSET Far)

\* A disk is as formatting and closed files left it: every chain has an end, no
\* block is in two files, none in use is free, and a free block of the
\* directory's track is still empty, for nothing else is written there.
Sound(f) ==
  LET chain(p) == Chain(f.data, f.dir[p[1]].slots[p[2]].first)
      dirs == Chain(f.dir, DirFirst)
      files == {p \in Range(dirs) \X (1..Slots) : f.dir[p[1]].slots[p[2]].name # NoName}
      free == f.map[1] \cup f.map[2]
  IN  /\ f.dir[Last(dirs)].next = 0 /\ Range(dirs) \cap free = {}
      /\ \A p \in files : f.data[Last(chain(p))].next = 0 /\ Range(chain(p)) \cap free = {}
      /\ \A p, q \in files : p # q => Range(chain(p)) \cap Range(chain(q)) = {}
      /\ \A d \in DirTrack \cap free : f.dir[d] = EmptyDir

ASSUME FormatsAssumption ==
  \A f \in Formats :
    f.data \in [Data -> DataBlock] /\ f.dir \in [DirTrack -> DirBlock] /\ f.map \in Maps /\ Sound(f)

-----------------------------------------------------------------------------
(* Faults *)

Fine == UNCHANGED <<faults, torn>>

\* Every attempt at a sector fails, or the drive refuses a write, or the power
\* goes.
Trouble(peril) ==
  /\ peril \in Perils /\ faults < MaxFaults
  /\ faults' = faults + 1
  /\ torn' = (torn \/ (doing = "create" /\ at \in {"link", "newdir", "entry", "bam1", "bam2"}))

Return(r) == at' = "idle" /\ ret' = r
Goto(where) == at' = where /\ UNCHANGED ret

-----------------------------------------------------------------------------
(* cbmdos_create_as, cbmdos_put *)

bam_load == map[1] \cup map[2]

\* The first data block free, or 0; the directory's track is never handed out.
bam_find(free) == IF free \cap Data = {} THEN 0 ELSE Lowest(free \cap Data)
Full(free) == bam_find(free) = 0

bam_alloc(free, b) == free \ {b}

\* A name in the directory is refused, unless it could not be read.
cbmdos_create(n) ==
  /\ at = "idle"
  /\ name' = n /\ doing' = "create" /\ put' = <<>>
  /\ \/ Places(n) # {} /\ Fine /\ Return("EXISTS") /\ UNCHANGED <<bam, first, cur>>
     \/ Trouble("read") /\ Return("IO") /\ UNCHANGED <<bam, first, cur>>
     \/ /\ (Ends /\ Places(n) = {} /\ Fine) \/ Trouble("read")
        /\ IF Full(bam_load)
             THEN bam' = bam_load /\ Return("FULL") /\ UNCHANGED <<first, cur>>
             ELSE /\ bam' = bam_alloc(bam_load, bam_find(bam_load))
                  /\ first' = bam_find(bam_load) /\ cur' = first'
                  /\ Goto("filling")
  /\ UNCHANGED <<disk, target>>

\* f011_write_block: the sector read, half of it changed, and written; a write
\* that fails may or may not have changed it.  The rest of the action follows.
write_data(b, block) ==
  /\ data' = [data EXCEPT ![b] = block]
  /\ Fine
write_data_fails(b, block) ==
  /\ data' \in {data, [data EXCEPT ![b] = block]}
  /\ Trouble("write")

\* The 254 bytes that fill a block: it is linked to the next and written.
cbmdos_put(x) ==
  /\ at = "filling"
  /\ put' = Append(put, x)
  /\ IF Full(bam) THEN Fine /\ Return("FULL") /\ UNCHANGED <<data, bam, cur>>
     ELSE LET next == bam_find(bam)
              block == [next |-> next, holds |-> x]
          IN  /\ bam' = bam_alloc(bam, next)
              /\ \/ write_data(cur, block) /\ cur' = next /\ UNCHANGED <<at, ret>>
                 \/ write_data_fails(cur, block) /\ Return("IO") /\ UNCHANGED cur
  /\ UNCHANGED <<dir, map, doing, name, first, target>>

-----------------------------------------------------------------------------
(* cbmdos_close *)

\* The last block, with what was put since the one before.
cbmdos_close(x) ==
  /\ at = "filling"
  /\ put' = Append(put, x)
  /\ LET block == [next |-> 0, holds |-> x]
     IN  \/ write_data(cur, block) /\ Goto("slot")
         \/ write_data_fails(cur, block) /\ Return("IO")
  /\ UNCHANGED <<dir, map, bam, doing, name, first, cur, target>>

\* Mutant: the byte tested is not the type of the entry, and every slot looks free.
FreeSlots_all == Listing

FreeSlots == Places(NoName)

\* dir_find_slot: the first slot free, or a new block for the directory.
dir_find_slot ==
  /\ at = "slot"
  /\ \/ FreeSlots # {} /\ Fine
        /\ target' = Foremost(FreeSlots)
        /\ Goto("entry") /\ UNCHANGED bam
     \/ FreeSlots = {} /\ Ends /\ Fine
        /\ IF bam \cap DirTrack = {}
             THEN Return("DIRFULL") /\ UNCHANGED <<bam, target>>
             ELSE /\ target' = <<Lowest(bam \cap DirTrack), 1>>
                  /\ bam' = bam_alloc(bam, target'[1])
                  /\ Goto("link")
     \/ Trouble("read") /\ Return("DIRFULL") /\ UNCHANGED <<bam, target>>
  /\ UNCHANGED <<disk, doing, file>>

write_dir(b, block, where, err) ==
  /\ \/ dir' = [dir EXCEPT ![b] = block] /\ Fine /\ Goto(where)
     \/ dir' \in {dir, [dir EXCEPT ![b] = block]} /\ Trouble("write") /\ Return(err)
  /\ UNCHANGED <<data, map, bam, doing, file, target>>

\* The directory's last block linked to the new one, which is then emptied.
LinkDir ==
  /\ at = "link"
  /\ write_dir(Last(Dirs), [dir[Last(Dirs)] EXCEPT !.next = target[1]], "newdir", "DIRFULL")

NewDir == at = "newdir" /\ write_dir(target[1], EmptyDir, "entry", "DIRFULL")

InSlot(entry) == [dir[target[1]] EXCEPT !.slots[target[2]] = entry]

WriteEntry ==
  /\ at = "entry"
  /\ write_dir(target[1], InSlot([name |-> name, first |-> first]), "bam1", "IO")

\* Mutant: the second sector is written as it was read.
SavedIn_first(i) == IF i = 1 THEN bam \cap (Near \cup DirTrack) ELSE map[2]

SavedIn(i) == bam \cap (IF i = 1 THEN Near \cup DirTrack ELSE Far)

\* bam_save: the one sector and then the other.
bam_save ==
  \E i \in 1..2 :
    /\ at = <<"bam1", "bam2">>[i]
    /\ LET saved == [map EXCEPT ![i] = SavedIn(i)]
       IN  \/ map' = saved /\ Fine /\ IF i = 1 THEN Goto("bam2") ELSE Return("OK")
           \/ map' \in {map, saved} /\ Trouble("write") /\ Return("IO")
    /\ UNCHANGED <<data, dir, bam, doing, file, target>>

-----------------------------------------------------------------------------
(* cbmdos_delete *)

\* Mutant: the block that links to no other is not freed.
Freed_linked(c, k) == {c[j] : j \in 1..k - 1}

\* The first k blocks of a chain.
Freed(c, k) == {c[j] : j \in 1..k}

\* The entry found and its chain freed, as far as it can be read.
cbmdos_delete(n) ==
  /\ at = "idle"
  /\ name' = n /\ doing' = "delete"
  /\ \/ Trouble("read") /\ Return("IO") /\ UNCHANGED <<bam, target>>
     \/ Ends /\ Places(n) = {} /\ Fine /\ Return("NOTFOUND") /\ UNCHANGED <<bam, target>>
     \/ /\ Places(n) # {}
        /\ target' = Foremost(Places(n))
        /\ LET c == Chain(data, Entry(target').first)
           IN  \E k \in 0..Len(c) :
                 /\ IF k = Len(c) THEN Fine ELSE Trouble("read")
                 /\ bam' = bam_load \cup Freed(c, k)
        /\ Goto("clear")
  /\ UNCHANGED <<disk, first, cur, put>>

ClearEntry ==
  /\ at = "clear"
  /\ write_dir(target[1], InSlot(Empty), "bam1", "IO")

\* The power fails, or the machine is reset.
Crash ==
  /\ at # "idle"
  /\ Trouble("crash")
  /\ Return("crash")
  /\ UNCHANGED <<disk, bam, doing, file, target>>

-----------------------------------------------------------------------------
Init ==
  /\ \E f \in Formats : data = f.data /\ dir = f.dir /\ map = f.map
  /\ bam = {} /\ at = "idle" /\ doing = "delete" /\ ret = "OK"
  /\ name = NoName /\ first = 0 /\ cur = 0 /\ put = <<>>
  /\ target = <<0, 0>> /\ faults = 0 /\ torn = FALSE

\* An operation goes on by itself once begun.
Writing ==
  \/ dir_find_slot \/ LinkDir \/ NewDir \/ WriteEntry \/ ClearEntry \/ bam_save

-----------------------------------------------------------------------------
\* The types of the disk and of what the driver holds of it.
TypeOK ==
  /\ data \in [Data -> DataBlock] /\ dir \in [DirTrack -> DirBlock] /\ map \in Maps
  /\ bam \subseteq Block
  /\ at \in {"idle", "filling", "slot", "link", "newdir", "entry", "clear", "bam1", "bam2"}
  /\ doing \in {"create", "delete"}
  /\ ret \in {"OK", "IO", "EXISTS", "FULL", "DIRFULL", "NOTFOUND", "crash"}
  /\ name \in Name \cup {NoName} /\ first \in {0} \cup Data /\ cur \in {0} \cup Data
  /\ put \in Seq(Item)
  /\ target \in {<<0, 0>>} \cup (DirTrack \X (1..Slots))
  /\ faults \in 0..MaxFaults /\ torn \in BOOLEAN

\* The files, and the blocks each is in.
Files == {p \in Listing : Entry(p).name # NoName}
BlocksAt(p) == Range(Chain(data, Entry(p).first))
FreeBlocks == map[1] \cup map[2]
UsedBlocks == Range(Dirs) \cup UNION {BlocksAt(p) : p \in Files}

\* No block is in two files, whatever was created, deleted, cut short or left
\* unread, and none that is in use is free for the next, unless a new file's
\* entry was written and the map then was not.
NoSharedBlocks ==
  ~torn =>
    /\ \A p, q \in Files : p # q => BlocksAt(p) \cap BlocksAt(q) = {}
    /\ at = "idle" => UsedBlocks \cap FreeBlocks = {}

\* If nothing went wrong no block is lost either: what is not in use is free.
NoLostBlocks == at = "idle" /\ faults = 0 => FreeBlocks = Block \ UsedBlocks
=============================================================================

-------------------------------- MODULE Ext2 --------------------------------
(***************************************************************************)
(* The ext2 driver of src/src/ext2.c on a file system of one block group:  *)
(* create_file, write_file and delete_file, one action per write to the    *)
(* disk, on a machine that may lose power between any two of them and      *)
(* whose keyboard interrupt may run `dir` or `cat` in between.             *)
(*                                                                         *)
(* sb and bgdt are changed in memory and written out in the same action,   *)
(* and hold after a reboot what the disk held before it: one variable      *)
(* stands for both copies.  The global `inode` is memory only.             *)
(*                                                                         *)
(* A block is K headers of directory entries: all names have the same      *)
(* length, so an entry's size is counted in entries.  A data block is a    *)
(* block whose bytes make headers of no sensible size.                     *)
(***************************************************************************)
EXTENDS Integers, FiniteSets

CONSTANTS
  IPG, BPG,        \* inodes_per_group, blocks_per_group
  NDirect,         \* direct block pointers of an inode: 12
  K,               \* directory entries a block holds
  MkfsInodes,      \* inodes marked used on the disk the driver finds
  MkfsBlocks,      \* blocks marked used on it
  MkfsDisks,       \* the inode tables, by slot, and contents of the blocks
                   \* it may have
  FirstDataBlock,  \* block of bit 0 in mkfs' bitmap: 1 with 1 KiB blocks
  Tag,             \* the data clients write; none is an inode number
  IrqReads,        \* the inodes `dir` and `cat` read: 2 and 12
  WordSize,        \* the counters wrap
  MaxOps, MaxCrashes   \* bounds: calls, power losses

Root == 2

Inum  == 1 .. IPG
Block == 0 .. BPG
Bit   == 0 .. BPG - 1
Slot  == 0 .. K - 1
Pointer == 0 .. NDirect - 1

Entry == [inode : {0} \cup Inum \cup Tag, size : Nat]
Inode == [type : {"none", "file", "dir"}, size : Nat,
          block : [Pointer -> Block]]

NoEntry == [inode |-> 0, size |-> 0]
EmptyBlock == [s \in Slot |-> NoEntry]
DataBlock(tag) == [s \in Slot |-> [inode |-> tag, size |-> 2 * K]]

NoBlocks == [i \in Pointer |-> 0]
EmptyInode == [type |-> "none", size |-> 0, block |-> NoBlocks]

VARIABLES
  \* on the disk
  inode_bitmap,    \* inodes marked used
  block_bitmap,    \* bits set
  bgdt,            \* free_blocks_count, free_inodes_count
  sb,              \* total_unallocated_blocks, total_unallocated_inodes
  inode_table,     \* by slot
  block,           \* contents of the blocks
  \* in memory
  inode,           \* the global every operation reads inodes into
  op,              \* the operation in progress and its locals
  \* history
  expect,          \* for each file, the data the last write_file gave it
  entered,         \* files whose create_file has entered them in the root
  mixed,           \* has a command changed the global inode under an operation?
  again,           \* calls of delete_file for an inode that was free
  ops, crashes

disk == <<inode_bitmap, block_bitmap, bgdt, sb, inode_table, block>>
history == <<expect, entered, mixed, again, ops, crashes>>
vars == <<disk, inode, op, history>>

NoOp == [cmd |-> "none", pc |-> "idle", then |-> "idle", di |-> 0, db |-> 0,
         ino |-> 0, parent |-> 0, idx |-> 0, blk |-> 0, len |-> 0, tag |-> 0]

-----------------------------------------------------------------------------
(* Places on the disk *)

\* inode_number % inodes_per_group, where mkfs put inode_number - 1: a slot
\* for each inode of the group, if not the one mkfs meant.
SlotOf(n) == n % IPG
InodeOf(n) == inode_table[SlotOf(n)]

\* The bit of a block in the block bitmap.
BitOf(b) == b % BPG

\* find_free_inode, find_free_block: the first clear bit, if there is one.
Least(S) == CHOOSE x \in S : \A y \in S : x <= y

FoundInode == Least(Inum \ inode_bitmap)
FoundBlock == Least(Bit \ block_bitmap)

FullInodes == Inum \subseteq inode_bitmap
FullBlocks == Bit \subseteq block_bitmap

-----------------------------------------------------------------------------
(* Directory blocks *)

Terminator(entries, s) == entries[s].inode = 0 \/ entries[s].size = 0

\* The entries a walk of the block visits, from its beginning and from size
\* to size up to a terminator or the end: read_directory_entries prints
\* these, add_directory_entry looks at them for room.
ReachedBy(entries, seen) ==
  {s \in Slot : /\ ~Terminator(entries, s)
                /\ s = 0 \/ \E t \in seen : s = t + entries[t].size}

Visited(entries) ==
  CHOOSE seen \in SUBSET Slot : seen = ReachedBy(entries, seen)

\* Where the walk ends.
WalkEnd(entries) ==
  LET seen == Visited(entries)
  IN  IF seen = {} THEN 0
      ELSE LET last == CHOOSE s \in seen : \A t \in seen : t <= s
           IN  last + entries[last].size

\* Mutation: >= for >, so that any entry seems to have slack.
SlackAtLeast(entries) == {s \in Visited(entries) : entries[s].size >= 1}

Slack(entries) == {s \in Visited(entries) : entries[s].size > 1}

HasRoom(entries) == Slack(entries) # {} \/ WalkEnd(entries) < K

\* The first block of a directory that has room or does not exist yet.
TargetIndex(dir) ==
  LET fit == {i \in Pointer :
                dir.block[i] = 0 \/ HasRoom(block[dir.block[i]])}
  IN  IF fit = {} THEN NDirect ELSE Least(fit)

\* The block with an entry added: into the slack of an entry that has some,
\* or at the end of the walk.
WithEntry(entries, n) ==
  IF Slack(entries) # {}
    THEN LET s == Least(Slack(entries))
         IN  [entries EXCEPT ![s].size = 1,
                             ![s + 1] = [inode |-> n,
                                         size |-> entries[s].size - 1]]
    ELSE [entries EXCEPT ![WalkEnd(entries)] = [inode |-> n, size |-> 1]]

\* The inodes `dir` lists for a directory.
Entries(dir) ==
  UNION {{<<i, s>> : s \in Visited(block[dir.block[i]])} :
           i \in {j \in Pointer :
                    \A k \in 0 .. j : dir.block[k] # 0}}

RootDir == InodeOf(Root)
InodeAt(dir, e) == block[dir.block[e[1]]][e[2]].inode
Listed(dir) == {InodeAt(dir, e) : e \in Entries(dir)}

\* What read_file reads and print_file prints: the blocks of the file up to
\* its size.
Contents(f) ==
  [i \in {j \in 0 .. f.size - 1 : \A k \in 0 .. j : f.block[k] # 0} |->
     block[f.block[i]][0].inode]

-----------------------------------------------------------------------------
(* Which blocks the root directory and the files hold: inode and pointer   *)

Holder(table) == {n \in Inum : n = Root \/ table[SlotOf(n)].type = "file"}
RefBlock(table, r) == table[SlotOf(r[1])].block[r[2]]
Refs(table) == {r \in Holder(table) \X Pointer : RefBlock(table, r) # 0}

\* Each is marked used, as the driver counts bits, and held once.
Exclusive(table, bits) ==
  /\ \A r \in Refs(table) : BitOf(RefBlock(table, r)) \in bits
  /\ \A r, q \in Refs(table) : RefBlock(table, r) = RefBlock(table, q) => r = q

MkfsBits == {b - FirstDataBlock : b \in MkfsBlocks}

\* A directory uses its pointers from the first on, and past the last entry
\* of one of its blocks there is nothing that could be taken for another.
NoHoles(dir) ==
  \A i \in Pointer : dir.block[i] # 0 => \A k \in 0 .. i : dir.block[k] # 0

Tidy(entries) ==
  \A s \in Slot :
    (\A t \in Visited(entries) : t + entries[t].size <= s) => Terminator(entries, s)

Orderly(dir, contents) ==
  NoHoles(dir) /\ \A i \in Pointer : dir.block[i] # 0 => Tidy(contents[dir.block[i]])

\* What parse_superblock reads is sensible, the free counters hold a full
\* group's, and the disk found is in order: so is the one in disk.img, where
\* the driver has created eighteen files.
ASSUME SizesAssumption ==
  /\ IPG \in Nat /\ IPG >= Root /\ IPG < WordSize
  /\ BPG \in Nat /\ BPG > 0 /\ BPG < WordSize
  /\ NDirect \in Nat /\ NDirect > 0
  /\ K \in Nat /\ K > 0
  /\ WordSize \in Nat

ASSUME IrqAssumption == IrqReads \subseteq Inum

ASSUME MkfsAssumption ==
  /\ FirstDataBlock \in {0, 1}
  /\ FirstDataBlock \in MkfsBlocks
  /\ \A b \in MkfsBlocks : b \in Int /\ b - FirstDataBlock \in Bit
  /\ MkfsInodes \subseteq Inum /\ Root \in MkfsInodes
  /\ \A mkfs \in MkfsDisks :
       /\ mkfs.table \in [0 .. IPG - 1 -> Inode]
       /\ mkfs.block \in [Block -> [Slot -> Entry]]
       /\ mkfs.table[SlotOf(Root)].type = "dir"
       /\ Exclusive(mkfs.table, MkfsBits)
       /\ Orderly(mkfs.table[SlotOf(Root)], mkfs.block)
       /\ \A n \in Inum \ MkfsInodes : mkfs.table[SlotOf(n)].type # "file"

-----------------------------------------------------------------------------
Init ==
  /\ inode_bitmap = MkfsInodes
  /\ block_bitmap = MkfsBits
  /\ bgdt = [blocks |-> BPG - Cardinality(MkfsBlocks),
             inodes |-> IPG - Cardinality(MkfsInodes)]
  /\ sb = bgdt
  /\ \E mkfs \in MkfsDisks : /\ inode_table = mkfs.table
                             /\ block = mkfs.block
  /\ inode = EmptyInode
  /\ op = NoOp
  /\ expect = <<>>
  /\ entered = {}
  /\ mixed = FALSE
  /\ again = 0
  /\ ops = 0
  /\ crashes = 0

MayStart ==
  /\ op.pc = "idle"
  /\ ops < MaxOps
  /\ ops' = ops + 1

At(pc) == op.pc = pc
Goto(pc) == op' = [op EXCEPT !.pc = pc]
Return == op' = NoOp

-----------------------------------------------------------------------------
(* update_blockgroup_descriptor and update_superblock, which                *)
(* update_inode_bitmap and update_block_bitmap call after their own write   *)

\* Mutation: the change of the block count is dropped.
PlusInodes(counts, di, db) ==
  [counts EXCEPT !.inodes = (@ + di) % WordSize]

Plus(counts, di, db) ==
  [inodes |-> (counts.inodes + di) % WordSize,
   blocks |-> (counts.blocks + db) % WordSize]

UpdateGroupDescriptor ==
  /\ At("bgdt")
  /\ bgdt' = Plus(bgdt, op.di, op.db)
  /\ Goto("sb")
  /\ UNCHANGED <<inode_bitmap, block_bitmap, sb, inode_table, block, inode,
                 history>>

UpdateSuperblock ==
  /\ At("sb")
  /\ sb' = Plus(sb, op.di, op.db)
  /\ Goto(op.then)
  /\ UNCHANGED <<inode_bitmap, block_bitmap, bgdt, inode_table, block, inode,
                 history>>

\* Mutation: the block is found but not marked.
TakeBlockUnmarked(idx, then) ==
  /\ ~FullBlocks
  /\ op' = [op EXCEPT !.pc = "bgdt", !.then = then, !.di = 0, !.db = -1,
                      !.idx = idx, !.blk = FoundBlock]
  /\ UNCHANGED <<disk, inode, history>>

\* find_free_block and update_block_bitmap(..., 1)
TakeBlock(idx, then) ==
  /\ ~FullBlocks
  /\ block_bitmap' = block_bitmap \cup {BitOf(FoundBlock)}
  /\ op' = [op EXCEPT !.pc = "bgdt", !.then = then, !.di = 0, !.db = -1,
                      !.idx = idx, !.blk = FoundBlock]
  /\ UNCHANGED <<inode_bitmap, bgdt, sb, inode_table, block, inode, history>>

\* With every bit set the search falls off its end.  Its undefined result is
\* then written to, as the number of a block, wherever on the disk that is:
\* the operation is not followed further, nor anything after it.
NoFreeBlock ==
  /\ \/ At("place") /\ TargetIndex(inode) < NDirect
                     /\ inode.block[TargetIndex(inode)] = 0
     \/ At("block") /\ inode.block[op.idx] = 0
  /\ FullBlocks
  /\ Goto("lost")
  /\ UNCHANGED <<disk, inode, history>>

-----------------------------------------------------------------------------
(* create_file *)

CreateFile(parent) ==
  /\ MayStart
  /\ ~FullInodes
  /\ inode_bitmap' = inode_bitmap \cup {FoundInode}
  /\ op' = [NoOp EXCEPT !.cmd = "create", !.pc = "bgdt", !.then = "table",
                        !.di = -1, !.ino = FoundInode, !.parent = parent]
  /\ expect' = [m \in DOMAIN expect \ {FoundInode} |-> expect[m]]
  /\ UNCHANGED <<block_bitmap, bgdt, sb, inode_table, block, inode, entered,
                 mixed, again, crashes>>

\* The same of an inode: find_free_inode has none to return.
NoFreeInode ==
  /\ MayStart
  /\ FullInodes
  /\ Goto("lost")
  /\ UNCHANGED <<disk, inode, expect, entered, mixed, again, crashes>>

\* Mutation: the new inode is the global one with its size reset.
NewInodeUncleared == [inode EXCEPT !.type = "file", !.size = 0]

NewInode == [type |-> "file", size |-> 0, block |-> NoBlocks]

\* Mutation: the name is entered, but no inode written.
CreateInodeSkipped ==
  /\ At("table")
  /\ Goto("parent")
  /\ UNCHANGED <<disk, inode, history>>

CreateInode ==
  /\ At("table")
  /\ inode_table' = [inode_table EXCEPT ![SlotOf(op.ino)] = NewInode]
  /\ Goto("parent")
  /\ UNCHANGED <<inode_bitmap, block_bitmap, bgdt, sb, block, inode, history>>

\* create_file is back: the new file is empty.
Created(inRoot) ==
  /\ expect' = [m \in DOMAIN expect \cup {op.ino} |->
                  IF m = op.ino THEN <<>> ELSE expect[m]]
  /\ entered' = IF inRoot THEN entered \cup {op.ino} ELSE entered
  /\ UNCHANGED <<mixed, again, ops, crashes>>

\* add_directory_entry reads the parent; "not a directory!" gives up.
ReadParent ==
  /\ At("parent")
  /\ inode' = InodeOf(op.parent)
  /\ IF InodeOf(op.parent).type = "dir"
       THEN Goto("place") /\ UNCHANGED history
       ELSE Return /\ Created(FALSE)
  /\ UNCHANGED disk

\* "No space available in directory!"
DirectoryFull ==
  /\ At("place")
  /\ TargetIndex(inode) = NDirect
  /\ Return
  /\ Created(FALSE)
  /\ UNCHANGED <<disk, inode>>

\* A block of the directory has room.  The inode is written back if the
\* entry lies past the directory's size.
PlaceEntry ==
  LET i == TargetIndex(inode)
      b == inode.block[i]
      grown == WalkEnd(block[b]) + 1
  IN  /\ At("place")
      /\ i < NDirect /\ b # 0
      /\ block' = [block EXCEPT ![b] = WithEntry(block[b], op.ino)]
      /\ IF Slack(block[b]) = {} /\ grown > inode.size
           THEN /\ inode' = [inode EXCEPT !.size = grown]
                /\ Goto("writeback")
                /\ UNCHANGED history
           ELSE /\ UNCHANGED inode
                /\ Return
                /\ Created(op.parent = Root)
      /\ UNCHANGED <<inode_bitmap, block_bitmap, bgdt, sb, inode_table>>

\* Every block is full: the directory gets a new one ...
NewDirBlock ==
  LET i == TargetIndex(inode)
  IN  /\ At("place")
      /\ i < NDirect /\ inode.block[i] = 0
      /\ TakeBlock(i, "dirblock")

\* ... with the entry at its beginning, of size 0 as create_file left it ...
WriteDirBlock ==
  /\ At("dirblock")
  /\ inode' = [inode EXCEPT !.block[op.idx] = op.blk, !.size = inode.size + K]
  /\ block' = [block EXCEPT ![op.blk] =
                 [EmptyBlock EXCEPT ![0] = [inode |-> op.ino, size |-> 0]]]
  /\ Goto("writeback")
  /\ UNCHANGED <<inode_bitmap, block_bitmap, bgdt, sb, inode_table, history>>

\* ... and the inode, which edit_inode_table writes back.
WriteBackParent ==
  /\ At("writeback")
  /\ inode_table' = [inode_table EXCEPT ![SlotOf(op.parent)] = inode]
  /\ Return
  /\ Created(op.parent = Root)
  /\ UNCHANGED <<inode_bitmap, block_bitmap, bgdt, sb, block, inode>>

-----------------------------------------------------------------------------
(* write_file *)

\* Mutation: the length of the data is not compared with the pointers.
WriteFileAnyLength(n, len, tag) ==
  /\ MayStart
  /\ inode' = InodeOf(n)
  /\ IF InodeOf(n).type = "file"
       THEN /\ op' = [NoOp EXCEPT !.cmd = "write", !.pc = "block", !.ino = n,
                                  !.len = len, !.tag = tag]
            /\ expect' = [m \in DOMAIN expect \ {n} |-> expect[m]]
       ELSE UNCHANGED <<op, expect>>
  /\ UNCHANGED <<disk, entered, mixed, again, crashes>>

\* Too long or not a regular file: nothing is written.
WriteFile(n, len, tag) ==
  /\ MayStart
  /\ inode' = InodeOf(n)
  /\ IF InodeOf(n).type = "file" /\ len <= NDirect
       THEN /\ op' = [NoOp EXCEPT !.cmd = "write", !.pc = "block", !.ino = n,
                                  !.len = len, !.tag = tag]
            /\ expect' = [m \in DOMAIN expect \ {n} |-> expect[m]]
       ELSE UNCHANGED <<op, expect>>
  /\ UNCHANGED <<disk, entered, mixed, again, crashes>>

\* Mutation: a block is allocated although the file has one there.
AllocateDataAlways == At("block") /\ TakeBlock(op.idx, "data")

AllocateData ==
  /\ At("block")
  /\ inode.block[op.idx] = 0
  /\ TakeBlock(op.idx, "data")

WriteDataTo(b) ==
  /\ inode' = [inode EXCEPT !.block[op.idx] = b]
  /\ block' = [block EXCEPT ![b] = DataBlock(op.tag)]
  /\ op' = [op EXCEPT !.idx = op.idx + 1,
                      !.pc = IF op.idx + 1 = op.len THEN "size" ELSE "block"]
  /\ UNCHANGED <<inode_bitmap, block_bitmap, bgdt, sb, inode_table, history>>

WriteData ==
  \/ At("data") /\ WriteDataTo(op.blk)
  \/ At("block") /\ inode.block[op.idx] # 0 /\ WriteDataTo(inode.block[op.idx])

FinishWrite ==
  /\ At("size")
  /\ inode' = [inode EXCEPT !.size = op.len]
  /\ inode_table' = [inode_table EXCEPT ![SlotOf(op.ino)] = inode']
  /\ expect' = [m \in DOMAIN expect \cup {op.ino} |->
                  IF m = op.ino THEN [i \in 0 .. op.len - 1 |-> op.tag]
                                ELSE expect[m]]
  /\ Return
  /\ UNCHANGED <<inode_bitmap, block_bitmap, bgdt, sb, block, entered,
                 mixed, again, ops, crashes>>

-----------------------------------------------------------------------------
(* delete_file: the inode is freed and cleared; its blocks stay marked and  *)
(* its directory entry stays                                                *)

DeleteFile(n) ==
  /\ MayStart
  /\ inode' = InodeOf(n)
  /\ inode_bitmap' = inode_bitmap \ {n}
  /\ op' = [NoOp EXCEPT !.cmd = "delete", !.pc = "bgdt", !.then = "clear",
                        !.di = 1, !.ino = n]
  /\ expect' = [m \in DOMAIN expect \ {n} |-> expect[m]]
  /\ entered' = entered \ {n}
  /\ again' = again + IF n \in inode_bitmap THEN 0 ELSE 1
  /\ UNCHANGED <<block_bitmap, bgdt, sb, inode_table, block, mixed,
                 crashes>>

ClearInode ==
  /\ At("clear")
  /\ inode_table' = [inode_table EXCEPT ![SlotOf(op.ino)] = EmptyInode]
  /\ Return
  /\ UNCHANGED <<inode_bitmap, block_bitmap, bgdt, sb, block, inode, history>>

-----------------------------------------------------------------------------
\* read_file: the global inode is all it leaves behind.
ReadFile(n) ==
  /\ At("idle")
  /\ inode' = InodeOf(n)
  /\ UNCHANGED <<disk, op, history>>

\* The steps between read_inode and the last use of the global inode.
InodeInUse ==
  \/ op.pc \in {"place", "dirblock", "writeback", "block", "data", "size"}
  \/ op.pc \in {"bgdt", "sb"} /\ op.then \in {"dirblock", "data"}

\* `dir` and `cat`, run by the keyboard interrupt: read_inode, too, is all
\* they leave behind.
IrqCommand ==
  /\ ~At("lost")
  /\ \E n \in IrqReads : inode' = InodeOf(n)
  /\ mixed' = (mixed \/ (InodeInUse /\ inode' # inode))
  /\ UNCHANGED <<disk, op, expect, entered, again, ops, crashes>>

\* Power is lost; kmain mounts the disk again (parse_superblock,
\* parse_blockgroup_descriptors).
Crash ==
  /\ crashes < MaxCrashes
  /\ op.pc \notin {"idle", "lost"}
  /\ crashes' = crashes + 1
  /\ op' = NoOp
  /\ inode' = EmptyInode
  /\ UNCHANGED <<disk, expect, entered, mixed, again, ops>>

\* Clients read, write to and delete the files they find on the disk, and
\* delete names that are still listed though their file is gone.
File == {n \in Inum : InodeOf(n).type = "file"}

Start ==
  \/ \E parent \in {Root} \cup File : CreateFile(parent)
  \/ NoFreeInode
  \/ \E n \in {Root} \cup File, len \in 1 .. NDirect + 1, tag \in Tag :
       WriteFile(n, len, tag)
  \/ \E n \in File : ReadFile(n)
  \/ \E n \in File \cup ((Inum \cap Listed(RootDir)) \ {Root}) : DeleteFile(n)

Step ==
  \/ UpdateGroupDescriptor \/ UpdateSuperblock
  \/ CreateInode \/ ReadParent \/ DirectoryFull
  \/ PlaceEntry \/ NewDirBlock \/ NoFreeBlock \/ WriteDirBlock \/ WriteBackParent
  \/ AllocateData \/ WriteData \/ FinishWrite
  \/ ClearInode

\* All calls made, or a search without a result: the model ends here.
Done ==
  /\ (At("idle") /\ ops = MaxOps) \/ At("lost")
  /\ UNCHANGED vars

Next == Start \/ Step \/ IrqCommand \/ Crash \/ Done

Spec == Init /\ [][Next]_vars

-----------------------------------------------------------------------------
(* Properties.  They say nothing of what follows a search of a full bitmap *)
(* (ext2.c:673, 694).                                                      *)

Operation ==
  [cmd : {"none", "create", "write", "delete"},
   pc : {"idle", "bgdt", "sb", "table", "parent", "place", "dirblock",
         "writeback", "block", "data", "size", "clear", "lost"},
   then : {"idle", "table", "dirblock", "data", "clear"},
   di : {-1, 0, 1}, db : {-1, 0}, ino : 0 .. IPG, parent : 0 .. IPG,
   idx : 0 .. NDirect, blk : Block, len : 0 .. NDirect, tag : {0} \cup Tag]

Counts == [inodes : 0 .. WordSize - 1, blocks : 0 .. WordSize - 1]

TypeOK ==
  /\ inode_bitmap \subseteq Inum
  /\ block_bitmap \subseteq Bit
  /\ bgdt \in Counts /\ sb \in Counts
  /\ inode_table \in [0 .. IPG - 1 -> Inode]
  /\ block \in [Block -> [Slot -> Entry]]
  /\ inode \in Inode
  /\ op \in Operation
  /\ DOMAIN expect \subseteq Inum
  /\ entered \subseteq Inum
  /\ mixed \in BOOLEAN
  /\ again \in Nat /\ ops \in Nat /\ crashes \in Nat

\* A count is off by no more than one for each time power was lost, and
\* `more` too high.
Near(count, clear, more) ==
  \E d \in -crashes .. crashes + more : count = (clear + d) % WordSize

\* Between operations the superblock's and the group descriptor's counters
\* agree with the bitmaps they are stepped apart from (ext2.c:548-554,
\* 584-590): exactly, until a power loss between the three writes leaves
\* each at most one off, which nothing repairs, or a name that `dir` still
\* lists is deleted again, which counts its inode as free once more
\* (ext2.c:161).
CountersFollowBitmaps ==
  op.pc = "idle" =>
    /\ Near(bgdt.inodes, IPG - Cardinality(inode_bitmap), again)
    /\ Near(bgdt.blocks, BPG - Cardinality(block_bitmap), 0)
    /\ Near(sb.inodes, IPG - Cardinality(inode_bitmap), again)
    /\ Near(sb.blocks, BPG - Cardinality(block_bitmap), 0)

\* At every moment, also just after a power loss, a block that the root
\* directory or a file on the disk points at is marked used and nothing else
\* points at it: the bitmap is written before the block, and the block before
\* the inode.  A command that changes the global inode under an operation
\* may break that: it has the operation write one file's blocks into another's
\* inode (ext2.c:404).
BlocksExclusive ==
  ~mixed => Exclusive(inode_table, block_bitmap)

\* A file reads back as the last write_file of it left it, whatever other
\* files are created, written and deleted after it and wherever power is
\* lost in another operation, as long as no command from the keyboard has
\* changed the global inode under an operation.
ReadBack ==
  ~mixed => \A n \in DOMAIN expect : Contents(InodeOf(n)) = expect[n]

\* Listed names whose inode is not a marked, regular file.
Dangling ==
  {n \in Listed(RootDir) \ {Root} : n \notin inode_bitmap \/ n \notin File}

\* Only delete_file, which leaves the entry (ext2.c:156-165), makes a listed
\* name dangle: create_file marks and initialises the inode before it enters
\* the name, so that no power loss leaves a name without a file.
DanglingOnlyByDelete ==
  [][Dangling' \subseteq Dangling \/ op'.cmd = "delete" \/ op.cmd = "delete"
     \/ mixed']_vars

\* What `dir` lists stays listed, in its place: an entry is added by
\* splitting the slack of another or past the last, never over one.
ListedStays ==
  [][mixed' \/ \A e \in Entries(RootDir) :
       e \in Entries(RootDir)' /\ InodeAt(RootDir, e)' = InodeAt(RootDir, e)]_vars

\* Blocks marked used that no file refers to, nor the operation under way.
InFlight ==
  {op.blk} \cup
  (IF op.cmd = "write" THEN {inode.block[i] : i \in Pointer} ELSE {})

LeakedBlocks ==
  block_bitmap \ (MkfsBits
                     \cup {BitOf(RefBlock(inode_table, r)) : r \in Refs(inode_table)}
                     \cup {BitOf(b) : b \in InFlight})

\* A block is lost only when delete_file clears an inode without freeing its
\* blocks (ext2.c:163-164), when power is lost, or when create_file takes over
\* an inode whose deletion a power loss cut short.
LeaksAreKnown ==
  [][\/ LeakedBlocks' \subseteq LeakedBlocks
     \/ ClearInode \/ Crash
     \/ CreateInode /\ crashes > 0
     \/ mixed']_vars

\* A file that create_file entered in the root directory is in the list that
\* `dir` prints (terminal.c:108).
CreatedIsListed ==
  (op.pc = "idle" /\ crashes = 0) => entered \subseteq Listed(RootDir)

\* A block that find_free_block returns belongs to no inode of the table, mkfs'
\* own included: it is a new one (ext2.c:391).
NewBlockIsNew ==
  [][NewDirBlock \/ AllocateData =>
       \A s \in 0 .. IPG - 1, i \in Pointer :
         inode_table[s].block[i] # op'.blk]_vars

\* The parent inode that add_directory_entry writes back (ext2.c:403) is the
\* parent's: a directory stays a directory.
ParentStaysDirectory == RootDir.type = "dir"

=============================================================================

----------------------------- MODULE Ext2_proofs -----------------------------
(***************************************************************************)
(* Proofs about Ext2: the types of its state, that the free counters       *)
(* follow the bitmaps, that no block is held twice and that a file reads   *)
(* back as it was written.                                                 *)
(***************************************************************************)
EXTENDS Ext2, FiniteSetTheorems, TLAPS

-----------------------------------------------------------------------------
(* The first of a set of numbers                                           *)

\* Numbers are well ordered.
LEMMA Minimum ==
  ASSUME NEW S, S \subseteq Nat, S # {}
  PROVE  \E x \in S : \A y \in S : x <= y
<1>1. PICK x \in S : \A y \in S : ~ (<<y, x>> \in OpToRel(<, Nat))
  BY NatLessThanWellFounded, WFMin
<1>2. \A y \in S : ~(y < x)
  BY <1>1 DEF OpToRel
<1>3. x \in Nat /\ \A y \in S : y \in Nat
  OBVIOUS
<1> QED BY <1>2, <1>3

LEMMA LeastIsFirst ==
  ASSUME NEW S, S \subseteq Nat, S # {}
  PROVE  Least(S) \in S /\ \A y \in S : Least(S) <= y
BY Minimum DEF Least

\* A bounded set of numbers has a last element.
LEMMA Maximum ==
  ASSUME NEW n \in Nat, NEW S, S \subseteq 0 .. n, S # {}
  PROVE  \E x \in S : \A y \in S : y <= x
<1> DEFINE T == {n - s : s \in S}
<1>1. T \subseteq Nat /\ T # {}
  <2>1. \A s \in S : n - s \in Nat
    OBVIOUS
  <2> QED BY <2>1
<1>2. PICK t \in T : \A u \in T : t <= u
  BY <1>1, Minimum
<1>3. PICK x \in S : t = n - x
  OBVIOUS
<1>4. ASSUME NEW y \in S PROVE y <= x
  <2>1. n - y \in T
    OBVIOUS
  <2>2. n - x <= n - y
    BY <1>2, <1>3, <2>1
  <2> QED BY <2>2
<1> QED BY <1>4

-----------------------------------------------------------------------------
(* Places on the disk                                                      *)

\* Every inode of the group has a slot of its own.
LEMMA SlotsDistinct ==
  /\ \A n \in Inum : SlotOf(n) \in 0 .. IPG - 1
  /\ \A n, m \in Inum : SlotOf(n) = SlotOf(m) => n = m
<1>1. \A n \in Inum : SlotOf(n) = IF n = IPG THEN 0 ELSE n
  BY SizesAssumption DEF SlotOf, Inum, Root
<1> QED BY <1>1, SizesAssumption DEF Inum, Root

\* A bit of the bitmap for every block, and blocks below the last its own.
LEMMA BitsOfBlocks ==
  /\ \A b \in Block : BitOf(b) \in Bit
  /\ \A b \in Bit : BitOf(b) = b
BY SizesAssumption DEF Block, Bit, BitOf

\* find_free_inode
LEMMA InodeFound ==
  ASSUME ~FullInodes
  PROVE  FoundInode \in Inum /\ FoundInode \notin inode_bitmap
<1> DEFINE free == Inum \ inode_bitmap
<1>1. free \subseteq Nat /\ free # {}
  BY SizesAssumption DEF Inum, FullInodes
<1> HIDE DEF free
<1>2. Least(free) \in free
  BY <1>1, LeastIsFirst
<1> QED BY <1>2 DEF FoundInode, free

\* find_free_block
LEMMA BlockFound ==
  ASSUME ~FullBlocks
  PROVE  FoundBlock \in Block /\ FoundBlock \in Bit \ block_bitmap
<1> DEFINE free == Bit \ block_bitmap
<1>1. free \subseteq Nat /\ free \subseteq Block /\ free # {}
  BY SizesAssumption DEF Bit, Block, FullBlocks
<1> HIDE DEF free
<1>2. Least(free) \in free
  BY <1>1, LeastIsFirst
<1> QED BY <1>1, <1>2 DEF FoundBlock, free

-----------------------------------------------------------------------------
(* Directory blocks                                                        *)

\* The walk is well defined.
LEMMA Walk ==
  ASSUME NEW entries
  PROVE  /\ Visited(entries) \subseteq Slot
         /\ Visited(entries) = ReachedBy(entries, Visited(entries))
<1> DEFINE L == {s \in Slot : \A X \in SUBSET Slot :
                                ReachedBy(entries, X) \subseteq X => s \in X}
<1>1. \A X, Y : X \subseteq Y => ReachedBy(entries, X) \subseteq ReachedBy(entries, Y)
  BY DEF ReachedBy
<1>2. \A X : ReachedBy(entries, X) \in SUBSET Slot
  BY DEF ReachedBy
<1>3. ReachedBy(entries, L) \subseteq L
  <2> SUFFICES ASSUME NEW X \in SUBSET Slot, ReachedBy(entries, X) \subseteq X
               PROVE  ReachedBy(entries, L) \subseteq X
    BY <1>2
  <2>1. L \subseteq X
    OBVIOUS
  <2> QED BY <1>1, <2>1
<1>4. L \subseteq ReachedBy(entries, L)
  <2>1. ReachedBy(entries, ReachedBy(entries, L)) \subseteq ReachedBy(entries, L)
    BY <1>1, <1>3
  <2> QED BY <1>2, <2>1
<1>5. L \in SUBSET Slot /\ L = ReachedBy(entries, L)
  BY <1>3, <1>4
<1> HIDE DEF L
<1> QED BY <1>5 DEF Visited

LEMMA WalkEndType ==
  ASSUME NEW entries \in [Slot -> Entry]
  PROVE  WalkEnd(entries) \in Nat
<1> DEFINE seen == Visited(entries)
<1>1. CASE seen = {}
  BY <1>1 DEF WalkEnd
<1>2. CASE seen # {}
  <2> DEFINE last == CHOOSE s \in seen : \A t \in seen : t <= s
  <2>1. seen \subseteq 0 .. K - 1
    BY Walk DEF Slot
  <2>2. \E s \in seen : \A t \in seen : t <= s
    BY <1>2, <2>1, Maximum, SizesAssumption
  <2>3. last \in Slot
    BY <2>1, <2>2 DEF Slot
  <2>4. WalkEnd(entries) = last + entries[last].size
    BY <1>2 DEF WalkEnd
  <2>5. entries[last].size \in Nat
    BY <2>3 DEF Entry
  <2>6. last \in Nat
    BY <2>3, SizesAssumption DEF Slot
  <2> HIDE DEF last
  <2> QED BY <2>4, <2>5, <2>6
<1> QED BY <1>1, <1>2

LEMMA WithEntryType ==
  ASSUME NEW entries \in [Slot -> Entry], NEW n \in {0} \cup Inum \cup Tag
  PROVE  WithEntry(entries, n) \in [Slot -> Entry]
<1>1. CASE Slack(entries) # {}
  <2> DEFINE s == Least(Slack(entries))
  <2>1. Slack(entries) \subseteq Slot
    BY Walk DEF Slack
  <2>2. s \in Slack(entries)
    BY <1>1, <2>1, LeastIsFirst, SizesAssumption DEF Slot
  <2>3. s \in Slot /\ entries[s].size \in Nat /\ entries[s].size > 1
    BY <2>1, <2>2 DEF Slack, Entry
  <2> HIDE DEF s
  <2> DEFINE one == [entries EXCEPT ![s].size = 1]
             next == [inode |-> n, size |-> entries[s].size - 1]
  <2>4. one \in [Slot -> Entry]
    <3>1. PICK k \in Nat : k = 1
      OBVIOUS
    <3>2. [entries[s] EXCEPT !.size = k] \in Entry
      BY <2>3 DEF Entry
    <3> QED BY <2>3, <3>1, <3>2
  <2>5. next \in Entry
    BY <2>3 DEF Entry
  <2>6. WithEntry(entries, n) = [one EXCEPT ![s + 1] = next]
    BY <1>1 DEF WithEntry, s
  <2> HIDE DEF one, next
  <2> QED BY <2>4, <2>5, <2>6
<1>2. CASE Slack(entries) = {}
  <2> DEFINE next == [inode |-> n, size |-> 1]
  <2>1. next \in Entry
    BY DEF Entry
  <2>2. WithEntry(entries, n) = [entries EXCEPT ![WalkEnd(entries)] = next]
    BY <1>2 DEF WithEntry
  <2> HIDE DEF next
  <2> QED BY <2>1, <2>2
<1> QED BY <1>1, <1>2

LEMMA TargetType ==
  ASSUME NEW dir
  PROVE  /\ TargetIndex(dir) \in 0 .. NDirect
         /\ TargetIndex(dir) < NDirect => TargetIndex(dir) \in Pointer
<1> DEFINE fit == {i \in Pointer :
                     dir.block[i] = 0 \/ HasRoom(block[dir.block[i]])}
<1>1. fit \subseteq Pointer
  OBVIOUS
<1>2. TargetIndex(dir) = IF fit = {} THEN NDirect ELSE Least(fit)
  BY DEF TargetIndex
<1>3. fit # {} => Least(fit) \in fit
  BY <1>1, LeastIsFirst, SizesAssumption DEF Pointer
<1>4. \A i \in Pointer : i \in 0 .. NDirect
  BY SizesAssumption DEF Pointer
<1>5. NDirect \in 0 .. NDirect /\ ~(NDirect < NDirect)
  BY SizesAssumption
<1> HIDE DEF fit
<1>6. CASE fit = {}
  BY <1>2, <1>5, <1>6
<1>7. CASE fit # {}
  BY <1>1, <1>2, <1>3, <1>4, <1>7
<1> QED BY <1>6, <1>7

-----------------------------------------------------------------------------
(* Types and control                                                       *)

\* Where the operation under way will be once the counters are written.
Stage == IF op.pc \in {"bgdt", "sb"} THEN op.then ELSE op.pc

\* What the operation's locals hold at each of its steps.
Control ==
  /\ op.pc = "idle" => op = NoOp
  /\ op.pc \in {"bgdt", "sb"} => op.then # "idle"
  /\ Stage \in {"table", "parent", "place", "dirblock", "writeback"} =>
       op.cmd = "create" /\ op.ino \in Inum /\ op.parent \in Inum
  /\ Stage \in {"block", "data"} =>
       op.cmd = "write" /\ op.ino \in Inum /\ op.idx < op.len /\ op.tag \in Tag
  /\ Stage = "size" =>
       op.cmd = "write" /\ op.ino \in Inum /\ op.idx = op.len /\ op.tag \in Tag
  /\ Stage = "clear" => op.cmd = "delete" /\ op.ino \in Inum
  /\ Stage = "dirblock" => op.idx \in Pointer

Types == TypeOK /\ Control

LEMMA RootIsInode == Root \in Inum
BY SizesAssumption DEF Root, Inum

LEMMA NoOpType == NoOp \in Operation
<1>1. 0 \in Block /\ 0 \in 0 .. IPG /\ 0 \in 0 .. NDirect
  BY SizesAssumption DEF Block
<1> QED BY <1>1 DEF NoOp, Operation

\* What the bitmaps of the disk found mark, apart from what is in its tables.
LEMMA MkfsMarks ==
  /\ FirstDataBlock \in {0, 1} /\ \A b \in MkfsBlocks : b \in Int
  /\ MkfsInodes \subseteq Inum /\ Root \in MkfsInodes
  /\ MkfsBits \subseteq Bit /\ 0 \in MkfsBits
<1>1. /\ FirstDataBlock \in {0, 1} /\ FirstDataBlock \in MkfsBlocks
      /\ \A b \in MkfsBlocks : b \in Int /\ b - FirstDataBlock \in Bit
      /\ MkfsInodes \subseteq Inum /\ Root \in MkfsInodes
  BY MkfsAssumption
<1>2. MkfsBits \subseteq Bit
  BY <1>1 DEF MkfsBits
<1>3. 0 \in MkfsBits
  BY <1>1 DEF MkfsBits
<1> QED BY <1>1, <1>2, <1>3

\* The free counters of the disk found are in range.
LEMMA MkfsCounts ==
  /\ IsFiniteSet(MkfsInodes) /\ Cardinality(MkfsInodes) \in 0 .. IPG
  /\ IsFiniteSet(MkfsBits) /\ Cardinality(MkfsBits) \in 0 .. BPG
  /\ Cardinality(MkfsBlocks) = Cardinality(MkfsBits)
<1>1. IsFiniteSet(Inum) /\ Cardinality(Inum) = IPG
  <2>1. 1 \in Int /\ IPG \in Int /\ ~(1 > IPG) /\ IPG - 1 + 1 = IPG
    BY SizesAssumption DEF Root
  <2> QED BY <2>1, FS_Interval DEF Inum
<1>2. IsFiniteSet(Bit) /\ Cardinality(Bit) = BPG
  <2>1. 0 \in Int /\ BPG - 1 \in Int /\ ~(0 > BPG - 1) /\ BPG - 1 - 0 + 1 = BPG
    BY SizesAssumption
  <2> QED BY <2>1, FS_Interval DEF Bit
<1>3. MkfsInodes \subseteq Inum /\ MkfsBits \subseteq Bit
  BY MkfsMarks
<1>4. /\ IsFiniteSet(MkfsInodes) /\ Cardinality(MkfsInodes) <= IPG
      /\ IsFiniteSet(MkfsBits) /\ Cardinality(MkfsBits) <= BPG
  BY <1>1, <1>2, <1>3, FS_Subset
<1>5. Cardinality(MkfsInodes) \in Nat /\ Cardinality(MkfsBits) \in Nat
  BY <1>4, FS_CardinalityType
<1>6. FirstDataBlock \in {0, 1} /\ \A b \in MkfsBlocks : b \in Int
  BY MkfsMarks
<1>7. ExistsBijection(MkfsBits, MkfsBlocks)
  <2> DEFINE f == [k \in MkfsBits |-> k + FirstDataBlock]
  <2>1. \A b \in MkfsBlocks : b \in Int /\ b - FirstDataBlock \in MkfsBits
    BY <1>6 DEF MkfsBits
  <2>2. \A k \in MkfsBits : k \in Int /\ k + FirstDataBlock \in MkfsBlocks
    BY <1>6 DEF MkfsBits
  <2>3. \A b \in MkfsBlocks : b = f[b - FirstDataBlock]
    BY <1>6, <2>1
  <2>4. f \in [MkfsBits -> MkfsBlocks]
    BY <2>2
  <2>5. \A k, l \in MkfsBits : f[k] = f[l] => k = l
    BY <1>6, <2>2
  <2>6. \A b \in MkfsBlocks : \E k \in MkfsBits : f[k] = b
    BY <2>1, <2>3
  <2> HIDE DEF f
  <2>7. f \in Bijection(MkfsBits, MkfsBlocks)
    BY <2>4, <2>5, <2>6 DEF Bijection, Injection, Surjection, IsInjective
  <2> QED BY <2>7 DEF ExistsBijection
<1>8. Cardinality(MkfsBlocks) = Cardinality(MkfsBits)
  BY <1>4, <1>7, FS_Bijection
<1> QED BY <1>4, <1>5, <1>8, SizesAssumption

LEMMA CountInRange ==
  ASSUME NEW x \in Int
  PROVE  x % WordSize \in 0 .. WordSize - 1
BY SizesAssumption

LEMMA PlusType ==
  ASSUME NEW counts \in Counts, NEW di \in Int, NEW db \in Int
  PROVE  Plus(counts, di, db) \in Counts
<1>1. counts.inodes + di \in Int /\ counts.blocks + db \in Int
  BY SizesAssumption DEF Counts
<1>2. /\ (counts.inodes + di) % WordSize \in 0 .. WordSize - 1
      /\ (counts.blocks + db) % WordSize \in 0 .. WordSize - 1
  BY <1>1, CountInRange
<1> QED BY <1>2 DEF Plus, Counts

\* The operation whose search of a bitmap finds nothing is not followed.
LEMMA LostStep ==
  ASSUME TypeOK, NoFreeBlock \/ NoFreeInode
  PROVE  /\ UNCHANGED <<inode_bitmap, block_bitmap, bgdt, sb, inode_table, block>>
         /\ UNCHANGED <<inode, expect, entered, mixed, again, crashes>>
         /\ op.pc \in {"idle", "place", "block"} /\ op' \in Operation
         /\ op'.pc = "lost" /\ op'.cmd = op.cmd /\ op'.ino = op.ino /\ op'.blk = op.blk
         /\ ops' \in Nat
<1>1. Goto("lost") /\ op.pc \in {"idle", "place", "block"}
  BY DEF NoFreeBlock, NoFreeInode, MayStart, At
<1>2. /\ op' \in Operation /\ op'.pc = "lost" /\ op'.cmd = op.cmd
      /\ op'.ino = op.ino /\ op'.blk = op.blk
  BY <1>1 DEF Goto, TypeOK, Operation
<1>3. /\ UNCHANGED <<inode_bitmap, block_bitmap, bgdt, sb, inode_table, block>>
      /\ UNCHANGED <<inode, expect, entered, mixed, again, crashes>>
  BY DEF NoFreeBlock, NoFreeInode, disk, history
<1>4. ops' \in Nat
  BY DEF NoFreeBlock, NoFreeInode, MayStart, history, TypeOK
<1> QED BY <1>1, <1>2, <1>3, <1>4

LEMMA TypesInit == Init => Types
<1> SUFFICES ASSUME Init PROVE Types
  OBVIOUS
<1>1. inode_bitmap \subseteq Inum /\ block_bitmap \subseteq Bit
  BY MkfsMarks DEF Init
<1>2. bgdt \in Counts /\ sb \in Counts
  BY MkfsCounts, SizesAssumption DEF Init, Counts
<1>3. PICK mkfs \in MkfsDisks : inode_table = mkfs.table /\ block = mkfs.block
  BY Zenon DEF Init
<1>4. /\ inode_table \in [0 .. IPG - 1 -> Inode]
      /\ block \in [Block -> [Slot -> Entry]]
  BY <1>3, MkfsAssumption
<1>5. inode \in Inode
  BY SizesAssumption DEF Init, EmptyInode, NoBlocks, Inode, Block
<1>6. op \in Operation
  BY NoOpType DEF Init
<1>7. DOMAIN expect \subseteq Inum
  BY DEF Init
<1>8. Control
  BY DEF Init, Control, NoOp, Stage
<1> QED BY <1>1, <1>2, <1>4, <1>5, <1>6, <1>7, <1>8 DEF Init, Types, TypeOK

LEMMA TypesStep ==
  ASSUME Types, [Next]_vars
  PROVE  Types'
<1>1. TypeOK /\ Control
  BY DEF Types
<1> USE <1>1
<1>2. CASE UNCHANGED vars
  BY <1>2 DEF vars, disk, history, Types, TypeOK, Control, Stage
<1>3. ASSUME UpdateGroupDescriptor PROVE Types'
  <2>1. bgdt' \in Counts
    BY <1>3, PlusType DEF UpdateGroupDescriptor, TypeOK, Operation
  <2>2. op' \in Operation
    BY <1>3 DEF UpdateGroupDescriptor, Goto, TypeOK, Operation
  <2>3. Control'
    BY <1>3 DEF UpdateGroupDescriptor, At, Goto, TypeOK, Operation, Control, Stage
  <2> QED BY <1>3, <2>1, <2>2, <2>3 DEF UpdateGroupDescriptor, history, Types, TypeOK
<1>4. ASSUME UpdateSuperblock PROVE Types'
  <2>1. sb' \in Counts
    BY <1>4, PlusType DEF UpdateSuperblock, TypeOK, Operation
  <2>2. op' \in Operation
    BY <1>4 DEF UpdateSuperblock, Goto, TypeOK, Operation
  <2>3. Control'
    BY <1>4 DEF UpdateSuperblock, At, Goto, TypeOK, Operation, Control, Stage
  <2> QED BY <1>4, <2>1, <2>2, <2>3 DEF UpdateSuperblock, history, Types, TypeOK
<1>5. ASSUME NEW idx \in Pointer, NEW then \in {"dirblock", "data"},
             At("place") \/ At("block"), TakeBlock(idx, then),
             At("block") => idx = op.idx, At("place") <=> then = "dirblock"
      PROVE  Types'
  <2>1. PICK b :
          /\ b = FoundBlock /\ ~FullBlocks
          /\ block_bitmap' = block_bitmap \cup {BitOf(b)}
          /\ op' = [op EXCEPT !.pc = "bgdt", !.then = then, !.di = 0, !.db = -1,
                              !.idx = idx, !.blk = b]
    BY <1>5 DEF TakeBlock
  <2>2. b \in Block /\ BitOf(b) \in Bit /\ idx \in 0 .. NDirect
    BY <2>1, BlockFound, BitsOfBlocks, SizesAssumption DEF Pointer
  <2>3. op' \in Operation
    BY <2>1, <2>2 DEF TypeOK, Operation
  <2>4. Control'
    BY <1>5, <2>1 DEF At, TypeOK, Operation, Control, Stage
  <2>5. UNCHANGED <<inode_bitmap, bgdt, sb, inode_table, block, inode, history>>
    BY <1>5, Zenon DEF TakeBlock
  <2>6. block_bitmap' \subseteq Bit
    BY <2>1, <2>2 DEF TypeOK
  <2> QED BY <2>3, <2>4, <2>5, <2>6 DEF history, Types, TypeOK
<1>6. ASSUME NEW parent \in {Root} \cup File, CreateFile(parent) PROVE Types'
  <2>1. PICK n :
          /\ n = FoundInode /\ ~FullInodes
          /\ inode_bitmap' = inode_bitmap \cup {n}
          /\ op' = [NoOp EXCEPT !.cmd = "create", !.pc = "bgdt", !.then = "table",
                                !.di = -1, !.ino = n, !.parent = parent]
          /\ expect' = [m \in DOMAIN expect \ {n} |-> expect[m]]
    BY <1>6 DEF CreateFile
  <2>2. n \in Inum /\ parent \in Inum /\ Inum \subseteq 0 .. IPG
    BY <2>1, InodeFound, RootIsInode, SizesAssumption DEF File, Inum
  <2>3. op' \in Operation
    BY <2>1, <2>2, NoOpType DEF NoOp, Operation
  <2>4. Control'
    BY <2>1, <2>2 DEF NoOp, Control, Stage
  <2>5. ops' \in Nat
    BY <1>6 DEF CreateFile, MayStart, TypeOK
  <2> QED BY <1>6, <2>1, <2>2, <2>3, <2>4, <2>5 DEF CreateFile, Types, TypeOK
<1>7. ASSUME CreateInode PROVE Types'
  <2>1. NewInode \in Inode
    BY SizesAssumption DEF NewInode, NoBlocks, Inode, Block
  <2>2. inode_table' \in [0 .. IPG - 1 -> Inode]
    BY <1>7, <2>1 DEF CreateInode, TypeOK
  <2>3. op' \in Operation
    BY <1>7 DEF CreateInode, Goto, TypeOK, Operation
  <2>4. Control'
    BY <1>7 DEF CreateInode, At, Goto, TypeOK, Operation, Control, Stage
  <2> QED BY <1>7, <2>2, <2>3, <2>4 DEF CreateInode, history, Types, TypeOK
<1>8. ASSUME Return PROVE op' \in Operation /\ Control'
  BY <1>8, NoOpType DEF Return, NoOp, Control, Stage
<1>9. ASSUME op.ino \in Inum, NEW inRoot, Created(inRoot)
      PROVE  /\ DOMAIN expect' \subseteq Inum /\ entered' \subseteq Inum
             /\ mixed' \in BOOLEAN
             /\ again' \in Nat /\ ops' \in Nat /\ crashes' \in Nat
  BY <1>9 DEF Created, TypeOK
<1>10. ASSUME ReadParent PROVE Types'
  <2>1. op.ino \in Inum /\ op.parent \in Inum
    BY <1>10 DEF ReadParent, At, Control, Stage
  <2>2. InodeOf(op.parent) \in Inode
    BY <2>1, SlotsDistinct DEF InodeOf, TypeOK
  <2>3. CASE InodeOf(op.parent).type = "dir"
    <3>1. op' \in Operation
      BY <1>10, <2>3 DEF ReadParent, Goto, TypeOK, Operation
    <3>2. Control'
      BY <1>10, <2>3 DEF ReadParent, At, Goto, TypeOK, Operation, Control, Stage
    <3> QED BY <1>10, <2>2, <2>3, <3>1, <3>2
            DEF ReadParent, disk, history, Types, TypeOK
  <2>4. CASE InodeOf(op.parent).type # "dir"
    BY <1>8, <1>9, <1>10, <2>1, <2>2, <2>4 DEF ReadParent, disk, Types, TypeOK
  <2> QED BY <2>3, <2>4
<1>11. ASSUME DirectoryFull PROVE Types'
  <2>1. op.ino \in Inum
    BY <1>11 DEF DirectoryFull, At, Control, Stage
  <2> QED BY <1>8, <1>9, <1>11, <2>1 DEF DirectoryFull, disk, Types, TypeOK
<1>12. ASSUME NEW n \in Inum PROVE InodeOf(n) \in Inode
  BY SlotsDistinct DEF InodeOf, TypeOK
<1>13. ASSUME NEW b \in Block, NEW i \in Pointer, NEW size \in Nat
       PROVE  [inode EXCEPT !.block[i] = b, !.size = size] \in Inode
  BY DEF TypeOK, Inode
<1>14. ASSUME PlaceEntry PROVE Types'
  <2> DEFINE i == TargetIndex(inode)
             b == inode.block[i]
             grown == WalkEnd(block[b]) + 1
  <2>1. /\ op.pc = "place" /\ i < NDirect /\ b # 0
        /\ block' = [block EXCEPT ![b] = WithEntry(block[b], op.ino)]
        /\ UNCHANGED <<inode_bitmap, block_bitmap, bgdt, sb, inode_table>>
    BY <1>14 DEF PlaceEntry, At
  <2>2. op.ino \in Inum /\ op.parent \in Inum
    BY <2>1 DEF Control, Stage
  <2>3. i \in Pointer
    BY <2>1, TargetType
  <2>4. b \in Block
    BY <2>3 DEF TypeOK, Inode
  <2>5. block[b] \in [Slot -> Entry]
    BY <2>4 DEF TypeOK
  <2>6. WithEntry(block[b], op.ino) \in [Slot -> Entry]
    BY <2>2, <2>5, WithEntryType
  <2>7. grown \in Nat
    BY <2>5, WalkEndType
  <2>8. block' \in [Block -> [Slot -> Entry]]
    BY <2>1, <2>6 DEF TypeOK
  <2>9. \/ /\ inode' = [inode EXCEPT !.size = grown]
           /\ Goto("writeback") /\ UNCHANGED history
        \/ UNCHANGED inode /\ Return /\ Created(op.parent = Root)
    BY <1>14 DEF PlaceEntry
  <2> HIDE DEF i, b, grown
  <2>10. CASE /\ inode' = [inode EXCEPT !.size = grown]
              /\ Goto("writeback") /\ UNCHANGED history
    <3>1. inode' \in Inode
      BY <2>7, <2>10 DEF TypeOK, Inode
    <3>2. op' \in Operation
      BY <2>10 DEF Goto, TypeOK, Operation
    <3>3. Control'
      BY <2>1, <2>10 DEF Goto, TypeOK, Operation, Control, Stage
    <3> QED BY <2>1, <2>8, <2>10, <3>1, <3>2, <3>3 DEF history, Types, TypeOK
  <2>11. CASE UNCHANGED inode /\ Return /\ Created(op.parent = Root)
    <3>1. op' \in Operation /\ Control'
      BY <1>8, <2>11
    <3>2. /\ DOMAIN expect' \subseteq Inum /\ entered' \subseteq Inum
          /\ mixed' \in BOOLEAN
          /\ again' \in Nat /\ ops' \in Nat /\ crashes' \in Nat
      BY <1>9, <2>2, <2>11
    <3> QED BY <2>1, <2>8, <2>11, <3>1, <3>2 DEF Types, TypeOK
  <2> QED BY <2>9, <2>10, <2>11
<1>15. ASSUME NewDirBlock PROVE Types'
  <2>1. TargetIndex(inode) \in Pointer
    BY <1>15, TargetType DEF NewDirBlock
  <2> QED BY <1>5, <1>15, <2>1 DEF NewDirBlock, At
<1>16. ASSUME WriteDirBlock PROVE Types'
  <2>1. op.idx \in Pointer /\ op.ino \in Inum /\ op.blk \in Block
    BY <1>16 DEF WriteDirBlock, At, Control, Stage, TypeOK, Operation
  <2>2. inode.size + K \in Nat
    BY SizesAssumption DEF TypeOK, Inode
  <2>3. inode' \in Inode
    BY <1>13, <1>16, <2>1, <2>2 DEF WriteDirBlock
  <2> DEFINE first == [inode |-> op.ino, size |-> 0]
  <2>4. first \in Entry /\ EmptyBlock \in [Slot -> Entry]
    BY <2>1 DEF Entry, EmptyBlock, NoEntry
  <2>5. block' = [block EXCEPT ![op.blk] = [EmptyBlock EXCEPT ![0] = first]]
    BY <1>16 DEF WriteDirBlock
  <2> HIDE DEF first
  <2>6. block' \in [Block -> [Slot -> Entry]]
    BY <2>4, <2>5 DEF TypeOK
  <2>7. op' \in Operation
    BY <1>16 DEF WriteDirBlock, Goto, TypeOK, Operation
  <2>8. Control'
    BY <1>16 DEF WriteDirBlock, At, Goto, TypeOK, Operation, Control, Stage
  <2> QED BY <1>16, <2>3, <2>6, <2>7, <2>8 DEF WriteDirBlock, history, Types, TypeOK
<1>17. ASSUME WriteBackParent PROVE Types'
  <2>1. op.ino \in Inum
    BY <1>17 DEF WriteBackParent, At, Control, Stage
  <2>2. inode_table' \in [0 .. IPG - 1 -> Inode]
    BY <1>17 DEF WriteBackParent, TypeOK
  <2> QED BY <1>8, <1>9, <1>17, <2>1, <2>2 DEF WriteBackParent, Types, TypeOK
<1>18. ASSUME NEW n \in {Root} \cup File, NEW len \in 1 .. NDirect + 1,
              NEW tag \in Tag, WriteFile(n, len, tag)
       PROVE  Types'
  <2>1. n \in Inum /\ n \in 0 .. IPG /\ len \in Nat /\ 0 < len
    BY RootIsInode, SizesAssumption DEF File, Inum
  <2>2. inode' \in Inode /\ ops' \in Nat /\ op.pc = "idle"
    BY <1>12, <1>18, <2>1 DEF WriteFile, MayStart, TypeOK
  <2>3. CASE len <= NDirect /\ op' = [NoOp EXCEPT !.cmd = "write", !.pc = "block",
                                        !.ino = n, !.len = len, !.tag = tag]
             /\ expect' = [m \in DOMAIN expect \ {n} |-> expect[m]]
    <3>1. len \in 0 .. NDirect
      BY <2>1, <2>3, SizesAssumption
    <3>2. op' \in Operation
      BY <2>1, <2>3, <3>1, NoOpType DEF NoOp, Operation
    <3>3. Control'
      BY <2>1, <2>3 DEF NoOp, Control, Stage
    <3> QED BY <1>18, <2>2, <2>3, <3>2, <3>3 DEF WriteFile, disk, Types, TypeOK
  <2>4. CASE UNCHANGED <<op, expect>>
    <3>1. Control'
      BY <2>4 DEF Control, Stage
    <3> QED BY <1>18, <2>2, <2>4, <3>1 DEF WriteFile, disk, Types, TypeOK
  <2> QED BY <1>18, <2>3, <2>4 DEF WriteFile
<1>19. ASSUME AllocateData PROVE Types'
  <2>1. op.pc = "block" /\ TakeBlock(op.idx, "data")
    BY <1>19 DEF AllocateData, At
  <2>2. op.idx < op.len
    BY <2>1 DEF Control, Stage
  <2>3. op.idx \in Pointer
    BY <2>2, SizesAssumption DEF Pointer, TypeOK, Operation
  <2> QED BY <1>5, <2>1, <2>3 DEF At
<1>20. ASSUME WriteData PROVE Types'
  <2>1. PICK b : /\ WriteDataTo(b)
                 /\ b = op.blk \/ b = inode.block[op.idx]
                 /\ op.pc \in {"data", "block"}
    BY <1>20 DEF WriteData, At
  <2>2. op.cmd = "write" /\ op.ino \in Inum /\ op.idx < op.len /\ op.tag \in Tag
    BY <2>1 DEF Control, Stage
  <2>3. op.idx \in Pointer
    BY <2>2, SizesAssumption DEF Pointer, TypeOK, Operation
  <2>4. b \in Block
    BY <2>1, <2>3 DEF TypeOK, Inode, Operation
  <2>5. inode' \in Inode
    BY <2>1, <2>3, <2>4 DEF WriteDataTo, TypeOK, Inode
  <2>6. DataBlock(op.tag) \in [Slot -> Entry]
    BY <2>2, SizesAssumption DEF DataBlock, Entry
  <2>7. block' \in [Block -> [Slot -> Entry]]
    BY <2>1, <2>6 DEF WriteDataTo, TypeOK
  <2>8. op.idx + 1 \in 0 .. NDirect
    BY <2>3, SizesAssumption DEF Pointer
  <2>9. op' \in Operation
    BY <2>1, <2>8 DEF WriteDataTo, TypeOK, Operation
  <2>10. Control'
    BY <2>1, <2>2, SizesAssumption DEF WriteDataTo, TypeOK, Operation, Control, Stage
  <2> QED BY <2>1, <2>5, <2>7, <2>9, <2>10 DEF WriteDataTo, history, Types, TypeOK
<1>21. ASSUME FinishWrite PROVE Types'
  <2>1. op.ino \in Inum /\ op.len \in Nat
    BY <1>21 DEF FinishWrite, At, Control, Stage, TypeOK, Operation
  <2>2. inode' \in Inode
    BY <1>21, <2>1 DEF FinishWrite, TypeOK, Inode
  <2>3. inode_table' \in [0 .. IPG - 1 -> Inode]
    BY <1>21, <2>2 DEF FinishWrite, TypeOK
  <2>4. DOMAIN expect' \subseteq Inum
    BY <1>21, <2>1 DEF FinishWrite, TypeOK
  <2> QED BY <1>8, <1>21, <2>2, <2>3, <2>4 DEF FinishWrite, Types, TypeOK
<1>22. ASSUME NEW n \in Inum, DeleteFile(n) PROVE Types'
  <2>1. inode' \in Inode /\ ops' \in Nat /\ again' \in Nat
    BY <1>12, <1>22 DEF DeleteFile, MayStart, TypeOK
  <2>2. n \in 0 .. IPG
    BY SizesAssumption DEF Inum
  <2>3. op' \in Operation
    BY <1>22, <2>2, NoOpType DEF DeleteFile, NoOp, Operation
  <2>4. Control'
    BY <1>22 DEF DeleteFile, NoOp, Control, Stage
  <2>5. /\ inode_bitmap' \subseteq Inum /\ DOMAIN expect' \subseteq Inum
        /\ entered' \subseteq Inum
    BY <1>22 DEF DeleteFile, TypeOK
  <2> QED BY <1>22, <2>1, <2>3, <2>4, <2>5 DEF DeleteFile, Types, TypeOK
<1>23. ASSUME ClearInode PROVE Types'
  <2>1. EmptyInode \in Inode
    BY SizesAssumption DEF EmptyInode, NoBlocks, Inode, Block
  <2>2. inode_table' \in [0 .. IPG - 1 -> Inode]
    BY <1>23, <2>1 DEF ClearInode, TypeOK
  <2> QED BY <1>8, <1>23, <2>2 DEF ClearInode, history, Types, TypeOK
<1>24. ASSUME NEW n \in File, ReadFile(n) PROVE Types'
  <2>1. inode' \in Inode
    BY <1>12, <1>24 DEF ReadFile, File
  <2>2. Control'
    BY <1>24 DEF ReadFile, Control, Stage
  <2> QED BY <1>24, <2>1, <2>2 DEF ReadFile, disk, history, Types, TypeOK
<1>25. ASSUME IrqCommand PROVE Types'
  <2>1. inode' \in Inode
    BY <1>12, <1>25, IrqAssumption DEF IrqCommand
  <2>2. Control'
    BY <1>25 DEF IrqCommand, Control, Stage
  <2>3. mixed' \in BOOLEAN
    BY <1>25 DEF IrqCommand, TypeOK
  <2> QED BY <1>25, <2>1, <2>2, <2>3 DEF IrqCommand, disk, Types, TypeOK
<1>26. ASSUME Crash PROVE Types'
  <2>1. EmptyInode \in Inode
    BY SizesAssumption DEF EmptyInode, NoBlocks, Inode, Block
  <2>2. op' \in Operation /\ Control'
    BY <1>8, <1>26 DEF Crash, Return
  <2> QED BY <1>26, <2>1, <2>2 DEF Crash, disk, Types, TypeOK
<1>27. ASSUME Done PROVE Types'
  BY <1>2, <1>27 DEF Done
<1>28. ASSUME NoFreeBlock \/ NoFreeInode PROVE Types'
  <2>1. op' \in Operation /\ op'.pc = "lost" /\ ops' \in Nat
    BY <1>28, LostStep
  <2>2. Control'
    BY <2>1 DEF Control, Stage
  <2> QED BY <1>28, <2>1, <2>2, LostStep DEF Types, TypeOK
<1>29. ASSUME Start PROVE Types'
  BY <1>6, <1>18, <1>22, <1>24, <1>28, <1>29 DEF Start, File
<1> QED
  BY <1>2, <1>3, <1>4, <1>7, <1>10, <1>11, <1>14, <1>15, <1>16, <1>17, <1>19,
     <1>20, <1>21, <1>23, <1>25, <1>26, <1>27, <1>28, <1>29 DEF Next, Step

\* The state of the driver and of the disk is well typed, whatever the sizes
\* and the commands run by the keyboard interrupt.
THEOREM TypeCorrect == Spec => []TypeOK
<1>1. Init => Types
  BY TypesInit
<1>2. Types /\ [Next]_vars => Types'
  BY TypesStep
<1>3. Types => TypeOK
  BY DEF Types
<1> QED BY <1>1, <1>2, <1>3, PTL DEF Spec

-----------------------------------------------------------------------------
(* The counters                                                            *)

\* A count is the number of clear bits, give or take what c power losses and
\* `more` deletions too many have left.
Off(c, count, clear, more) ==
  \E d \in -c .. c + more : count = (clear + d) % WordSize

\* What is still to be added to a counter that is written at one of these
\* steps.
Behind(steps, d) == IF op.pc \in steps THEN d ELSE 0

ClearInodes == IPG - Cardinality(inode_bitmap)
ClearBlocks == BPG - Cardinality(block_bitmap)

\* At every step the counters agree with the bitmaps, but for the change the
\* operation has made to a bitmap and not yet written to them.
Counted ==
  /\ Off(crashes, bgdt.inodes, ClearInodes - Behind({"bgdt"}, op.di), again)
  /\ Off(crashes, bgdt.blocks, ClearBlocks - Behind({"bgdt"}, op.db), 0)
  /\ Off(crashes, sb.inodes, ClearInodes - Behind({"bgdt", "sb"}, op.di), again)
  /\ Off(crashes, sb.blocks, ClearBlocks - Behind({"bgdt", "sb"}, op.db), 0)

LEMMA Division ==
  ASSUME NEW x \in Int, NEW w \in Nat, w > 0
  PROVE  \E q \in Int, r \in 0 .. w - 1 : x = w * q + r /\ r = x % w
<1>1. x \div w \in Int /\ x % w \in 0 .. w - 1 /\ x = w * (x \div w) + (x % w)
  OBVIOUS
<1> QED BY <1>1

LEMMA Remainder ==
  ASSUME NEW w \in Nat, NEW q \in Int, NEW r \in 0 .. w - 1
  PROVE  (w * q + r) % w = r
OBVIOUS

LEMMA SumOfRemainder ==
  ASSUME NEW x \in Int, NEW d \in Int, NEW w \in Nat, w > 0
  PROVE  ((x % w) + d) % w = (x + d) % w
<1>1. PICK q \in Int, r \in 0 .. w - 1 : x = w * q + r /\ r = x % w
  BY Division
<1>2. PICK p \in Int, t \in 0 .. w - 1 : r + d = w * p + t /\ t = (r + d) % w
  BY Division
<1>3. q + p \in Int /\ x + d = w * (q + p) + t
  <2>1. w * (q + p) = w * q + w * p
    OBVIOUS
  <2> QED BY <1>1, <1>2, <2>1
<1>4. (x + d) % w = t
  BY <1>3, Remainder
<1> QED BY <1>1, <1>2, <1>4

\* A counter and its bitmap change by the same number.
LEMMA OffMoved ==
  ASSUME NEW c \in Nat, NEW count, NEW clear \in Int, NEW more \in Nat,
         NEW d \in Int, Off(c, count, clear, more)
  PROVE  Off(c, (count + d) % WordSize, clear + d, more)
<1>1. PICK e \in -c .. c + more : count = (clear + e) % WordSize
  BY DEF Off
<1>2. (count + d) % WordSize = (clear + e + d) % WordSize
  BY <1>1, SumOfRemainder, SizesAssumption
<1>3. clear + e + d = clear + d + e
  OBVIOUS
<1> QED BY <1>2, <1>3 DEF Off

\* A change that only the bitmap saw is one power loss's, or one deletion's.
LEMMA OffLost ==
  ASSUME NEW c \in Nat, NEW count, NEW clear \in Int, NEW more \in Nat,
         NEW d \in {-1, 0, 1}, Off(c, count, clear - d, more)
  PROVE  Off(c + 1, count, clear, more)
<1>1. PICK e \in -c .. c + more : count = (clear - d + e) % WordSize
  BY DEF Off
<1>2. e - d \in -(c + 1) .. c + 1 + more /\ clear - d + e = clear + (e - d)
  OBVIOUS
<1> QED BY <1>1, <1>2 DEF Off

LEMMA OffAgain ==
  ASSUME NEW c \in Nat, NEW count, NEW clear \in Int, NEW more \in Nat,
         Off(c, count, clear, more)
  PROVE  Off(c, count, clear - 1, more + 1)
<1>1. PICK e \in -c .. c + more : count = (clear + e) % WordSize
  BY DEF Off
<1>2. e + 1 \in -c .. c + (more + 1) /\ clear + e = clear - 1 + (e + 1)
  OBVIOUS
<1> QED BY <1>1, <1>2 DEF Off

LEMMA BitmapsFinite ==
  ASSUME Types
  PROVE  /\ IsFiniteSet(inode_bitmap) /\ Cardinality(inode_bitmap) \in Nat
         /\ IsFiniteSet(block_bitmap) /\ Cardinality(block_bitmap) \in Nat
         /\ ClearInodes \in Int /\ ClearBlocks \in Int
<1>1. IsFiniteSet(Inum) /\ IsFiniteSet(Bit)
  BY FS_Interval, SizesAssumption DEF Inum, Bit
<1>2. IsFiniteSet(inode_bitmap) /\ IsFiniteSet(block_bitmap)
  BY <1>1, FS_Subset DEF Types, TypeOK
<1>3. Cardinality(inode_bitmap) \in Nat /\ Cardinality(block_bitmap) \in Nat
  BY <1>2, FS_CardinalityType
<1> QED BY <1>2, <1>3, SizesAssumption DEF ClearInodes, ClearBlocks

LEMMA CountedInit == Init => Counted
<1> SUFFICES ASSUME Init PROVE Counted
  OBVIOUS
<1>1. /\ bgdt.inodes = ClearInodes /\ sb.inodes = ClearInodes
      /\ bgdt.blocks = ClearBlocks /\ sb.blocks = ClearBlocks
  BY MkfsCounts DEF Init, ClearInodes, ClearBlocks
<1>2. ClearInodes \in 0 .. WordSize - 1 /\ ClearBlocks \in 0 .. WordSize - 1
  BY MkfsCounts, SizesAssumption DEF Init, ClearInodes, ClearBlocks
<1>3. \A n \in 0 .. WordSize - 1 : Off(0, n, n - 0, 0)
  <2> SUFFICES ASSUME NEW n \in 0 .. WordSize - 1 PROVE Off(0, n, n - 0, 0)
    OBVIOUS
  <2>1. 0 \in -0 .. 0 + 0 /\ n = (n - 0 + 0) % WordSize
    BY SizesAssumption
  <2> QED BY <2>1 DEF Off
<1>4. crashes = 0 /\ again = 0 /\ op.pc = "idle"
  BY DEF Init, NoOp
<1> HIDE DEF ClearInodes, ClearBlocks
<1> QED BY <1>1, <1>2, <1>3, <1>4 DEF Counted, Behind

\* Steps that change neither bitmaps nor counters.
LEMMA CountedQuiet ==
  ASSUME Counted,
         UNCHANGED <<inode_bitmap, block_bitmap, bgdt, sb, again, crashes>>,
         \/ op' = op
         \/ op.pc \notin {"bgdt", "sb"} /\ op'.pc \notin {"bgdt", "sb"}
  PROVE  Counted'
<1>1. ClearInodes' = ClearInodes /\ ClearBlocks' = ClearBlocks
  BY DEF ClearInodes, ClearBlocks
<1>2. /\ Behind({"bgdt"}, op.di)' = Behind({"bgdt"}, op.di)
      /\ Behind({"bgdt"}, op.db)' = Behind({"bgdt"}, op.db)
      /\ Behind({"bgdt", "sb"}, op.di)' = Behind({"bgdt", "sb"}, op.di)
      /\ Behind({"bgdt", "sb"}, op.db)' = Behind({"bgdt", "sb"}, op.db)
  BY DEF Behind
<1> HIDE DEF ClearInodes, ClearBlocks, Behind
<1> QED BY <1>1, <1>2 DEF Counted

LEMMA CountedStep ==
  ASSUME Types, Types', Counted, [Next]_vars
  PROVE  Counted'
<1>1. /\ ClearInodes \in Int /\ ClearBlocks \in Int
      /\ crashes \in Nat /\ again \in Nat /\ 0 \in Nat
      /\ op.di \in {-1, 0, 1} /\ op.db \in {-1, 0, 1}
      /\ op.di \in Int /\ op.db \in Int
  <2>1. ClearInodes \in Int /\ ClearBlocks \in Int
    BY BitmapsFinite
  <2>2. crashes \in Nat /\ again \in Nat /\ op \in Operation
    BY DEF Types, TypeOK
  <2>3. op.di \in {-1, 0, 1} /\ op.db \in {-1, 0}
    BY <2>2 DEF Operation
  <2> QED BY <2>1, <2>2, <2>3
<1>2. CASE UNCHANGED vars
  BY <1>2, CountedQuiet DEF vars, disk, history
<1>3. ASSUME UpdateGroupDescriptor PROVE Counted'
  <2>1. /\ op.pc = "bgdt" /\ op'.pc = "sb" /\ op'.di = op.di /\ op'.db = op.db
        /\ bgdt' = Plus(bgdt, op.di, op.db) /\ sb' = sb
        /\ ClearInodes' = ClearInodes /\ ClearBlocks' = ClearBlocks
        /\ again' = again /\ crashes' = crashes
    BY <1>3 DEF UpdateGroupDescriptor, At, Goto, history, ClearInodes, ClearBlocks,
                Types, TypeOK, Operation
  <2>2. /\ Off(crashes, bgdt.inodes, ClearInodes - op.di, again)
        /\ Off(crashes, bgdt.blocks, ClearBlocks - op.db, 0)
        /\ Off(crashes, sb.inodes, ClearInodes - op.di, again)
        /\ Off(crashes, sb.blocks, ClearBlocks - op.db, 0)
    BY <2>1 DEF Counted, Behind
  <2>3. /\ bgdt'.inodes = (bgdt.inodes + op.di) % WordSize
        /\ bgdt'.blocks = (bgdt.blocks + op.db) % WordSize
    BY <2>1 DEF Plus
  <2>4. /\ ClearInodes - op.di \in Int /\ ClearInodes - op.di + op.di = ClearInodes - 0
        /\ ClearBlocks - op.db \in Int /\ ClearBlocks - op.db + op.db = ClearBlocks - 0
    BY <1>1
  <2>5. /\ Off(crashes, bgdt'.inodes, ClearInodes - 0, again)
        /\ Off(crashes, bgdt'.blocks, ClearBlocks - 0, 0)
    BY <1>1, <2>2, <2>3, <2>4, OffMoved
  <2> QED BY <2>1, <2>2, <2>5 DEF Counted, Behind
<1>4. ASSUME UpdateSuperblock PROVE Counted'
  <2>1. /\ op.pc = "sb" /\ op'.pc \notin {"bgdt", "sb"}
        /\ sb' = Plus(sb, op.di, op.db) /\ bgdt' = bgdt
        /\ ClearInodes' = ClearInodes /\ ClearBlocks' = ClearBlocks
        /\ again' = again /\ crashes' = crashes
    BY <1>4 DEF UpdateSuperblock, At, Goto, history, ClearInodes, ClearBlocks,
                Types, TypeOK, Operation
  <2>2. /\ Off(crashes, bgdt.inodes, ClearInodes - 0, again)
        /\ Off(crashes, bgdt.blocks, ClearBlocks - 0, 0)
        /\ Off(crashes, sb.inodes, ClearInodes - op.di, again)
        /\ Off(crashes, sb.blocks, ClearBlocks - op.db, 0)
    BY <2>1 DEF Counted, Behind
  <2>3. /\ sb'.inodes = (sb.inodes + op.di) % WordSize
        /\ sb'.blocks = (sb.blocks + op.db) % WordSize
    BY <2>1 DEF Plus
  <2>4. /\ ClearInodes - op.di \in Int /\ ClearInodes - op.di + op.di = ClearInodes - 0
        /\ ClearBlocks - op.db \in Int /\ ClearBlocks - op.db + op.db = ClearBlocks - 0
    BY <1>1
  <2>5. /\ Off(crashes, sb'.inodes, ClearInodes - 0, again)
        /\ Off(crashes, sb'.blocks, ClearBlocks - 0, 0)
    BY <1>1, <2>2, <2>3, <2>4, OffMoved
  <2> QED BY <2>1, <2>2, <2>5 DEF Counted, Behind
<1>5. ASSUME NEW idx, NEW then, op.pc \notin {"bgdt", "sb"}, TakeBlock(idx, then)
      PROVE  Counted'
  <2>1. PICK b :
          /\ b = FoundBlock /\ ~FullBlocks
          /\ block_bitmap' = block_bitmap \cup {BitOf(b)}
          /\ op' = [op EXCEPT !.pc = "bgdt", !.then = then, !.di = 0, !.db = -1,
                              !.idx = idx, !.blk = b]
    BY <1>5 DEF TakeBlock
  <2>2. /\ op'.pc = "bgdt" /\ op'.di = 0 /\ op'.db = -1
        /\ ClearInodes' = ClearInodes /\ bgdt' = bgdt /\ sb' = sb
        /\ again' = again /\ crashes' = crashes
    <3>1. op'.pc = "bgdt" /\ op'.di = 0 /\ op'.db = -1
      BY <2>1 DEF Types, TypeOK, Operation
    <3>2. UNCHANGED <<inode_bitmap, bgdt, sb, history>>
      BY <1>5, Zenon DEF TakeBlock
    <3> QED BY <3>1, <3>2 DEF ClearInodes, history
  <2>3. BitOf(b) \notin block_bitmap
    BY <2>1, <2>2, BlockFound, BitsOfBlocks
  <2>4. Cardinality(block_bitmap') = Cardinality(block_bitmap) + 1
    BY <2>1, <2>3, BitmapsFinite, FS_AddElement
  <2>5. ClearBlocks' - (-1) = ClearBlocks - 0
    BY <2>4, BitmapsFinite, SizesAssumption DEF ClearBlocks
  <2> HIDE DEF ClearBlocks, ClearInodes
  <2> QED BY <1>5, <2>2, <2>5 DEF Counted, Behind
<1>6. ASSUME NEW parent, CreateFile(parent) PROVE Counted'
  <2>1. PICK n :
          /\ n = FoundInode /\ ~FullInodes
          /\ inode_bitmap' = inode_bitmap \cup {n}
          /\ op' = [NoOp EXCEPT !.cmd = "create", !.pc = "bgdt", !.then = "table",
                                !.di = -1, !.ino = n, !.parent = parent]
    BY <1>6 DEF CreateFile
  <2>2. /\ op.pc = "idle" /\ op'.pc = "bgdt" /\ op'.di = -1 /\ op'.db = 0
        /\ ClearBlocks' = ClearBlocks /\ bgdt' = bgdt /\ sb' = sb
        /\ again' = again /\ crashes' = crashes
    BY <1>6, <2>1 DEF CreateFile, MayStart, ClearBlocks, NoOp
  <2>3. n \notin inode_bitmap
    BY <2>1, <2>2, InodeFound
  <2>4. Cardinality(inode_bitmap') = Cardinality(inode_bitmap) + 1
    BY <2>1, <2>3, BitmapsFinite, FS_AddElement
  <2>5. ClearInodes' - (-1) = ClearInodes - 0
    BY <2>4, BitmapsFinite, SizesAssumption DEF ClearInodes
  <2> HIDE DEF ClearBlocks, ClearInodes
  <2> QED BY <2>2, <2>5 DEF Counted, Behind
<1>7. ASSUME NEW n, DeleteFile(n) PROVE Counted'
  <2>1. /\ op.pc = "idle" /\ op'.pc = "bgdt" /\ op'.di = 1 /\ op'.db = 0
        /\ inode_bitmap' = inode_bitmap \ {n}
        /\ ClearBlocks' = ClearBlocks /\ bgdt' = bgdt /\ sb' = sb
        /\ again' = again + IF n \in inode_bitmap THEN 0 ELSE 1
        /\ crashes' = crashes
    BY <1>7 DEF DeleteFile, MayStart, ClearBlocks, NoOp
  <2>2. Cardinality(inode_bitmap') = IF n \in inode_bitmap
                                       THEN Cardinality(inode_bitmap) - 1
                                       ELSE Cardinality(inode_bitmap)
    BY <2>1, BitmapsFinite, FS_RemoveElement
  <2>3. ClearInodes' - 1 = IF n \in inode_bitmap THEN ClearInodes - 0
                                                 ELSE ClearInodes - 0 - 1
    BY <2>2, BitmapsFinite, SizesAssumption DEF ClearInodes
  <2>4. /\ Off(crashes, bgdt.inodes, ClearInodes - 0, again)
        /\ Off(crashes, bgdt.blocks, ClearBlocks - 0, 0)
        /\ Off(crashes, sb.inodes, ClearInodes - 0, again)
        /\ Off(crashes, sb.blocks, ClearBlocks - 0, 0)
    BY <2>1 DEF Counted, Behind
  <2>5. /\ Off(crashes, bgdt.inodes, ClearInodes - 0 - 1, again + 1)
        /\ Off(crashes, sb.inodes, ClearInodes - 0 - 1, again + 1)
    <3>1. ClearInodes - 0 \in Int
      BY <1>1
    <3> HIDE DEF ClearInodes
    <3> QED BY <1>1, <2>4, <3>1, OffAgain
  <2>6. /\ Off(crashes, bgdt.inodes, ClearInodes' - 1, again')
        /\ Off(crashes, sb.inodes, ClearInodes' - 1, again')
    <3>1. CASE n \in inode_bitmap
      BY <1>1, <2>1, <2>3, <2>4, <3>1
    <3>2. CASE n \notin inode_bitmap
      BY <2>1, <2>3, <2>5, <3>2
    <3> QED BY <3>1, <3>2
  <2> HIDE DEF ClearBlocks, ClearInodes
  <2> QED BY <2>1, <2>4, <2>6 DEF Counted, Behind
<1>8. ASSUME Crash PROVE Counted'
  <2>1. /\ op'.pc = "idle" /\ bgdt' = bgdt /\ sb' = sb
        /\ ClearInodes' = ClearInodes /\ ClearBlocks' = ClearBlocks
        /\ again' = again /\ crashes' = crashes + 1
    BY <1>8 DEF Crash, NoOp, disk, ClearInodes, ClearBlocks
  <2> HIDE DEF ClearBlocks, ClearInodes
  <2>2. \A steps : /\ Behind(steps, op.di) \in {-1, 0, 1}
                   /\ Behind(steps, op.db) \in {-1, 0, 1}
    BY <1>1 DEF Behind
  <2>3. /\ Off(crashes + 1, bgdt.inodes, ClearInodes, again)
        /\ Off(crashes + 1, bgdt.blocks, ClearBlocks, 0)
        /\ Off(crashes + 1, sb.inodes, ClearInodes, again)
        /\ Off(crashes + 1, sb.blocks, ClearBlocks, 0)
    BY <1>1, <2>1, <2>2, OffLost DEF Counted
  <2>4. ClearInodes - 0 = ClearInodes /\ ClearBlocks - 0 = ClearBlocks
    BY <1>1
  <2> QED BY <2>1, <2>3, <2>4 DEF Counted, Behind
<1>9. ASSUME Return PROVE op'.pc \notin {"bgdt", "sb"}
  BY <1>9 DEF Return, NoOp
<1>10. ASSUME NEW pc, Goto(pc) PROVE op'.pc = pc
  BY <1>10 DEF Goto, Types, TypeOK, Operation
<1>11. ASSUME CreateInode \/ ReadParent \/ DirectoryFull PROVE Counted'
  <2>1. /\ UNCHANGED <<inode_bitmap, block_bitmap, bgdt, sb, again, crashes>>
        /\ op.pc \notin {"bgdt", "sb"}
        /\ Return \/ Goto("parent") \/ Goto("place")
    BY <1>11 DEF CreateInode, ReadParent, DirectoryFull, At, Created, disk, history
  <2> QED BY <1>9, <1>10, <2>1, CountedQuiet
<1>12. ASSUME PlaceEntry \/ WriteDirBlock \/ WriteBackParent PROVE Counted'
  <2>1. /\ UNCHANGED <<inode_bitmap, block_bitmap, bgdt, sb, again, crashes>>
        /\ op.pc \notin {"bgdt", "sb"}
        /\ Return \/ Goto("writeback")
    BY <1>12 DEF PlaceEntry, WriteDirBlock, WriteBackParent, At, Created, history
  <2> QED BY <1>9, <1>10, <2>1, CountedQuiet
<1>13. ASSUME NewDirBlock \/ AllocateData PROVE Counted'
  BY <1>5, <1>13 DEF NewDirBlock, AllocateData, At
<1>14. ASSUME WriteData PROVE Counted'
  <2>1. /\ UNCHANGED <<inode_bitmap, block_bitmap, bgdt, sb, again, crashes>>
        /\ op.pc \notin {"bgdt", "sb"} /\ op'.pc \notin {"bgdt", "sb"}
    BY <1>14 DEF WriteData, WriteDataTo, At, history, Types, TypeOK, Operation
  <2> QED BY <2>1, CountedQuiet
<1>15. ASSUME FinishWrite \/ ClearInode PROVE Counted'
  <2>1. /\ UNCHANGED <<inode_bitmap, block_bitmap, bgdt, sb, again, crashes>>
        /\ op.pc \notin {"bgdt", "sb"} /\ Return
    BY <1>15 DEF FinishWrite, ClearInode, At, history
  <2> QED BY <1>9, <2>1, CountedQuiet
<1>16. ASSUME NEW n, NEW len, NEW tag, WriteFile(n, len, tag) PROVE Counted'
  <2>1. /\ UNCHANGED <<inode_bitmap, block_bitmap, bgdt, sb, again, crashes>>
        /\ op.pc \notin {"bgdt", "sb"}
        /\ op' = op \/ op'.pc = "block"
    BY <1>16 DEF WriteFile, MayStart, disk, NoOp
  <2> QED BY <2>1, CountedQuiet
<1>17. ASSUME IrqCommand \/ Done \/ \E n \in File : ReadFile(n) PROVE Counted'
  <2>1. /\ UNCHANGED <<inode_bitmap, block_bitmap, bgdt, sb, again, crashes>>
        /\ op' = op
    BY <1>17 DEF IrqCommand, Done, ReadFile, vars, disk, history
  <2> QED BY <2>1, CountedQuiet
<1>18. ASSUME NoFreeBlock \/ NoFreeInode PROVE Counted'
  BY <1>18, LostStep, CountedQuiet DEF Types
<1>19. ASSUME Start PROVE Counted'
  BY <1>6, <1>7, <1>16, <1>17, <1>18, <1>19 DEF Start
<1> QED
  BY <1>2, <1>3, <1>4, <1>8, <1>11, <1>12, <1>13, <1>14, <1>15, <1>17, <1>18, <1>19
  DEF Next, Step

\* The free counters of the group descriptor and of the superblock follow the
\* bitmaps: each is exact but for one for each power loss, and one for each
\* deletion of an inode that was free (ext2.c:548-554, 584-590, 161).
THEOREM CountersFollow == Spec => []CountersFollowBitmaps
<1>1. Init => Types /\ Counted
  BY TypesInit, CountedInit
<1>2. Types /\ Counted /\ [Next]_vars => Types' /\ Counted'
  BY TypesStep, CountedStep
<1>3. Types /\ Counted => CountersFollowBitmaps
  <2> SUFFICES ASSUME Types, Counted, op.pc = "idle"
               PROVE  CountersFollowBitmaps
    BY DEF CountersFollowBitmaps
  <2>1. ClearInodes - 0 = ClearInodes /\ ClearBlocks - 0 = ClearBlocks
    BY BitmapsFinite
  <2> HIDE DEF ClearInodes, ClearBlocks
  <2>2. /\ Off(crashes, bgdt.inodes, ClearInodes, again)
        /\ Off(crashes, bgdt.blocks, ClearBlocks, 0)
        /\ Off(crashes, sb.inodes, ClearInodes, again)
        /\ Off(crashes, sb.blocks, ClearBlocks, 0)
    BY <2>1 DEF Counted, Behind
  <2> QED BY <2>2 DEF CountersFollowBitmaps, Near, Off, ClearInodes, ClearBlocks
<1> QED BY <1>1, <1>2, <1>3, PTL DEF Spec

-----------------------------------------------------------------------------
(* Blocks held                                                             *)

Tables == [0 .. IPG - 1 -> Inode]

\* Exclusive, for each inode and pointer.
HeldOnce(table, bits) ==
  \A n \in Holder(table), i \in Pointer :
    table[SlotOf(n)].block[i] # 0 =>
      /\ BitOf(table[SlotOf(n)].block[i]) \in bits
      /\ \A m \in Holder(table), j \in Pointer :
           table[SlotOf(m)].block[j] = table[SlotOf(n)].block[i] => m = n /\ j = i

LEMMA ExclusiveIsHeldOnce ==
  ASSUME NEW table, NEW bits
  PROVE  Exclusive(table, bits) <=> HeldOnce(table, bits)
<1>1. ASSUME NEW n, NEW i PROVE RefBlock(table, <<n, i>>) = table[SlotOf(n)].block[i]
  BY DEF RefBlock
<1>2. ASSUME Exclusive(table, bits), NEW n \in Holder(table), NEW i \in Pointer,
             table[SlotOf(n)].block[i] # 0
      PROVE  /\ BitOf(table[SlotOf(n)].block[i]) \in bits
             /\ \A m \in Holder(table), j \in Pointer :
                  table[SlotOf(m)].block[j] = table[SlotOf(n)].block[i] => m = n /\ j = i
  <2>1. <<n, i>> \in Refs(table)
    BY <1>1, <1>2 DEF Refs
  <2>2. BitOf(table[SlotOf(n)].block[i]) \in bits
    BY <1>1, <1>2, <2>1 DEF Exclusive
  <2>3. ASSUME NEW m \in Holder(table), NEW j \in Pointer,
               table[SlotOf(m)].block[j] = table[SlotOf(n)].block[i]
        PROVE  m = n /\ j = i
    <3>1. <<m, j>> \in Refs(table)
      BY <1>1, <1>2, <2>3 DEF Refs
    <3>2. <<m, j>> = <<n, i>>
      BY <1>1, <1>2, <2>1, <2>3, <3>1 DEF Exclusive
    <3> QED BY <3>2
  <2> QED BY <2>2, <2>3
<1>3. ASSUME HeldOnce(table, bits) PROVE Exclusive(table, bits)
  <2>1. ASSUME NEW r \in Refs(table)
        PROVE  /\ r[1] \in Holder(table) /\ r[2] \in Pointer /\ r = <<r[1], r[2]>>
               /\ RefBlock(table, r) = table[SlotOf(r[1])].block[r[2]]
               /\ RefBlock(table, r) # 0
    BY DEF Refs, RefBlock
  <2>2. \A r \in Refs(table) : BitOf(RefBlock(table, r)) \in bits
    BY <1>3, <2>1 DEF HeldOnce
  <2>3. ASSUME NEW r \in Refs(table), NEW q \in Refs(table),
               RefBlock(table, r) = RefBlock(table, q)
        PROVE  r = q
    <3>1. r[1] = q[1] /\ r[2] = q[2]
      BY <1>3, <2>1, <2>3 DEF HeldOnce
    <3> QED BY <2>1, <3>1
  <2> QED BY <2>2, <2>3 DEF Exclusive
<1> QED BY <1>2, <1>3 DEF HeldOnce

\* The inode's blocks are marked, distinct and nobody else's.
MayHold(table, bits, n, stored) ==
  \A i \in Pointer : stored.block[i] # 0 =>
    /\ BitOf(stored.block[i]) \in bits
    /\ \A j \in Pointer : stored.block[j] = stored.block[i] => j = i
    /\ \A m \in Holder(table), j \in Pointer :
         table[SlotOf(m)].block[j] = stored.block[i] => m = n

\* Such an inode is stored.
LEMMA StoredExclusive ==
  ASSUME NEW table \in Tables, NEW bits, HeldOnce(table, bits),
         NEW n \in Inum, NEW stored \in Inode,
         NEW result, result = [table EXCEPT ![SlotOf(n)] = stored],
         MayHold(table, bits, n, stored)
  PROVE  HeldOnce(result, bits)
<1>1. result[SlotOf(n)] = stored
  BY SlotsDistinct DEF Tables
<1>2. \A m \in Inum : m # n => result[SlotOf(m)] = table[SlotOf(m)]
  BY SlotsDistinct DEF Tables
<1>3. \A m \in Holder(result) : m \in Inum /\ (m # n => m \in Holder(table))
  BY <1>2 DEF Holder
<1> SUFFICES ASSUME NEW k \in Holder(result), NEW i \in Pointer,
                    result[SlotOf(k)].block[i] # 0
             PROVE  /\ BitOf(result[SlotOf(k)].block[i]) \in bits
                    /\ \A m \in Holder(result), j \in Pointer :
                         result[SlotOf(m)].block[j] = result[SlotOf(k)].block[i]
                           => m = k /\ j = i
  BY DEF HeldOnce
<1> USE DEF MayHold
<1>4. CASE k = n
  <2>1. result[SlotOf(k)] = stored /\ stored.block[i] # 0
    BY <1>1, <1>4
  <2>2. ASSUME NEW m \in Holder(result), NEW j \in Pointer,
               result[SlotOf(m)].block[j] = stored.block[i]
        PROVE  m = k /\ j = i
    <3>1. CASE m = n
      BY <1>1, <1>4, <2>1, <2>2, <3>1
    <3>2. CASE m # n
      <4>1. m \in Holder(table) /\ table[SlotOf(m)].block[j] = stored.block[i]
        BY <1>2, <1>3, <2>2, <3>2
      <4> QED BY <2>1, <3>2, <4>1
    <3> QED BY <3>1, <3>2
  <2> QED BY <2>1, <2>2
<1>5. CASE k # n
  <2>1. k \in Holder(table) /\ result[SlotOf(k)] = table[SlotOf(k)]
    BY <1>2, <1>3, <1>5
  <2>2. BitOf(result[SlotOf(k)].block[i]) \in bits
    BY <2>1 DEF HeldOnce
  <2>3. ASSUME NEW m \in Holder(result), NEW j \in Pointer,
               result[SlotOf(m)].block[j] = result[SlotOf(k)].block[i]
        PROVE  m = k /\ j = i
    <3>1. CASE m = n
      <4>1. stored.block[j] = table[SlotOf(k)].block[i] /\ stored.block[j] # 0
        BY <1>1, <2>1, <2>3, <3>1
      <4> QED BY <1>5, <2>1, <4>1
    <3>2. CASE m # n
      <4>1. /\ m \in Holder(table) /\ table[SlotOf(k)].block[i] # 0
            /\ table[SlotOf(m)].block[j] = table[SlotOf(k)].block[i]
        BY <1>2, <1>3, <2>1, <2>3, <3>2
      <4> QED BY <2>1, <4>1 DEF HeldOnce
    <3> QED BY <3>1, <3>2
  <2> QED BY <2>2, <2>3
<1> QED BY <1>4, <1>5

LEMMA HeldOnceUsed ==
  ASSUME NEW table, NEW bits, HeldOnce(table, bits),
         NEW n \in Holder(table), NEW i \in Pointer,
         NEW m \in Holder(table), NEW j \in Pointer,
         table[SlotOf(n)].block[i] # 0,
         table[SlotOf(m)].block[j] = table[SlotOf(n)].block[i]
  PROVE  /\ BitOf(table[SlotOf(n)].block[i]) \in bits
         /\ m = n /\ j = i
BY DEF HeldOnce

\* Nobody holds this block.
Unheld(table, b) ==
  \A n \in Holder(table), i \in Pointer : table[SlotOf(n)].block[i] # b

\* A holder's inode with blocks nobody holds.
HoldsMore(table, bits, n, stored) ==
  \A i \in Pointer : stored.block[i] = table[SlotOf(n)].block[i] \/
    /\ BitOf(stored.block[i]) \in bits
    /\ Unheld(table, stored.block[i])
    /\ \A j \in Pointer : j # i => stored.block[j] # stored.block[i]

\* It is stored again.
LEMMA StoredMore ==
  ASSUME NEW table \in Tables, NEW bits, HeldOnce(table, bits),
         NEW n \in Inum, n \in Holder(table), NEW stored \in Inode,
         NEW result, result = [table EXCEPT ![SlotOf(n)] = stored],
         HoldsMore(table, bits, n, stored)
  PROVE  HeldOnce(result, bits)
<1>1. ASSUME NEW i \in Pointer, stored.block[i] # 0
      PROVE  /\ BitOf(stored.block[i]) \in bits
             /\ \A j \in Pointer : stored.block[j] = stored.block[i] => j = i
             /\ \A m \in Holder(table), j \in Pointer :
                  table[SlotOf(m)].block[j] = stored.block[i] => m = n
  <2>1. CASE stored.block[i] # table[SlotOf(n)].block[i]
    BY <2>1 DEF Unheld, HoldsMore
  <2>2. CASE stored.block[i] = table[SlotOf(n)].block[i]
    <3>1. BitOf(stored.block[i]) \in bits
      BY <1>1, <2>2, HeldOnceUsed
    <3>2. ASSUME NEW m \in Holder(table), NEW j \in Pointer,
                 table[SlotOf(m)].block[j] = stored.block[i]
          PROVE  m = n /\ j = i
      BY <1>1, <2>2, <3>2, HeldOnceUsed
    <3>3. ASSUME NEW j \in Pointer, stored.block[j] = stored.block[i] PROVE j = i
      <4>1. CASE stored.block[j] = table[SlotOf(n)].block[j]
        BY <3>2, <3>3, <4>1
      <4>2. CASE stored.block[j] # table[SlotOf(n)].block[j]
        BY <3>3, <4>2 DEF HoldsMore
      <4> QED BY <4>1, <4>2
    <3> QED BY <3>1, <3>2, <3>3
  <2> QED BY <2>1, <2>2
<1>2. MayHold(table, bits, n, stored)
  BY <1>1 DEF MayHold
<1> QED BY <1>2, StoredExclusive

\* More bits may be set.
LEMMA MoreBits ==
  ASSUME NEW table, NEW bits, NEW more, bits \subseteq more, HeldOnce(table, bits)
  PROVE  HeldOnce(table, more)
BY DEF HeldOnce

-----------------------------------------------------------------------------
(* The disk and the inode in hand                                          *)

\* The inode that will be written back, and the table it will make.
Target == IF op.cmd = "create" THEN op.parent ELSE op.ino
Using  == Stage \in {"place", "dirblock", "writeback", "block", "data", "size"}
Ahead  == IF Using THEN [inode_table EXCEPT ![SlotOf(Target)] = inode]
                  ELSE inode_table

DiskSound ==
  /\ HeldOnce(inode_table, block_bitmap)
  /\ RootDir.type = "dir"
  /\ Root \in inode_bitmap
  /\ 0 \in block_bitmap

HandSound ==
  /\ op.cmd # "none" => op.ino # Root
  /\ Stage \in {"table", "parent"} =>
       op.parent = Root \/ InodeOf(op.parent).type = "file"
  /\ Stage \in {"place", "dirblock", "writeback"} =>
       op.parent = Root /\ inode.type = "dir"
  /\ Stage \in {"block", "data", "size"} => inode.type = "file"
  /\ HeldOnce(Ahead, block_bitmap)
  /\ Stage \in {"dirblock", "data"} =>
       /\ op.blk # 0 /\ BitOf(op.blk) \in block_bitmap
       /\ Unheld(inode_table, op.blk) /\ Unheld(Ahead, op.blk)

\* Contents, and that an inode is a file with these contents.
ContentsIn(contents, f) ==
  [i \in {j \in 0 .. f.size - 1 : \A k \in 0 .. j : f.block[k] # 0} |->
     contents[f.block[i]][0].inode]

Holds(table, contents, n, data) ==
  /\ table[SlotOf(n)].type = "file"
  /\ table[SlotOf(n)].size <= NDirect
  /\ ContentsIn(contents, table[SlotOf(n)]) = data

\* The files written hold what was written to them.
Kept ==
  /\ \A n \in DOMAIN expect : Holds(inode_table, block, n, expect[n])
  /\ op.cmd # "none" => op.ino \notin DOMAIN expect
  /\ Stage \in {"parent", "place", "dirblock", "writeback"} =>
       InodeOf(op.ino) = NewInode
  /\ Stage \in {"block", "data", "size"} =>
       \A k \in 0 .. op.idx - 1 :
         inode.block[k] # 0 /\ block[inode.block[k]][0].inode = op.tag

Sound == ~mixed => DiskSound /\ HandSound /\ Kept

\* What this inode's blocks contain is the same.
Alike(f, contents, after) ==
  \A i \in Pointer : f.block[i] # 0 => after[f.block[i]] = contents[f.block[i]]

LEMMA HoldsStill ==
  ASSUME NEW table, NEW result, NEW contents, NEW n, NEW data,
         Holds(table, contents, n, data), result[SlotOf(n)] = table[SlotOf(n)]
  PROVE  Holds(result, contents, n, data)
BY DEF Holds

LEMMA HoldsSame ==
  ASSUME NEW table \in Tables, NEW result \in Tables, NEW contents, NEW after,
         NEW n \in Inum, NEW data, Holds(table, contents, n, data),
         result[SlotOf(n)] = table[SlotOf(n)],
         Alike(table[SlotOf(n)], contents, after)
  PROVE  Holds(result, after, n, data)
<1> USE DEF Alike
<1>1. PICK f \in Inode : f = table[SlotOf(n)] /\ f = result[SlotOf(n)]
  BY SlotsDistinct DEF Tables
<1> DEFINE read == {j \in 0 .. f.size - 1 : \A k \in 0 .. j : f.block[k] # 0}
<1>2. f.size \in Nat /\ f.size <= NDirect
  BY <1>1 DEF Holds, Inode
<1>3. \A i \in read : i \in Pointer /\ f.block[i] # 0
  BY <1>2, SizesAssumption DEF Pointer
<1>4. \A i \in read : contents[f.block[i]][0].inode = after[f.block[i]][0].inode
  BY <1>1, <1>3
<1>5. ContentsIn(contents, f) = ContentsIn(after, f)
  BY <1>4 DEF ContentsIn
<1> QED BY <1>1, <1>5 DEF Holds

\* Another block is written.
LEMMA OtherBlock ==
  ASSUME Types, NEW table \in Tables, NEW n \in Inum, NEW c, NEW entries, NEW after,
         after = [block EXCEPT ![c] = entries],
         \A i \in Pointer : table[SlotOf(n)].block[i] # c
  PROVE  Alike(table[SlotOf(n)], block, after)
<1>1. table[SlotOf(n)] \in Inode
  BY SlotsDistinct DEF Tables
<1>2. \A i \in Pointer : table[SlotOf(n)].block[i] \in Block
  BY <1>1 DEF Inode
<1>3. block \in [Block -> [Slot -> Entry]]
  BY DEF Types, TypeOK
<1> QED BY <1>2, <1>3 DEF Alike

\* The file just created holds nothing.
LEMMA NewHoldsNothing ==
  ASSUME NEW table, NEW contents, NEW n, table[SlotOf(n)] = NewInode
  PROVE  Holds(table, contents, n, <<>>)
<1>1. /\ NewInode.type = "file" /\ NewInode.size = 0 /\ 0 <= NDirect
  BY SizesAssumption DEF NewInode
<1>2. {j \in 0 .. NewInode.size - 1 : \A k \in 0 .. j : NewInode.block[k] # 0} = {}
  BY <1>1
<1>3. ContentsIn(contents, NewInode) = <<>>
  BY <1>2 DEF ContentsIn
<1> QED BY <1>1, <1>3 DEF Holds

\* The first blocks of a file have these data.
Written(contents, f, len, tag) ==
  \A k \in 0 .. len - 1 : f.block[k] # 0 /\ contents[f.block[k]][0].inode = tag

\* A whole file written with the same data reads back as that.
LEMMA WrittenHolds ==
  ASSUME NEW table \in Tables, NEW contents, NEW n \in Inum, NEW len \in 0 .. NDirect,
         NEW tag, table[SlotOf(n)].type = "file", table[SlotOf(n)].size = len,
         Written(contents, table[SlotOf(n)], len, tag)
  PROVE  Holds(table, contents, n, [i \in 0 .. len - 1 |-> tag])
<1>1. PICK f \in Inode : f = table[SlotOf(n)]
  BY SlotsDistinct DEF Tables
<1>2. {j \in 0 .. f.size - 1 : \A k \in 0 .. j : f.block[k] # 0} = 0 .. len - 1
  BY <1>1, SizesAssumption DEF Written
<1>3. ContentsIn(contents, f) = [i \in 0 .. len - 1 |-> tag]
  BY <1>1, <1>2 DEF ContentsIn, Written
<1> QED BY <1>1, <1>3, SizesAssumption DEF Holds

LEMMA SoundInit == Init => Sound
<1> SUFFICES ASSUME Init PROVE DiskSound /\ HandSound /\ Kept
  BY DEF Sound
<1>1. PICK mkfs \in MkfsDisks : inode_table = mkfs.table
  BY Zenon DEF Init
<1>2. HeldOnce(inode_table, block_bitmap) /\ RootDir.type = "dir"
  <2>1. mkfs.table[SlotOf(Root)].type = "dir" /\ Exclusive(mkfs.table, MkfsBits)
    BY MkfsAssumption, Zenon
  <2> QED BY <1>1, <2>1, ExclusiveIsHeldOnce DEF Init, RootDir, InodeOf
<1>3. Root \in inode_bitmap /\ 0 \in block_bitmap
  BY MkfsMarks DEF Init
<1>4. Stage = "idle" /\ op.cmd = "none" /\ ~Using /\ DOMAIN expect = {}
  BY DEF Init, NoOp, Stage, Using
<1> QED BY <1>2, <1>3, <1>4 DEF DiskSound, HandSound, Kept, Ahead

\* Nothing but the step of the operation changes.
LEMMA SoundQuiet ==
  ASSUME DiskSound, HandSound, Kept,
         UNCHANGED <<inode_table, block, block_bitmap, inode_bitmap, expect>>,
         Stage' = Stage, Using => inode' = inode,
         op'.cmd = op.cmd, op'.ino = op.ino, op'.parent = op.parent,
         op'.idx = op.idx, op'.blk = op.blk, op'.tag = op.tag
  PROVE  DiskSound' /\ HandSound' /\ Kept'
<1>1. Using' = Using
  BY DEF Using
<1>2. Ahead' = Ahead
  BY <1>1 DEF Ahead, Target
<1>3. DiskSound'
  BY DEF DiskSound, RootDir, InodeOf
<1>4. HandSound'
  BY <1>1, <1>2 DEF HandSound, Using, InodeOf
<1>5. Kept'
  BY <1>1 DEF Kept, Using, InodeOf
<1> QED BY <1>3, <1>4, <1>5

LEMMA UsingIsInUse == Types => (InodeInUse <=> Using)
BY DEF Types, TypeOK, Operation, InodeInUse, Using, Stage

\* An operation that returns leaves nothing in hand.
LEMMA SoundReturn ==
  ASSUME Return, DiskSound',
         \A n \in DOMAIN expect' : Holds(inode_table', block', n, expect'[n])
  PROVE  HandSound' /\ Kept'
<1>1. op' = NoOp /\ Stage' = "idle" /\ op'.cmd = "none" /\ ~Using'
  BY DEF Return, NoOp, Stage, Using
<1>2. Ahead' = inode_table'
  BY <1>1 DEF Ahead
<1>3. HandSound'
  BY <1>1, <1>2 DEF HandSound, DiskSound
<1> QED BY <1>1, <1>3 DEF Kept

\* create_file returns: its file holds nothing.
LEMMA SoundCreated ==
  ASSUME NEW inRoot, Created(inRoot), inode_table'[SlotOf(op.ino)] = NewInode,
         \A n \in DOMAIN expect : n # op.ino => Holds(inode_table', block', n, expect[n])
  PROVE  \A n \in DOMAIN expect' : Holds(inode_table', block', n, expect'[n])
<1> SUFFICES ASSUME NEW n \in DOMAIN expect'
             PROVE  Holds(inode_table', block', n, expect'[n])
  OBVIOUS
<1>1. n \in DOMAIN expect \cup {op.ino}
      /\ expect'[n] = IF n = op.ino THEN <<>> ELSE expect[n]
  BY DEF Created
<1>2. CASE n = op.ino
  BY <1>1, <1>2, NewHoldsNothing
<1>3. CASE n # op.ino
  BY <1>1, <1>3
<1> QED BY <1>2, <1>3

\* A search without a result: nothing but the step of the operation changes.
LEMMA SoundLost ==
  ASSUME Types, DiskSound, HandSound, Kept, NoFreeBlock \/ NoFreeInode
  PROVE  DiskSound' /\ HandSound' /\ Kept'
<1>1. /\ UNCHANGED <<inode_table, block, block_bitmap, inode_bitmap, expect>>
      /\ op'.pc = "lost" /\ op'.cmd = op.cmd /\ op'.ino = op.ino
  BY LostStep DEF Types
<1>2. Stage' = "lost" /\ ~Using'
  BY <1>1 DEF Stage, Using
<1>3. DiskSound'
  BY <1>1 DEF DiskSound, RootDir, InodeOf
<1>4. HandSound'
  BY <1>1, <1>2, <1>3 DEF HandSound, DiskSound, Ahead
<1>5. Kept'
  BY <1>1, <1>2 DEF Kept
<1> QED BY <1>3, <1>4, <1>5

\* Starting and the counters.

LEMMA SoundStart ==
  ASSUME Types, Types', DiskSound, HandSound, Kept, Start
  PROVE  DiskSound' /\ HandSound' /\ Kept'
<1>1. ASSUME NEW n \in File PROVE n # Root /\ n \in Inum
  BY <1>1 DEF File, DiskSound, RootDir
<1>2. ASSUME NEW parent \in {Root} \cup File, CreateFile(parent)
      PROVE  DiskSound' /\ HandSound' /\ Kept'
  <2>1. PICK n :
          /\ n = FoundInode /\ ~FullInodes
          /\ inode_bitmap' = inode_bitmap \cup {n}
          /\ op' = [NoOp EXCEPT !.cmd = "create", !.pc = "bgdt", !.then = "table",
                                !.di = -1, !.ino = n, !.parent = parent]
          /\ expect' = [m \in DOMAIN expect \ {n} |-> expect[m]]
    BY <1>2 DEF CreateFile
  <2>2. ~FullInodes /\ UNCHANGED <<block_bitmap, inode_table, block, inode>>
    BY <1>2 DEF CreateFile
  <2>3. n # Root
    BY <2>1, <2>2, InodeFound DEF DiskSound
  <2>4. /\ Stage' = "table" /\ op'.cmd = "create" /\ op'.ino = n
        /\ op'.parent = parent /\ ~Using'
    BY <2>1 DEF NoOp, Stage, Using
  <2>5. DiskSound'
    BY <2>1, <2>2 DEF DiskSound, RootDir, InodeOf
  <2>6. HandSound'
    BY <2>2, <2>3, <2>4, <2>5 DEF HandSound, DiskSound, Ahead, File, InodeOf
  <2>7. Kept'
    BY <2>1, <2>2, <2>4 DEF Kept
  <2> QED BY <2>5, <2>6, <2>7
<1>3. ASSUME NEW n \in {Root} \cup File, NEW len, NEW tag, WriteFile(n, len, tag)
      PROVE  DiskSound' /\ HandSound' /\ Kept'
  <2>1. /\ op.pc = "idle" /\ inode' = InodeOf(n)
        /\ UNCHANGED <<inode_bitmap, block_bitmap, inode_table, block>>
    BY <1>3 DEF WriteFile, MayStart, disk
  <2>2. CASE UNCHANGED <<op, expect>>
    <3>1. Stage' = Stage /\ ~Using
      BY <2>1, <2>2 DEF Stage, Using
    <3> QED BY <2>1, <2>2, <3>1, SoundQuiet
  <2>3. CASE /\ InodeOf(n).type = "file"
             /\ op' = [NoOp EXCEPT !.cmd = "write", !.pc = "block", !.ino = n,
                                   !.len = len, !.tag = tag]
             /\ expect' = [m \in DOMAIN expect \ {n} |-> expect[m]]
    <3>1. n # Root /\ n \in Inum
      BY <1>1, <2>3, RootIsInode DEF DiskSound, RootDir
    <3>2. /\ Stage' = "block" /\ op'.cmd = "write" /\ op'.ino = n
          /\ op'.idx = 0 /\ Using' /\ Target' = n
      BY <2>3 DEF NoOp, Stage, Using, Target
    <3>3. Ahead' = inode_table
      <4>1. Ahead' = [inode_table EXCEPT ![SlotOf(n)] = inode_table[SlotOf(n)]]
        BY <2>1, <3>2 DEF Ahead, InodeOf
      <4>2. inode_table \in Tables
        BY DEF Types, TypeOK, Tables
      <4> QED BY <4>1, <4>2 DEF Tables
    <3>4. DiskSound'
      BY <2>1 DEF DiskSound, RootDir, InodeOf
    <3>5. HandSound'
      BY <2>1, <2>3, <3>1, <3>2, <3>3, <3>4 DEF HandSound, DiskSound
    <3>6. Kept'
      BY <2>1, <2>3, <3>2 DEF Kept
    <3> QED BY <3>4, <3>5, <3>6
  <2> QED BY <1>3, <2>2, <2>3 DEF WriteFile
<1>4. ASSUME NEW n \in File, ReadFile(n) PROVE DiskSound' /\ HandSound' /\ Kept'
  <2>1. /\ op' = op /\ Stage' = Stage /\ ~Using
        /\ UNCHANGED <<inode_table, block, block_bitmap, inode_bitmap, expect>>
    BY <1>4 DEF ReadFile, At, disk, history, Stage, Using
  <2> QED BY <2>1, SoundQuiet
<1>5. ASSUME NEW n \in Inum, n # Root, DeleteFile(n)
      PROVE  DiskSound' /\ HandSound' /\ Kept'
  <2>1. /\ inode_bitmap' = inode_bitmap \ {n}
        /\ expect' = [m \in DOMAIN expect \ {n} |-> expect[m]]
        /\ UNCHANGED <<block_bitmap, inode_table, block>>
    BY <1>5 DEF DeleteFile
  <2>2. /\ Stage' = "clear" /\ op'.cmd = "delete" /\ op'.ino = n /\ ~Using'
    BY <1>5 DEF DeleteFile, NoOp, Stage, Using
  <2>3. DiskSound'
    BY <1>5, <2>1 DEF DiskSound, RootDir, InodeOf
  <2>4. HandSound'
    BY <1>5, <2>2, <2>3 DEF HandSound, DiskSound, Ahead
  <2>5. Kept'
    BY <2>1, <2>2 DEF Kept
  <2> QED BY <2>3, <2>4, <2>5
<1>6. \A n \in File \cup ((Inum \cap Listed(RootDir)) \ {Root}) : n \in Inum /\ n # Root
  BY <1>1
<1>7. CASE NoFreeInode
  BY <1>7, SoundLost
<1> QED BY <1>2, <1>3, <1>4, <1>5, <1>6, <1>7 DEF Start

LEMMA SoundCounters ==
  ASSUME Types, DiskSound, HandSound, Kept, UpdateGroupDescriptor \/ UpdateSuperblock
  PROVE  DiskSound' /\ HandSound' /\ Kept'
<1>1. UNCHANGED <<inode_table, block, block_bitmap, inode_bitmap, expect, inode>>
  BY DEF UpdateGroupDescriptor, UpdateSuperblock, history
<1>2. Stage' = Stage
  BY DEF UpdateGroupDescriptor, UpdateSuperblock, At, Goto, Stage, Types, TypeOK, Operation
<1>3. /\ op'.cmd = op.cmd /\ op'.ino = op.ino /\ op'.parent = op.parent
      /\ op'.idx = op.idx /\ op'.blk = op.blk /\ op'.tag = op.tag
  BY DEF UpdateGroupDescriptor, UpdateSuperblock, Goto, Types, TypeOK, Operation
<1> QED BY <1>1, <1>2, <1>3, SoundQuiet

LEMMA SoundOthers ==
  ASSUME Types, DiskSound, HandSound, Kept, IrqCommand \/ Crash \/ Done, ~mixed'
  PROVE  DiskSound' /\ HandSound' /\ Kept'
<1>1. CASE IrqCommand
  <2>1. Using => inode' = inode
    BY <1>1, UsingIsInUse DEF IrqCommand
  <2>2. /\ UNCHANGED <<inode_table, block, block_bitmap, inode_bitmap, expect, op>>
        /\ Stage' = Stage
    BY <1>1 DEF IrqCommand, disk, Stage
  <2> QED BY <2>1, <2>2, SoundQuiet
<1>2. CASE Crash
  <2>1. /\ Return
        /\ UNCHANGED <<inode_table, block, block_bitmap, inode_bitmap, expect>>
    BY <1>2 DEF Crash, Return, disk
  <2>2. DiskSound'
    BY <2>1 DEF DiskSound, RootDir, InodeOf
  <2> QED BY <2>1, <2>2, SoundReturn DEF Kept
<1>3. CASE Done
  <2>1. /\ UNCHANGED <<inode_table, block, block_bitmap, inode_bitmap, expect, op, inode>>
        /\ Stage' = Stage
    BY <1>3 DEF Done, vars, disk, history, Stage
  <2> QED BY <2>1, SoundQuiet
<1> QED BY <1>1, <1>2, <1>3

LEMMA TablesTyped == Types => inode_table \in Tables
BY DEF Types, TypeOK, Tables

\* The inode in hand, in the table it will make.
LEMMA AheadHolds ==
  ASSUME Types, HandSound, Using
  PROVE  /\ Target \in Inum
         /\ Ahead = [inode_table EXCEPT ![SlotOf(Target)] = inode]
         /\ Ahead[SlotOf(Target)] = inode
         /\ Ahead \in Tables
         /\ Target \in Holder(Ahead)
         /\ \A n \in Inum : n # Target => Ahead[SlotOf(n)] = inode_table[SlotOf(n)]
<1>1. Target \in Inum /\ (Target = Root \/ inode.type = "file")
  BY DEF Types, Control, Using, Target, HandSound
<1>2. inode_table \in Tables /\ inode \in Inode
  BY DEF Types, TypeOK, Tables
<1>3. Ahead = [inode_table EXCEPT ![SlotOf(Target)] = inode]
  BY DEF Ahead
<1>4. Ahead[SlotOf(Target)] = inode /\ Ahead \in Tables
  BY <1>1, <1>2, <1>3, SlotsDistinct DEF Tables
<1>5. \A n \in Inum : n # Target => Ahead[SlotOf(n)] = inode_table[SlotOf(n)]
  BY <1>1, <1>2, <1>3, SlotsDistinct DEF Tables
<1> QED BY <1>1, <1>3, <1>4, <1>5 DEF Holder

\* Another block in the hand's inode, or only another size: the table it will
\* make holds every block once still.
LEMMA StillAhead ==
  ASSUME Types, HandSound, Using, NEW held \in Inode,
         NEW result, result = [inode_table EXCEPT ![SlotOf(Target)] = held],
         HoldsMore(Ahead, block_bitmap, Target, held)
  PROVE  HeldOnce(result, block_bitmap)
<1>1. PICK table \in Tables : table = Ahead /\ HeldOnce(table, block_bitmap)
  BY AheadHolds DEF HandSound
<1>2. PICK n \in Inum : n = Target /\ n \in Holder(table)
  BY <1>1, AheadHolds
<1>3. result = [table EXCEPT ![SlotOf(n)] = held]
  BY <1>1, <1>2, AheadHolds, SlotsDistinct, TablesTyped DEF Tables
<1>4. HoldsMore(table, block_bitmap, n, held)
  BY <1>1, <1>2
<1> QED BY <1>1, <1>2, <1>3, <1>4, StoredMore

\* The blocks of a file that is not in hand are not the hand's.
LEMMA OthersBlocks ==
  ASSUME Types, HandSound, Using, NEW n \in Inum, n # Target,
         inode_table[SlotOf(n)].type = "file", NEW i \in Pointer
  PROVE  /\ \A j \in Pointer : inode.block[j] # 0 =>
              inode_table[SlotOf(n)].block[i] # inode.block[j]
         /\ \A b : Unheld(inode_table, b) => inode_table[SlotOf(n)].block[i] # b
<1>1. n \in Holder(Ahead) /\ n \in Holder(inode_table)
  BY AheadHolds DEF Holder
<1>2. ASSUME NEW j \in Pointer, inode.block[j] # 0
      PROVE  inode_table[SlotOf(n)].block[i] # inode.block[j]
  <2>1. Ahead[SlotOf(Target)].block[j] # 0 /\ HeldOnce(Ahead, block_bitmap)
    BY <1>2, AheadHolds DEF HandSound
  <2>2. Ahead[SlotOf(n)].block[i] # Ahead[SlotOf(Target)].block[j]
    BY <1>1, <2>1, AheadHolds DEF HeldOnce
  <2> QED BY <2>2, AheadHolds
<1> QED BY <1>1, <1>2 DEF Unheld

\* find_free_block: nobody holds what it returns.
LEMMA SoundTake ==
  ASSUME Types, Types', DiskSound, HandSound, Kept,
         NewDirBlock \/ AllocateData
  PROVE  DiskSound' /\ HandSound' /\ Kept'
<1>1. PICK idx, then :
        /\ TakeBlock(idx, then)
        /\ \/ Stage = "place" /\ then = "dirblock"
           \/ Stage = "block" /\ then = "data"
        /\ Stage = "block" => idx = op.idx
  BY DEF NewDirBlock, AllocateData, At, Stage
<1>2. PICK b :
        /\ b = FoundBlock /\ ~FullBlocks
        /\ block_bitmap' = block_bitmap \cup {BitOf(b)}
        /\ op' = [op EXCEPT !.pc = "bgdt", !.then = then, !.di = 0, !.db = -1,
                            !.idx = idx, !.blk = b]
  BY <1>1 DEF TakeBlock
<1>3. UNCHANGED <<inode_bitmap, inode_table, block, inode, expect>>
  <2>1. UNCHANGED <<inode_bitmap, inode_table, block, inode, history>>
    BY <1>1, Zenon DEF TakeBlock
  <2> QED BY <2>1 DEF history
<1>4. BitOf(b) = b /\ b \notin block_bitmap
  BY <1>2, <1>3, BlockFound, BitsOfBlocks
<1>5. /\ op'.cmd = op.cmd /\ op'.ino = op.ino /\ op'.parent = op.parent
      /\ op'.idx = idx /\ op'.blk = b /\ op'.tag = op.tag
      /\ op'.pc = "bgdt" /\ op'.then = then
  BY <1>2 DEF Types, TypeOK, Operation
<1>6. Stage' = then /\ Using /\ Using' /\ Target' = Target
  BY <1>1, <1>5 DEF Stage, Using, Target
<1>7. Ahead' = Ahead
  BY <1>3, <1>6 DEF Ahead
<1>8. HeldOnce(inode_table, block_bitmap) /\ HeldOnce(Ahead, block_bitmap)
  BY DEF DiskSound, HandSound
<1>9. ASSUME NEW table, HeldOnce(table, block_bitmap), b # 0
      PROVE  Unheld(table, b)
  BY <1>4, <1>9 DEF Unheld, HeldOnce
<1>10. b # 0
  BY <1>4 DEF DiskSound
<1>11. DiskSound'
  BY <1>2, <1>3, <1>8, MoreBits DEF DiskSound, RootDir, InodeOf
<1>12. HeldOnce(Ahead, block_bitmap')
  BY <1>2, <1>8, MoreBits
<1>13. Unheld(inode_table, b) /\ Unheld(Ahead, b)
  BY <1>8, <1>9, <1>10
<1>14. HandSound'
  BY <1>1, <1>2, <1>3, <1>5, <1>6, <1>7, <1>10, <1>12, <1>13 DEF HandSound, InodeOf
<1>15. Kept'
  BY <1>1, <1>3, <1>5, <1>6 DEF Kept, InodeOf
<1> QED BY <1>11, <1>14, <1>15

\* create_inode and reading the parent.
LEMMA SoundCreate ==
  ASSUME Types, Types', DiskSound, HandSound, Kept,
         CreateInode \/ ReadParent \/ DirectoryFull
  PROVE  DiskSound' /\ HandSound' /\ Kept'
<1>1. CASE CreateInode
  <2>1. /\ Stage = "table" /\ op.cmd = "create" /\ op.ino \in Inum
        /\ op.parent \in Inum /\ op.ino # Root
        /\ UNCHANGED <<inode_bitmap, block_bitmap, block, inode, expect>>
    BY <1>1 DEF CreateInode, At, Stage, Types, Control, HandSound, history
  <2>2. inode_table' = [inode_table EXCEPT ![SlotOf(op.ino)] = NewInode]
    BY <1>1 DEF CreateInode
  <2>3. /\ inode_table'[SlotOf(op.ino)] = NewInode
        /\ \A n \in Inum : n # op.ino =>
             inode_table'[SlotOf(n)] = inode_table[SlotOf(n)]
    BY <2>1, <2>2, TablesTyped, SlotsDistinct DEF Tables
  <2>4. NewInode \in Inode /\ \A i \in Pointer : NewInode.block[i] = 0
    BY SizesAssumption DEF NewInode, NoBlocks, Inode, Block
  <2>5. MayHold(inode_table, block_bitmap, op.ino, NewInode)
    BY <2>4 DEF MayHold
  <2>6. HeldOnce(inode_table', block_bitmap)
    BY <2>1, <2>2, <2>4, <2>5, StoredExclusive, TablesTyped DEF DiskSound
  <2>7. DiskSound'
    BY <2>1, <2>3, <2>6, RootIsInode DEF DiskSound, RootDir, InodeOf
  <2>8. /\ Stage' = "parent" /\ ~Using' /\ op'.cmd = op.cmd /\ op'.ino = op.ino
        /\ op'.parent = op.parent
    BY <1>1 DEF CreateInode, Goto, Stage, Using, Types, TypeOK, Operation
  <2>9. InodeOf(op.parent)'.type = "file" \/ op.parent = Root
    BY <2>1, <2>3, <2>8 DEF HandSound, InodeOf, NewInode
  <2>10. HandSound'
    BY <2>1, <2>7, <2>8, <2>9 DEF HandSound, DiskSound, Ahead, InodeOf
  <2>11. \A n \in DOMAIN expect : Holds(inode_table', block', n, expect[n])
    <3> SUFFICES ASSUME NEW n \in DOMAIN expect
                 PROVE  Holds(inode_table', block', n, expect[n])
      OBVIOUS
    <3>1. n \in Inum /\ n # op.ino
      BY <2>1 DEF Kept, Types, TypeOK
    <3>2. inode_table'[SlotOf(n)] = inode_table[SlotOf(n)] /\ block' = block
      BY <2>1, <2>3, <3>1
    <3>3. Holds(inode_table, block, n, expect[n])
      BY DEF Kept
    <3> QED BY <3>2, <3>3, HoldsStill
  <2>12. Kept'
    BY <2>1, <2>3, <2>8, <2>11 DEF Kept, InodeOf
  <2> QED BY <2>7, <2>10, <2>12
<1>2. ASSUME Return, UNCHANGED disk, Stage \in {"parent", "place"}, NEW inRoot,
             Created(inRoot)
      PROVE  DiskSound' /\ HandSound' /\ Kept'
  <2>1. DiskSound'
    BY <1>2 DEF disk, DiskSound, RootDir, InodeOf
  <2>2. inode_table'[SlotOf(op.ino)] = NewInode
    BY <1>2 DEF disk, Kept, InodeOf
  <2>3. \A n \in DOMAIN expect : Holds(inode_table', block', n, expect[n])
    BY <1>2 DEF disk, Kept
  <2> QED BY <1>2, <2>1, <2>2, <2>3, SoundReturn, SoundCreated
<1>3. CASE ReadParent
  <2>1. Stage = "parent" /\ inode' = InodeOf(op.parent) /\ UNCHANGED disk
        /\ op.cmd = "create" /\ op.parent \in Inum
    BY <1>3 DEF ReadParent, At, Stage, Types, Control
  <2>2. CASE InodeOf(op.parent).type # "dir"
    BY <1>2, <1>3, <2>1, <2>2 DEF ReadParent
  <2>3. CASE InodeOf(op.parent).type = "dir"
    <3>1. Goto("place") /\ UNCHANGED history
      BY <1>3, <2>3 DEF ReadParent
    <3>2. /\ Stage' = "place" /\ Using' /\ op'.cmd = op.cmd /\ op'.ino = op.ino
          /\ op'.parent = op.parent /\ Target' = op.parent
      BY <2>1, <3>1 DEF Goto, Stage, Using, Target, Types, TypeOK, Operation
    <3>3. op.parent = Root
      BY <2>1, <2>3 DEF HandSound
    <3>4. Ahead' = inode_table
      <4>1. Ahead' = [inode_table EXCEPT ![SlotOf(op.parent)] =
                        inode_table[SlotOf(op.parent)]]
        BY <2>1, <3>2 DEF Ahead, InodeOf, disk
      <4> QED BY <4>1, TablesTyped DEF Tables
    <3>5. DiskSound'
      BY <2>1 DEF disk, DiskSound, RootDir, InodeOf
    <3>6. HandSound'
      BY <2>1, <2>3, <3>2, <3>3, <3>4, <3>5 DEF HandSound, DiskSound, disk
    <3>7. Kept'
      BY <2>1, <3>1, <3>2 DEF Kept, disk, history, InodeOf
    <3> QED BY <3>5, <3>6, <3>7
  <2> QED BY <2>2, <2>3
<1>4. CASE DirectoryFull
  <2>1. Return /\ UNCHANGED disk /\ Stage = "place" /\ Created(FALSE)
    BY <1>4 DEF DirectoryFull, At, Stage
  <2> QED BY <1>2, <2>1
<1> QED BY <1>1, <1>3, <1>4

\* The entry is placed and the parent written back.
LEMMA SoundPlace ==
  ASSUME Types, Types', DiskSound, HandSound, Kept,
         PlaceEntry \/ WriteDirBlock \/ WriteBackParent
  PROVE  DiskSound' /\ HandSound' /\ Kept'
<1>1. /\ Stage \in {"place", "dirblock", "writeback"} /\ op.cmd = "create"
      /\ op.ino \in Inum /\ op.ino # Root /\ op.parent = Root /\ inode.type = "dir"
      /\ Using /\ Target = Root
      /\ UNCHANGED <<inode_bitmap, block_bitmap>>
  BY DEF PlaceEntry, WriteDirBlock, WriteBackParent, At, Stage, Using, Target, Types,
         Control, HandSound
<1>2. inode_table \in Tables /\ inode_table' \in Tables /\ inode \in Inode /\ inode' \in Inode
  BY DEF Types, TypeOK, Tables
<1>3. InodeOf(op.ino) = NewInode
  BY <1>1 DEF Kept
<1>4. ASSUME NEW n \in DOMAIN expect
      PROVE  /\ n \in Inum /\ n # Root /\ n # op.ino /\ inode_table[SlotOf(n)].type = "file"
             /\ Holds(inode_table, block, n, expect[n])
  BY <1>1 DEF Kept, Holds, DiskSound, RootDir, InodeOf, Types, TypeOK
<1>5. ASSUME UNCHANGED inode_table, NEW c, NEW entries, block' = [block EXCEPT ![c] = entries],
             \/ Unheld(inode_table, c)
             \/ \E j \in Pointer : c = inode.block[j] /\ c # 0
      PROVE  \A n \in DOMAIN expect : Holds(inode_table', block', n, expect[n])
  <2> SUFFICES ASSUME NEW n \in DOMAIN expect
               PROVE  Holds(inode_table', block', n, expect[n])
    OBVIOUS
  <2>1. \A i \in Pointer : inode_table[SlotOf(n)].block[i] # c
    BY <1>1, <1>4, <1>5, OthersBlocks
  <2>2. Alike(inode_table[SlotOf(n)], block, block')
    BY <1>2, <1>4, <1>5, <2>1, OtherBlock
  <2>3. n \in Inum /\ Holds(inode_table, block, n, expect[n])
    BY <1>4
  <2> QED BY <1>2, <1>5, <2>2, <2>3, HoldsSame
<1>6. ASSUME UNCHANGED inode_table PROVE DiskSound'
  BY <1>1, <1>6 DEF DiskSound, RootDir, InodeOf
<1>7. ASSUME UNCHANGED <<inode_table, expect>>, Goto("writeback"),
             HoldsMore(Ahead, block_bitmap, Root, inode'), inode'.type = inode.type,
             \A n \in DOMAIN expect : Holds(inode_table', block', n, expect[n])
      PROVE  HandSound' /\ Kept'
  <2>1. /\ Stage' = "writeback" /\ Using' /\ op'.cmd = op.cmd /\ op'.ino = op.ino
        /\ op'.parent = op.parent /\ Target' = Root
    BY <1>1, <1>7 DEF Goto, Stage, Using, Target, Types, TypeOK, Operation
  <2>2. Ahead' = [inode_table EXCEPT ![SlotOf(Target)] = inode']
    BY <1>1, <1>7, <2>1 DEF Ahead
  <2>3. HeldOnce(Ahead', block_bitmap)
    BY <1>1, <1>2, <1>7, <2>2, StillAhead
  <2>4. HandSound'
    BY <1>1, <1>7, <2>1, <2>3 DEF HandSound
  <2>5. Kept'
    BY <1>1, <1>3, <1>7, <2>1 DEF Kept, InodeOf
  <2> QED BY <2>4, <2>5
<1>8. CASE PlaceEntry
  <2> DEFINE i == TargetIndex(inode)
             c == inode.block[i]
  <2>1. /\ i < NDirect /\ c # 0 /\ UNCHANGED inode_table
        /\ block' = [block EXCEPT ![c] = WithEntry(block[c], op.ino)]
    BY <1>8 DEF PlaceEntry
  <2>2. i \in Pointer
    BY <2>1, TargetType
  <2>3. \A n \in DOMAIN expect : Holds(inode_table', block', n, expect[n])
    BY <1>5, <2>1, <2>2
  <2>4. CASE Return /\ Created(op.parent = Root)
    <3>1. inode_table'[SlotOf(op.ino)] = NewInode
      BY <1>3, <2>1 DEF InodeOf
    <3> QED BY <1>6, <2>1, <2>3, <2>4, <3>1, SoundReturn, SoundCreated
  <2>5. CASE /\ inode' = [inode EXCEPT !.size = WalkEnd(block[c]) + 1]
             /\ Goto("writeback") /\ UNCHANGED history
    <3>1. inode'.type = inode.type /\ inode'.block = inode.block
      BY <1>2, <2>5 DEF Inode
    <3>2. HoldsMore(Ahead, block_bitmap, Root, inode')
      BY <1>1, <3>1, AheadHolds DEF HoldsMore
    <3> QED BY <1>6, <1>7, <2>1, <2>3, <2>5, <3>1, <3>2 DEF history
  <2> QED BY <1>8, <2>4, <2>5 DEF PlaceEntry
<1>9. CASE WriteDirBlock
  <2>1. /\ Stage = "dirblock" /\ op.idx \in Pointer /\ op.blk \in Block
        /\ UNCHANGED <<inode_table, history>> /\ Goto("writeback")
        /\ inode' = [inode EXCEPT !.block[op.idx] = op.blk, !.size = inode.size + K]
        /\ block' = [block EXCEPT ![op.blk] =
                       [EmptyBlock EXCEPT ![0] = [inode |-> op.ino, size |-> 0]]]
    BY <1>9 DEF WriteDirBlock, At, Stage, Types, TypeOK, Operation, Control
  <2>2. /\ BitOf(op.blk) \in block_bitmap
        /\ Unheld(inode_table, op.blk) /\ Unheld(Ahead, op.blk)
    BY <2>1 DEF HandSound
  <2>3. \A n \in DOMAIN expect : Holds(inode_table', block', n, expect[n])
    BY <1>5, <2>1, <2>2
  <2>4. inode'.type = inode.type /\ inode'.block = [inode.block EXCEPT ![op.idx] = op.blk]
    BY <1>2, <2>1 DEF Inode
  <2>5. \A j \in Pointer : inode.block[j] # op.blk
    BY <1>1, <2>2, AheadHolds DEF Unheld
  <2>6. HoldsMore(Ahead, block_bitmap, Root, inode')
    BY <1>1, <1>2, <2>1, <2>2, <2>4, <2>5, AheadHolds DEF HoldsMore, Inode
  <2> QED BY <1>6, <1>7, <2>1, <2>3, <2>4, <2>6 DEF history
<1>10. CASE WriteBackParent
  <2>1. /\ Return /\ Created(op.parent = Root) /\ UNCHANGED block
        /\ inode_table' = [inode_table EXCEPT ![SlotOf(Root)] = inode]
    BY <1>1, <1>10 DEF WriteBackParent
  <2>2. inode_table' = Ahead
    BY <1>1, <2>1, AheadHolds
  <2>3. DiskSound'
    BY <1>1, <2>2, AheadHolds DEF DiskSound, HandSound, RootDir, InodeOf
  <2>4. /\ inode_table'[SlotOf(op.ino)] = NewInode
        /\ \A n \in DOMAIN expect : inode_table'[SlotOf(n)] = inode_table[SlotOf(n)]
    BY <1>1, <1>3, <1>4, <2>2, AheadHolds DEF InodeOf
  <2>5. \A n \in DOMAIN expect : Holds(inode_table', block', n, expect[n])
    BY <1>4, <2>1, <2>4, HoldsStill
  <2> QED BY <2>1, <2>3, <2>4, <2>5, SoundReturn, SoundCreated
<1> QED BY <1>8, <1>9, <1>10

\* The data is written, and at last the inode.
LEMMA SoundWrite ==
  ASSUME Types, Types', DiskSound, HandSound, Kept, WriteData \/ FinishWrite
  PROVE  DiskSound' /\ HandSound' /\ Kept'
<1>1. /\ Stage \in {"block", "data", "size"} /\ op.cmd = "write"
      /\ op.ino \in Inum /\ op.ino # Root /\ inode.type = "file"
      /\ op.idx \in 0 .. op.len /\ op.len \in 0 .. NDirect
      /\ Using /\ Target = op.ino
      /\ UNCHANGED <<inode_bitmap, block_bitmap>>
  <2>1. op.pc \in {"block", "data", "size"} /\ UNCHANGED <<inode_bitmap, block_bitmap>>
    BY DEF WriteData, WriteDataTo, FinishWrite, At
  <2>2. Stage = op.pc
    BY <2>1 DEF Stage
  <2>3. /\ op.cmd = "write" /\ op.ino \in Inum /\ op.ino # Root /\ inode.type = "file"
        /\ op.idx < op.len \/ op.idx = op.len
    BY <2>1, <2>2 DEF Types, Control, HandSound
  <2>4. op.idx \in 0 .. op.len /\ op.len \in 0 .. NDirect
    BY <2>3, SizesAssumption DEF Types, TypeOK, Operation
  <2> QED BY <2>1, <2>2, <2>3, <2>4 DEF Using, Target
<1>2. inode_table \in Tables /\ inode_table' \in Tables /\ inode \in Inode /\ inode' \in Inode
  BY DEF Types, TypeOK, Tables
<1>3. ASSUME NEW n \in DOMAIN expect
      PROVE  /\ n \in Inum /\ n # op.ino /\ inode_table[SlotOf(n)].type = "file"
             /\ Holds(inode_table, block, n, expect[n])
  BY <1>1 DEF Kept, Holds, Types, TypeOK
<1>4. \A k \in 0 .. op.idx - 1 :
        k \in Pointer /\ inode.block[k] # 0 /\ block[inode.block[k]][0].inode = op.tag
  BY <1>1, SizesAssumption DEF Kept, Pointer
<1>5. CASE WriteData
  <2>1. PICK b : /\ WriteDataTo(b) /\ op.idx \in Pointer
                 /\ \/ op.pc = "data" /\ b = op.blk
                    \/ op.pc = "block" /\ b = inode.block[op.idx] /\ b # 0
    <3>1. PICK b : /\ WriteDataTo(b)
                   /\ \/ op.pc = "data" /\ b = op.blk
                      \/ op.pc = "block" /\ b = inode.block[op.idx] /\ b # 0
      BY <1>5 DEF WriteData, At
    <3>2. Stage = op.pc
      BY <3>1 DEF Stage
    <3>3. /\ op.idx < op.len /\ op.idx \in 0 .. NDirect /\ op.len \in 0 .. NDirect
      BY <3>1, <3>2 DEF Types, Control, TypeOK, Operation
    <3>4. op.idx \in Pointer
      BY <3>3, SizesAssumption DEF Pointer
    <3> QED BY <3>1, <3>4
  <2>2. /\ inode' = [inode EXCEPT !.block[op.idx] = b]
        /\ block' = [block EXCEPT ![b] = DataBlock(op.tag)]
        /\ UNCHANGED <<inode_table, expect>>
    BY <2>1 DEF WriteDataTo, history
  <2>3. /\ op'.idx = op.idx + 1 /\ op'.cmd = op.cmd /\ op'.ino = op.ino /\ op'.tag = op.tag
        /\ op'.pc \in {"size", "block"}
    BY <2>1 DEF WriteDataTo, Types, TypeOK, Operation
  <2>4. Stage' = op'.pc /\ Using' /\ Target' = op.ino
    BY <1>1, <2>3 DEF Stage, Using, Target
  <2>5. b \in Block /\ b # 0
    BY <1>2, <2>1 DEF HandSound, Stage, Inode, Types, TypeOK, Operation
  <2>6. op.pc = "data" =>
          /\ BitOf(b) \in block_bitmap /\ Unheld(inode_table, b) /\ Unheld(Ahead, b)
    BY <2>1 DEF HandSound, Stage
  <2>7. inode'.type = inode.type /\ inode'.block = [inode.block EXCEPT ![op.idx] = b]
    BY <1>2, <2>2 DEF Inode
  <2>8. \A j \in Pointer : j # op.idx => inode.block[j] # b
    <3>1. CASE op.pc = "data"
      BY <1>1, <2>6, <3>1, AheadHolds DEF Unheld
    <3>2. CASE op.pc = "block"
      <4>1. ASSUME NEW j \in Pointer, inode.block[j] = inode.block[op.idx]
            PROVE  j = op.idx
        <5>1. Ahead[SlotOf(Target)] = inode /\ Target \in Holder(Ahead)
              /\ HeldOnce(Ahead, block_bitmap)
          BY <1>1, AheadHolds DEF HandSound
        <5> QED BY <2>1, <2>5, <3>2, <4>1, <5>1, HeldOnceUsed
      <4> QED BY <2>1, <3>2, <4>1
    <3> QED BY <2>1, <3>1, <3>2
  <2>9. HoldsMore(Ahead, block_bitmap, Target, inode')
    <3>1. Ahead[SlotOf(Target)] = inode
      BY <1>1, AheadHolds
    <3> QED BY <1>2, <2>1, <2>6, <2>7, <2>8, <3>1 DEF HoldsMore, Inode
  <2>10. Ahead' = [inode_table EXCEPT ![SlotOf(Target)] = inode']
    BY <1>1, <2>2, <2>4 DEF Ahead
  <2>11. HeldOnce(Ahead', block_bitmap)
    BY <1>1, <1>2, <2>9, <2>10, StillAhead
  <2>12. DiskSound'
    BY <1>1, <2>2 DEF DiskSound, RootDir, InodeOf
  <2>13. HandSound'
    BY <1>1, <2>3, <2>4, <2>7, <2>11 DEF HandSound
  <2>14. \A n \in DOMAIN expect : Holds(inode_table', block', n, expect[n])
    <3> SUFFICES ASSUME NEW n \in DOMAIN expect
                 PROVE  Holds(inode_table', block', n, expect[n])
      OBVIOUS
    <3>1. \A i \in Pointer : inode_table[SlotOf(n)].block[i] # b
      BY <1>1, <1>3, <2>1, <2>6, OthersBlocks
    <3>2. Alike(inode_table[SlotOf(n)], block, block')
      BY <1>2, <1>3, <2>2, <3>1, OtherBlock
    <3>3. n \in Inum /\ Holds(inode_table, block, n, expect[n])
      BY <1>3
    <3> QED BY <1>2, <2>2, <3>2, <3>3, HoldsSame
  <2>15. \A k \in 0 .. op'.idx - 1 :
           inode'.block[k] # 0 /\ block'[inode'.block[k]][0].inode = op.tag
    <3> SUFFICES ASSUME NEW k \in 0 .. op'.idx - 1
                 PROVE  inode'.block[k] # 0 /\ block'[inode'.block[k]][0].inode = op.tag
      OBVIOUS
    <3>1. block'[b][0].inode = op.tag
      <4>1. block'[b] = DataBlock(op.tag)
        BY <2>2, <2>5 DEF Types, TypeOK
      <4>2. 0 \in Slot
        BY SizesAssumption DEF Slot
      <4> QED BY <4>1, <4>2 DEF DataBlock
    <3>2. CASE k = op.idx
      <4>1. inode'.block[op.idx] = b
        BY <1>2, <2>1, <2>7 DEF Inode
      <4> QED BY <2>5, <3>1, <3>2, <4>1
    <3>3. CASE k # op.idx
      <4>1. k \in 0 .. op.idx - 1
        BY <1>1, <2>3, <3>3
      <4>2. inode'.block[k] = inode.block[k] /\ inode.block[k] # b
        BY <1>2, <1>4, <2>7, <2>8, <3>3, <4>1 DEF Inode
      <4>3. block'[inode.block[k]] = block[inode.block[k]]
        BY <1>2, <1>4, <2>2, <4>1, <4>2 DEF Inode, Types, TypeOK
      <4> QED BY <1>4, <4>1, <4>2, <4>3
    <3> QED BY <3>2, <3>3
  <2>16. Kept'
    BY <1>1, <2>2, <2>3, <2>4, <2>14, <2>15 DEF Kept
  <2> QED BY <2>12, <2>13, <2>16
<1>6. CASE FinishWrite
  <2>1. /\ Stage = "size" /\ op.idx = op.len /\ Return /\ UNCHANGED block
        /\ inode' = [inode EXCEPT !.size = op.len]
        /\ inode_table' = [inode_table EXCEPT ![SlotOf(op.ino)] = inode']
        /\ expect' = [m \in DOMAIN expect \cup {op.ino} |->
                        IF m = op.ino THEN [i \in 0 .. op.len - 1 |-> op.tag]
                                      ELSE expect[m]]
    BY <1>6 DEF FinishWrite, At, Stage, Types, Control
  <2>2. inode'.type = inode.type /\ inode'.block = inode.block /\ inode'.size = op.len
    BY <1>2, <2>1 DEF Inode
  <2>3. HoldsMore(Ahead, block_bitmap, Target, inode')
    BY <1>1, <2>2, AheadHolds DEF HoldsMore
  <2>4. HeldOnce(inode_table', block_bitmap)
    BY <1>1, <1>2, <2>1, <2>3, StillAhead
  <2>5. /\ inode_table'[SlotOf(op.ino)] = inode'
        /\ \A n \in Inum : n # op.ino =>
             inode_table'[SlotOf(n)] = inode_table[SlotOf(n)]
    BY <1>1, <1>2, <2>1, SlotsDistinct DEF Tables
  <2>6. DiskSound'
    BY <1>1, <2>4, <2>5, RootIsInode DEF DiskSound, RootDir, InodeOf
  <2>7. Holds(inode_table', block', op.ino, [i \in 0 .. op.len - 1 |-> op.tag])
    <3>1. inode_table'[SlotOf(op.ino)].type = "file"
          /\ inode_table'[SlotOf(op.ino)].size = op.len
      BY <1>1, <2>2, <2>5
    <3>2. Written(block', inode_table'[SlotOf(op.ino)], op.len, op.tag)
      <4> SUFFICES ASSUME NEW k \in 0 .. op.len - 1
                   PROVE  /\ inode_table'[SlotOf(op.ino)].block[k] # 0
                          /\ block'[inode_table'[SlotOf(op.ino)].block[k]][0].inode = op.tag
        BY DEF Written
      <4>1. inode.block[k] # 0 /\ block[inode.block[k]][0].inode = op.tag
        BY <1>4, <2>1
      <4>2. inode_table'[SlotOf(op.ino)].block = inode.block
        BY <2>2, <2>5
      <4>3. block' = block
        BY <2>1
      <4> QED BY <4>1, <4>2, <4>3
    <3>3. PICK table \in Tables : table = inode_table'
      BY <1>2
    <3>4. ASSUME NEW contents, NEW n \in Inum, NEW len \in 0 .. NDirect, NEW tag,
                 contents = block', n = op.ino, len = op.len, tag = op.tag
          PROVE  Holds(table, contents, n, [i \in 0 .. len - 1 |-> tag])
      BY <3>1, <3>2, <3>3, <3>4, WrittenHolds
    <3> QED BY <1>1, <3>3, <3>4
  <2>8. ASSUME NEW n \in DOMAIN expect PROVE Holds(inode_table', block', n, expect[n])
    BY <1>3, <2>1, <2>5, HoldsStill
  <2>9. \A n \in DOMAIN expect' : Holds(inode_table', block', n, expect'[n])
    BY <1>3, <2>1, <2>7, <2>8
  <2> QED BY <2>1, <2>6, <2>9, SoundReturn
<1> QED BY <1>5, <1>6

\* delete_file clears the inode.
LEMMA SoundClear ==
  ASSUME Types, Types', DiskSound, HandSound, Kept, ClearInode
  PROVE  DiskSound' /\ HandSound' /\ Kept'
<1>1. /\ op.ino \in Inum /\ op.ino # Root /\ op.cmd = "delete" /\ Return
      /\ UNCHANGED <<inode_bitmap, block_bitmap, block, expect>>
      /\ inode_table' = [inode_table EXCEPT ![SlotOf(op.ino)] = EmptyInode]
  BY DEF ClearInode, At, Stage, Types, Control, HandSound, history
<1>2. inode_table \in Tables /\ inode_table' \in Tables
  BY DEF Types, TypeOK, Tables
<1>3. \A n \in Inum : n # op.ino => inode_table'[SlotOf(n)] = inode_table[SlotOf(n)]
  BY <1>1, <1>2, SlotsDistinct DEF Tables
<1>4. EmptyInode \in Inode /\ \A i \in Pointer : EmptyInode.block[i] = 0
  BY SizesAssumption DEF EmptyInode, NoBlocks, Inode, Block
<1>5. MayHold(inode_table, block_bitmap, op.ino, EmptyInode)
  BY <1>4 DEF MayHold
<1>6. HeldOnce(inode_table', block_bitmap)
  BY <1>1, <1>2, <1>4, <1>5, StoredExclusive DEF DiskSound
<1>7. DiskSound'
  BY <1>1, <1>3, <1>6, RootIsInode DEF DiskSound, RootDir, InodeOf
<1>8. ASSUME NEW n \in DOMAIN expect' PROVE Holds(inode_table', block', n, expect'[n])
  <2>1. n \in Inum /\ n # op.ino
    BY <1>1, <1>8 DEF Kept, Types, TypeOK
  <2>2. inode_table'[SlotOf(n)] = inode_table[SlotOf(n)] /\ block' = block
    BY <1>1, <1>3, <2>1
  <2>3. Holds(inode_table, block, n, expect'[n])
    BY <1>1, <1>8 DEF Kept
  <2> QED BY <2>2, <2>3, HoldsStill
<1> QED BY <1>1, <1>7, <1>8, SoundReturn

\* What has gone wrong once stays noted.
LEMMA NotedForGood ==
  ASSUME [Next]_vars, ~mixed'
  PROVE  ~mixed
<1>1. CASE UNCHANGED vars
  BY <1>1 DEF vars, history
<1>2. CASE Start
  BY <1>2 DEF Start, CreateFile, NoFreeInode, WriteFile, ReadFile, DeleteFile, history
<1>3. CASE IrqCommand
  BY <1>3, Zenon DEF IrqCommand
<1>4. CASE NewDirBlock \/ AllocateData \/ NoFreeBlock
  BY <1>4 DEF NewDirBlock, AllocateData, TakeBlock, NoFreeBlock, history
<1>5. CASE Crash \/ Done \/ UpdateGroupDescriptor \/ UpdateSuperblock \/ CreateInode
           \/ ReadParent \/ DirectoryFull \/ PlaceEntry
  BY <1>5 DEF Crash, Done, UpdateGroupDescriptor, UpdateSuperblock, CreateInode, ReadParent,
              DirectoryFull, PlaceEntry, Created, vars, history
<1>6. CASE WriteDirBlock \/ WriteBackParent \/ WriteData \/ FinishWrite \/ ClearInode
  BY <1>6 DEF WriteDirBlock, WriteBackParent, WriteData, WriteDataTo, FinishWrite,
              ClearInode, Created, history
<1> QED BY <1>1, <1>2, <1>3, <1>4, <1>5, <1>6 DEF Next, Step

LEMMA SoundStep ==
  ASSUME Types, Types', Sound, [Next]_vars
  PROVE  Sound'
<1> SUFFICES ASSUME ~mixed' PROVE DiskSound' /\ HandSound' /\ Kept'
  BY DEF Sound
<1>1. DiskSound /\ HandSound /\ Kept
  BY NotedForGood DEF Sound
<1>2. CASE UNCHANGED vars
  <2>1. /\ UNCHANGED <<inode_table, block, block_bitmap, inode_bitmap, expect, op, inode>>
        /\ Stage' = Stage
    BY <1>2 DEF vars, disk, history, Stage
  <2> QED BY <1>1, <2>1, SoundQuiet
<1>3. CASE Start
  BY <1>1, <1>3, SoundStart
<1>4. CASE IrqCommand \/ Crash \/ Done
  BY <1>1, <1>4, SoundOthers
<1>5. CASE UpdateGroupDescriptor \/ UpdateSuperblock
  BY <1>1, <1>5, SoundCounters
<1>6. CASE CreateInode \/ ReadParent \/ DirectoryFull
  BY <1>1, <1>6, SoundCreate
<1>7. CASE PlaceEntry \/ WriteDirBlock \/ WriteBackParent
  BY <1>1, <1>7, SoundPlace
<1>8. CASE NewDirBlock \/ AllocateData
  BY <1>1, <1>8, SoundTake
<1>9. CASE WriteData \/ FinishWrite
  BY <1>1, <1>9, SoundWrite
<1>10. CASE ClearInode
  BY <1>1, <1>10, SoundClear
<1>11. CASE NoFreeBlock
  BY <1>1, <1>11, SoundLost
<1> QED BY <1>2, <1>3, <1>4, <1>5, <1>6, <1>7, <1>8, <1>9, <1>10, <1>11 DEF Next, Step

LEMMA SoundAlways == Spec => [](Types /\ Sound)
<1>1. Init => Types /\ Sound
  BY TypesInit, SoundInit
<1>2. Types /\ Sound /\ [Next]_vars => Types' /\ Sound'
  BY TypesStep, SoundStep
<1> QED BY <1>1, <1>2, PTL DEF Spec

\* No block belongs to two files, or to a file and the root directory, or is
\* marked free while one of them holds it: at any moment, also when power is
\* lost, for files and bitmaps of every size.
THEOREM NoBlockShared == Spec => []BlocksExclusive
<1>1. Types /\ Sound => BlocksExclusive
  BY ExclusiveIsHeldOnce DEF Sound, DiskSound, BlocksExclusive
<1> QED BY <1>1, SoundAlways, PTL

\* Every file reads back as it was last written, whatever was done to others
\* and whenever power was lost.
THEOREM FilesReadBack == Spec => []ReadBack
<1>1. Types /\ Sound => ReadBack
  BY DEF Sound, Kept, Holds, ReadBack, Contents, ContentsIn, InodeOf
<1> QED BY <1>1, SoundAlways, PTL

=============================================================================

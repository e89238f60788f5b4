------------------------------- MODULE MCExt2 -------------------------------
(***************************************************************************)
(* Two disks, scaled down, on which inodes 1 to 3 are reserved and         *)
(* lost+found, whose 256-byte inode the kernel's 128-byte view finds in    *)
(* the slot of inode 5, owns the last block in use.  On one, as mkfs       *)
(* leaves it, the root directory has one block with `.` and `..` and room  *)
(* for one more entry; on the other it has filled all its other blocks.    *)
(***************************************************************************)
EXTENDS Ext2

RootBlock == 2
LostFoundBlock == 4
LostFoundSlot == 5

MCMkfsInodes == 1 .. 3
MCMkfsBlocks == 1 .. 4

Dir(blocks) ==
  [type |-> "dir", size |-> K * Cardinality(blocks),
   block |-> [i \in DOMAIN NoBlocks |->
                IF i < Cardinality(blocks) THEN Least(blocks) + i ELSE 0]]

Table(rootBlocks) ==
  [s \in 0 .. IPG - 1 |->
     CASE s = Root          -> Dir(rootBlocks)
       [] s = LostFoundSlot -> Dir(MCMkfsBlocks \ (rootBlocks \cup {1}))
       [] OTHER             -> EmptyInode]

DotDot == [EmptyBlock EXCEPT ![0] = [inode |-> Root, size |-> 1],
                             ![1] = [inode |-> Root, size |-> K - 1]]
FullBlock == [s \in Slot |-> [inode |-> Root, size |-> 1]]

Fresh ==
  [table |-> Table({RootBlock}),
   block |-> [b \in Block |-> IF b = RootBlock THEN DotDot ELSE EmptyBlock]]

Used ==
  [table |-> Table(RootBlock .. LostFoundBlock - 1),
   block |-> [b \in Block |-> CASE b = RootBlock -> DotDot
                               [] b \in RootBlock + 1 .. LostFoundBlock - 1 -> FullBlock
                               [] OTHER -> EmptyBlock]]

MCMkfsDisks == {Fresh, Used}

\* Of what comes after a command has changed the global inode under an
\* operation, the properties say little: the run does not follow it.
NotMixed == ~mixed

=============================================================================

-------------------------- MODULE MCVirtualMemory --------------------------
(***************************************************************************)
(* Two-entry tables.  The loader's upper half holds a kernel page (frame   *)
(* 5, mapped read-only) with an absent neighbour in the same page table,   *)
(* a direct map by 4 KiB entries of the page table itself (6) and of the   *)
(* first usable frame (7), which is soon a table or a mapped page, and a   *)
(* huge page over frames 8 to 11, usable and beyond the bitmap; the lower  *)
(* half is empty.                                                          *)
(*                                                                         *)
(* In the lower half, with five usable pages, the first page mapped takes  *)
(* four of them and leaves one: mapping the second fails half way.  In the *)
(* upper half, with three, pages are unmapped, freed, remapped and         *)
(* write-faulted in every order until memory has leaked away.              *)
(***************************************************************************)
EXTENDS VirtualMemory

Table(e0, e1) == [i \in Index |-> IF i = 0 THEN e0 ELSE e1]

MCLoaderTable ==
  [p \in {1, 2, 3, 4, 6} |->
     CASE p = 1 -> Table(Absent, Mapping(2, TRUE, FALSE))
       [] p = 2 -> Table(Mapping(8, TRUE, TRUE), Mapping(3, TRUE, FALSE))
       [] p = 3 -> Table(Mapping(4, TRUE, FALSE), Mapping(6, TRUE, FALSE))
       [] p = 4 -> Table(Mapping(5, FALSE, FALSE), Absent)
       [] p = 6 -> Table(Mapping(6, TRUE, FALSE), Mapping(7, TRUE, FALSE))]

MCDirectSlot == {<<6, 0>>, <<6, 1>>}

KernelText == <<1, 1, 0, 0>>
KernelHole == <<1, 1, 0, 1>>
DirectPage == <<1, 1, 1, 1>>
HugePage   == <<1, 0, 1, 1>>

LowPages  == {<<0, 0, 0, 0>>, <<0, 0, 1, 0>>, DirectPage}
HighPages == {KernelText, KernelHole, DirectPage, HugePage}

Reserved(length) == [base |-> 0, length |-> length, usable |-> FALSE]
Usable(base, length) == [base |-> base, length |-> length, usable |-> TRUE]

FiveUsable  == {Reserved(7), Usable(7, 5)}
ThreeUsable == {Reserved(7), Usable(7, 3)}

=============================================================================

----------------------- MODULE VirtualMemory_proofs -----------------------
(***************************************************************************)
(* Proofs about VirtualMemory for every number of physical pages, every    *)
(* memory map, every table size, every set of virtual pages and every tree *)
(* of tables the loader may hand over.                                     *)
(*                                                                         *)
(* The first half is about one contents of memory: what linking a table    *)
(* and writing a leaf do to the tree and to the translation of every page. *)
(* The second half applies it to each step of the machine.                 *)
(***************************************************************************)
EXTENDS VirtualMemory, FiniteSetTheorems, TLAPS

-----------------------------------------------------------------------------
(* One memory *)

Mem == [Pmm!Page -> [Index -> Entry]]
VirtualAddress == [1 .. 4 -> Index]

\* Entry i of table p points at a table or at a 4 KiB page.
Links(mem, p, i) == Present(mem[p][i]) /\ ~mem[p][i].huge

\* The tables above the page tables.
UpperTables(mem) == {Root} \cup Pdpts(mem) \cup Pds(mem)

\* The direct map's entries are not entries of an upper table.
DirectLow(mem) ==
  \A p \in UpperTables(mem), i \in Index : <<p, i>> \notin DirectSlot

\* A link that is not the direct map's.
Counts(mem, p, i) == Links(mem, p, i) /\ <<p, i>> \notin DirectSlot

WellFormed(mem) ==
  /\ mem \in Mem
  /\ Root \in Pmm!Page
  /\ Used(mem) \subseteq Pmm!Page
  /\ IsTree(mem)
  /\ OnlyMiddleHuge(mem)
  /\ OnlyPagesReadOnly(mem)
  /\ DirectMapped(mem)

\* The walk along va has reached table `at' on the given level.
OnPath(mem, va, level, at) ==
  \/ level = 4 /\ at = Root
  \/ /\ level = 3
     /\ Present(Pml4e(mem, va)) /\ at = Pml4e(mem, va).frame
  \/ /\ level = 2
     /\ Present(Pml4e(mem, va))
     /\ Present(Pdpte(mem, va)) /\ ~Pdpte(mem, va).huge
     /\ at = Pdpte(mem, va).frame
  \/ /\ level = 1
     /\ Present(Pml4e(mem, va))
     /\ Present(Pdpte(mem, va)) /\ ~Pdpte(mem, va).huge
     /\ Present(Pde(mem, va)) /\ ~Pde(mem, va).huge
     /\ at = Pde(mem, va).frame

LEMMA InBelow ==
  ASSUME NEW mem, NEW tables, NEW x
  PROVE  x \in Below(mem, tables) <=>
           \E p \in tables, i \in Index : Links(mem, p, i) /\ x = mem[p][i].frame
<1>1. ASSUME NEW p \in tables, NEW i \in Index, Links(mem, p, i)
      PROVE  mem[p][i].frame \in Below(mem, tables)
  <2>1. <<p, i>> \in SlotsOf(mem, tables)
    BY <1>1 DEF SlotsOf, Links
  <2>2. FrameAt(mem, <<p, i>>) = mem[p][i].frame
    BY DEF FrameAt
  <2> QED  BY <2>1, <2>2 DEF Below
<1>2. ASSUME NEW s \in SlotsOf(mem, tables), x = FrameAt(mem, s)
      PROVE  \E p \in tables, i \in Index : Links(mem, p, i) /\ x = mem[p][i].frame
  <2>1. s \in tables \X Index /\ Present(mem[s[1]][s[2]]) /\ ~mem[s[1]][s[2]].huge
    BY DEF SlotsOf
  <2>2. s[1] \in tables /\ s[2] \in Index
    BY <2>1
  <2> QED  BY <1>2, <2>1, <2>2 DEF FrameAt, Links
<1> QED  BY <1>1, <1>2 DEF Below

LEMMA InUsed ==
  ASSUME NEW mem, NEW x
  PROVE  x \in Used(mem) <=>
           \E p \in Tables(mem), i \in Index : Counts(mem, p, i) /\ x = mem[p][i].frame
<1>1. ASSUME NEW p \in Tables(mem), NEW i \in Index, Counts(mem, p, i)
      PROVE  mem[p][i].frame \in Used(mem)
  <2>1. <<p, i>> \in Slots(mem)
    BY <1>1 DEF Slots, SlotsOf, Counts, Links
  <2>2. FrameAt(mem, <<p, i>>) = mem[p][i].frame
    BY DEF FrameAt
  <2> QED  BY <2>1, <2>2 DEF Used
<1>2. ASSUME NEW s \in Slots(mem), x = FrameAt(mem, s)
      PROVE  \E p \in Tables(mem), i \in Index : Counts(mem, p, i) /\ x = mem[p][i].frame
  <2>1. /\ s \in Tables(mem) \X Index /\ s \notin DirectSlot
        /\ Links(mem, s[1], s[2])
    BY DEF Slots, SlotsOf, Links
  <2>2. s[1] \in Tables(mem) /\ s[2] \in Index /\ s = <<s[1], s[2]>>
    BY <2>1
  <2> QED  BY <1>2, <2>1, <2>2 DEF FrameAt, Counts
<1> QED  BY <1>1, <1>2 DEF Used

\* A memory is a tree when two different reachable entries that are not the
\* direct map's never point at one frame, and none points at the root.
LEMMA TreeByLinks ==
  ASSUME NEW mem
  PROVE  IsTree(mem) <=>
           /\ Root \notin Used(mem)
           /\ \A p, q \in Tables(mem), i, j \in Index :
                /\ Counts(mem, p, i) /\ Counts(mem, q, j)
                /\ mem[p][i].frame = mem[q][j].frame
                => p = q /\ i = j
<1>1. ASSUME IsTree(mem),
             NEW p \in Tables(mem), NEW q \in Tables(mem),
             NEW i \in Index, NEW j \in Index,
             Counts(mem, p, i), Counts(mem, q, j),
             mem[p][i].frame = mem[q][j].frame
      PROVE  p = q /\ i = j
  <2>1. <<p, i>> \in Slots(mem) /\ <<q, j>> \in Slots(mem)
    BY <1>1 DEF Slots, SlotsOf, Counts, Links
  <2>2. FrameAt(mem, <<p, i>>) = FrameAt(mem, <<q, j>>)
    BY <1>1 DEF FrameAt
  <2>3. <<p, i>> = <<q, j>>
    BY <1>1, <2>1, <2>2 DEF IsTree
  <2> QED  BY <2>3
<1>2. ASSUME \A p, q \in Tables(mem), i, j \in Index :
               /\ Counts(mem, p, i) /\ Counts(mem, q, j)
               /\ mem[p][i].frame = mem[q][j].frame
               => p = q /\ i = j,
             NEW s \in Slots(mem), NEW t \in Slots(mem),
             FrameAt(mem, s) = FrameAt(mem, t)
      PROVE  s = t
  <2>1. /\ s \in Tables(mem) \X Index /\ t \in Tables(mem) \X Index
        /\ Links(mem, s[1], s[2]) /\ Links(mem, t[1], t[2])
        /\ s \notin DirectSlot /\ t \notin DirectSlot
    BY DEF Slots, SlotsOf, Links
  <2>2. /\ s = <<s[1], s[2]>> /\ t = <<t[1], t[2]>>
        /\ s[1] \in Tables(mem) /\ s[2] \in Index
        /\ t[1] \in Tables(mem) /\ t[2] \in Index
    BY <2>1
  <2>3. mem[s[1]][s[2]].frame = mem[t[1]][t[2]].frame
    BY <1>2 DEF FrameAt
  <2>4. s[1] = t[1] /\ s[2] = t[2]
    BY <1>2, <2>1, <2>2, <2>3 DEF Counts
  <2> QED  BY <2>2, <2>4
<1> QED  BY <1>1, <1>2 DEF IsTree

LEMMA UpperCounts ==
  ASSUME NEW mem, DirectLow(mem), NEW p \in UpperTables(mem), NEW i \in Index
  PROVE  p \in Tables(mem) /\ (Counts(mem, p, i) <=> Links(mem, p, i))
BY DEF UpperTables, Tables, DirectLow, Counts

LEMMA LevelsAreUsed ==
  ASSUME NEW mem, DirectLow(mem)
  PROVE  /\ Pdpts(mem) \subseteq Used(mem)
         /\ Pds(mem) \subseteq Used(mem)
         /\ Pts(mem) \subseteq Used(mem)
<1>1. ASSUME NEW tables, tables \subseteq UpperTables(mem), NEW x \in Below(mem, tables)
      PROVE  x \in Used(mem)
  BY <1>1, InBelow, InUsed, UpperCounts
<1>2. {Root} \subseteq UpperTables(mem) /\ Pdpts(mem) \subseteq UpperTables(mem)
      /\ Pds(mem) \subseteq UpperTables(mem)
  BY DEF UpperTables
<1> QED  BY <1>1, <1>2 DEF Pdpts, Pds, Pts

\* In a tree no table is on two levels.
LEMMA LevelsDisjoint ==
  ASSUME NEW mem, IsTree(mem), DirectLow(mem)
  PROVE  /\ Root \notin Pdpts(mem) \cup Pds(mem) \cup Pts(mem)
         /\ Pdpts(mem) \cap Pds(mem) = {}
         /\ Pdpts(mem) \cap Pts(mem) = {}
         /\ Pds(mem) \cap Pts(mem) = {}
<1>1. Root \notin Pdpts(mem) \cup Pds(mem) \cup Pts(mem)
  BY LevelsAreUsed DEF IsTree
<1>2. ASSUME NEW S, NEW T, S \subseteq UpperTables(mem), T \subseteq UpperTables(mem),
             S \cap T = {}, NEW x \in Below(mem, S) \cap Below(mem, T)
      PROVE  FALSE
  <2>1. PICK p \in S, i \in Index : Links(mem, p, i) /\ x = mem[p][i].frame
    BY InBelow
  <2>2. PICK q \in T, j \in Index : Links(mem, q, j) /\ x = mem[q][j].frame
    BY InBelow
  <2>3. /\ p \in Tables(mem) /\ Counts(mem, p, i)
        /\ q \in Tables(mem) /\ Counts(mem, q, j)
    BY <1>2, <2>1, <2>2, UpperCounts
  <2>4. p = q
    BY <2>1, <2>2, <2>3, TreeByLinks
  <2> QED  BY <1>2, <2>4
<1>3. /\ Root \in UpperTables(mem) /\ Pdpts(mem) \subseteq UpperTables(mem)
      /\ Pds(mem) \subseteq UpperTables(mem)
  BY DEF UpperTables
<1>4. Pdpts(mem) \cap Pds(mem) = {}
  BY <1>1, <1>2, <1>3 DEF Pdpts, Pds
<1>5. Pdpts(mem) \cap Pts(mem) = {}
  BY <1>1, <1>2, <1>3 DEF Pdpts, Pts
<1>6. Pds(mem) \cap Pts(mem) = {}
  BY <1>2, <1>3, <1>4 DEF Pds, Pts
<1> QED  BY <1>1, <1>4, <1>5, <1>6

\* The direct map's entries are in page tables, present and writable.
LEMMA DirectEntries ==
  ASSUME NEW mem, DirectMapped(mem)
  PROVE  /\ DirectLow(mem)
         /\ \A p, i : <<p, i>> \in DirectSlot =>
              /\ p \in Pts(mem) /\ i \in Index
              /\ Present(mem[p][i]) /\ mem[p][i].rw
<1>1. ASSUME NEW p, NEW i, <<p, i>> \in DirectSlot
      PROVE  /\ p \in Pts(mem) /\ p \notin UpperTables(mem) /\ i \in Index
             /\ Present(mem[p][i]) /\ mem[p][i].rw
  <2>1. PICK s \in DirectSlot : s = <<p, i>>
    BY <1>1
  <2>2. /\ s \in (Pts(mem) \ UpperTables(mem)) \X Index
        /\ Present(mem[s[1]][s[2]]) /\ mem[s[1]][s[2]].rw
    BY DEF DirectMapped, UpperTables
  <2>3. s[1] = p /\ s[2] = i
    BY <2>1
  <2> QED  BY <2>2, <2>3
<1> QED  BY <1>1 DEF DirectLow

\* The tables on the way of a virtual address.
LEMMA PathTables ==
  ASSUME NEW mem, WellFormed(mem), NEW va \in VirtualAddress
  PROVE  /\ Pml4e(mem, va) \in Entry /\ ~Pml4e(mem, va).huge
         /\ Present(Pml4e(mem, va)) =>
              /\ Pml4e(mem, va).frame \in Pdpts(mem)
              /\ Pml4e(mem, va).frame \in Pmm!Page
              /\ Pdpte(mem, va) \in Entry
         /\ Present(Pml4e(mem, va)) /\ Present(Pdpte(mem, va)) /\ ~Pdpte(mem, va).huge =>
              /\ Pdpte(mem, va).frame \in Pds(mem)
              /\ Pdpte(mem, va).frame \in Pmm!Page
              /\ Pde(mem, va) \in Entry
         /\ (/\ Present(Pml4e(mem, va)) /\ Present(Pdpte(mem, va)) /\ ~Pdpte(mem, va).huge
             /\ Present(Pde(mem, va)) /\ ~Pde(mem, va).huge) =>
              /\ Pde(mem, va).frame \in Pts(mem)
              /\ Pde(mem, va).frame \in Pmm!Page
              /\ Pte(mem, va) \in Entry /\ ~Pte(mem, va).huge
<1> DEFINE e4 == Pml4e(mem, va)
           e3 == Pdpte(mem, va)
           e2 == Pde(mem, va)
<1>1. \A l \in Level : IdxAt(va, l) \in Index
  BY DEF VirtualAddress, Level, IdxAt
<1>2. 1 \in Level /\ 2 \in Level /\ 3 \in Level /\ 4 \in Level
  BY DEF Level
<1>3. ASSUME NEW p \in Pmm!Page, NEW i \in Index
      PROVE  mem[p][i] \in Entry
  BY DEF WellFormed, Mem
<1>4. Used(mem) \subseteq Pmm!Page /\ Root \in Pmm!Page /\ DirectLow(mem)
  BY DirectEntries DEF WellFormed
<1>5. e4 \in Entry /\ ~e4.huge
  BY <1>1, <1>2, <1>3, <1>4 DEF WellFormed, OnlyMiddleHuge, Pml4e
<1>6. ASSUME Present(e4)
      PROVE  e4.frame \in Pdpts(mem) /\ e4.frame \in Pmm!Page /\ e3 \in Entry
  <2>1. e4.frame \in Pdpts(mem)
    BY <1>1, <1>2, <1>5, <1>6, InBelow DEF Pdpts, Links, Pml4e
  <2>2. e4.frame \in Pmm!Page
    BY <1>4, <2>1, LevelsAreUsed
  <2> QED  BY <1>1, <1>2, <1>3, <2>1, <2>2 DEF Pdpte
<1>7. ASSUME Present(e4), Present(e3), ~e3.huge
      PROVE  e3.frame \in Pds(mem) /\ e3.frame \in Pmm!Page /\ e2 \in Entry
  <2>1. e3.frame \in Pds(mem)
    BY <1>1, <1>2, <1>6, <1>7, InBelow DEF Pds, Links, Pdpte
  <2>2. e3.frame \in Pmm!Page
    BY <1>4, <2>1, LevelsAreUsed
  <2> QED  BY <1>1, <1>2, <1>3, <2>1, <2>2 DEF Pde
<1>8. ASSUME Present(e4), Present(e3), ~e3.huge, Present(e2), ~e2.huge
      PROVE  /\ e2.frame \in Pts(mem) /\ e2.frame \in Pmm!Page
             /\ Pte(mem, va) \in Entry /\ ~Pte(mem, va).huge
  <2>1. e2.frame \in Pts(mem)
    BY <1>1, <1>2, <1>7, <1>8, InBelow DEF Pts, Links, Pde
  <2>2. e2.frame \in Pmm!Page
    BY <1>4, <2>1, LevelsAreUsed
  <2>3. ~Pte(mem, va).huge
    BY <1>1, <1>2, <2>1 DEF Pte, WellFormed, OnlyMiddleHuge
  <2> QED  BY <1>1, <1>2, <1>3, <2>1, <2>2, <2>3 DEF Pte
<1> QED  BY <1>5, <1>6, <1>7, <1>8

-----------------------------------------------------------------------------
(* Linking a table *)

\* What map_page does when an entry is absent: clear a table and link it.
TableEntry(new) == Mapping(new, TRUE, FALSE)
Linked(mem, f, i, new) ==
  [mem EXCEPT ![new] = EmptyTable, ![f][i] = TableEntry(new)]

\* What map_page and unmap_page do to a leaf.
Written(mem, f, i, e) == [mem EXCEPT ![f][i] = e]

LEMMA WrittenEntries ==
  ASSUME NEW mem \in Mem, NEW f \in Pmm!Page, NEW i \in Index, NEW e \in Entry,
         NEW mem2, mem2 = Written(mem, f, i, e)
  PROVE  /\ mem2 \in Mem
         /\ mem2[f][i] = e
         /\ \A p \in Pmm!Page, j \in Index : p # f \/ j # i => mem2[p][j] = mem[p][j]
<1>1. [mem[f] EXCEPT ![i] = e] \in [Index -> Entry]
  BY DEF Mem
<1>2. mem2 = [mem EXCEPT ![f] = [mem[f] EXCEPT ![i] = e]]
  BY DEF Written
<1>3. mem2 \in Mem
  BY <1>1, <1>2 DEF Mem
<1>4. mem2[f] = [mem[f] EXCEPT ![i] = e]
  BY <1>2 DEF Mem
<1>5. \A p \in Pmm!Page : p # f => mem2[p] = mem[p]
  BY <1>2 DEF Mem
<1>6. mem[f] \in [Index -> Entry]
  BY DEF Mem
<1> QED  BY <1>3, <1>4, <1>5, <1>6

LEMMA LinkedEntries ==
  ASSUME NEW mem \in Mem, NEW f \in Pmm!Page, NEW i \in Index,
         NEW new \in Pmm!Page \ {f}, NEW mem2, mem2 = Linked(mem, f, i, new)
  PROVE  /\ mem2 \in Mem
         /\ \A j \in Index : mem2[new][j] = Absent
         /\ mem2[f][i] = TableEntry(new)
         /\ \A p \in Pmm!Page \ {new}, j \in Index :
              p # f \/ j # i => mem2[p][j] = mem[p][j]
<1> DEFINE cleared == [mem EXCEPT ![new] = EmptyTable]
<1>1. new \in Nat
  BY DEF Pmm!Page
<1>2. Absent \in Entry /\ TableEntry(new) \in Entry
  BY <1>1 DEF Absent, TableEntry, Mapping, Entry
<1>3. EmptyTable \in [Index -> Entry] /\ \A j \in Index : EmptyTable[j] = Absent
  BY <1>2 DEF EmptyTable
<1>4. /\ cleared \in Mem /\ cleared[new] = EmptyTable
      /\ \A p \in Pmm!Page \ {new} : cleared[p] = mem[p]
  BY <1>3 DEF Mem
<1>5. mem2 = Written(cleared, f, i, TableEntry(new))
  BY DEF Linked, Written
<1> HIDE DEF cleared
<1>6. /\ mem2 \in Mem
      /\ mem2[f][i] = TableEntry(new)
      /\ \A p \in Pmm!Page, j \in Index :
           p # f \/ j # i => mem2[p][j] = cleared[p][j]
  <2>1. f \in Pmm!Page /\ i \in Index /\ cleared \in Mem /\ TableEntry(new) \in Entry
    BY <1>2, <1>4
  <2> QED  BY <2>1, <1>5, WrittenEntries
<1> QED  BY <1>3, <1>4, <1>6

HasLinked(mem, f, i, new, mem2) ==
  /\ f \in Pmm!Page /\ i \in Index /\ mem[f][i] = Absent
  /\ \A j \in Index : mem2[new][j] = Absent
  /\ mem2[f][i] = TableEntry(new)
  /\ \A p \in Pmm!Page \ {new}, j \in Index :
       p # f \/ j # i => mem2[p][j] = mem[p][j]

LEMMA LinkedBelow ==
  ASSUME NEW mem, NEW f, NEW i, NEW new, NEW mem2,
         HasLinked(mem, f, i, new, mem2),
         NEW tables \in SUBSET (Pmm!Page \ {new})
  PROVE  /\ f \in tables => Below(mem2, tables) = Below(mem, tables) \cup {new}
         /\ f \notin tables => Below(mem2, tables) = Below(mem, tables)
<1>1. /\ \A j \in Index : mem2[new][j] = Absent
      /\ mem2[f][i] = TableEntry(new)
      /\ \A p \in Pmm!Page \ {new}, j \in Index :
           p # f \/ j # i => mem2[p][j] = mem[p][j]
  BY DEF HasLinked
<1> f \in Pmm!Page /\ i \in Index
  BY DEF HasLinked
<1>2. /\ Links(mem2, f, i) /\ mem2[f][i].frame = new
      /\ ~Links(mem, f, i)
      /\ \A j \in Index : ~Links(mem2, new, j)
      /\ \A p \in tables, j \in Index :
           p # f \/ j # i => mem2[p][j] = mem[p][j]
  BY <1>1 DEF HasLinked, Links, Present, Absent, TableEntry, Mapping
<1>3. \A p \in tables, j \in Index :
        p # f \/ j # i => (Links(mem2, p, j) <=> Links(mem, p, j))
  BY <1>2 DEF Links
<1>4. ASSUME NEW x
      PROVE  x \in Below(mem2, tables) <=>
               x \in Below(mem, tables) \/ (f \in tables /\ x = new)
  <2>1. ASSUME x \in Below(mem2, tables)
        PROVE  x \in Below(mem, tables) \/ (f \in tables /\ x = new)
    <3>1. PICK p \in tables, j \in Index : Links(mem2, p, j) /\ x = mem2[p][j].frame
      BY <2>1, InBelow
    <3>2. CASE p = f /\ j = i
      BY <1>2, <3>1, <3>2
    <3>3. CASE p # f \/ j # i
      <4>1. Links(mem, p, j) /\ x = mem[p][j].frame
        BY <1>2, <1>3, <3>1, <3>3
      <4> QED  BY <4>1, InBelow
    <3> QED  BY <3>2, <3>3
  <2>2. ASSUME x \in Below(mem, tables)
        PROVE  x \in Below(mem2, tables)
    <3>1. PICK p \in tables, j \in Index : Links(mem, p, j) /\ x = mem[p][j].frame
      BY <2>2, InBelow
    <3>2. p # f \/ j # i
      BY <1>2, <3>1
    <3>3. Links(mem2, p, j) /\ x = mem2[p][j].frame
      BY <1>2, <1>3, <3>1, <3>2
    <3> QED  BY <3>3, InBelow
  <2>3. f \in tables => new \in Below(mem2, tables)
    BY <1>2, InBelow
  <2> QED  BY <2>1, <2>2, <2>3
<1>5. f \in tables => Below(mem2, tables) = Below(mem, tables) \cup {new}
  <2>1. SUFFICES ASSUME f \in tables
                 PROVE  \A x : x \in Below(mem2, tables) <=> x \in Below(mem, tables) \cup {new}
    OBVIOUS
  <2> QED  BY <1>4, <2>1
<1>6. f \notin tables => Below(mem2, tables) = Below(mem, tables)
  BY <1>4
<1> QED  BY <1>5, <1>6

\* A cleared table has nothing below it.
LEMMA ClearedBelow ==
  ASSUME NEW mem, NEW f, NEW i, NEW new, NEW mem2,
         HasLinked(mem, f, i, new, mem2),
         NEW tables, NEW more, more = tables \cup {new}
  PROVE  Below(mem2, more) = Below(mem2, tables)
<1>1. \A j \in Index : ~Links(mem2, new, j)
  BY DEF HasLinked, Links, Present
<1>2. ASSUME NEW x \in Below(mem2, more)
      PROVE  x \in Below(mem2, tables)
  <2>1. PICK p \in more, j \in Index : Links(mem2, p, j) /\ x = mem2[p][j].frame
    BY InBelow
  <2>2. p \in tables
    BY <1>1, <2>1
  <2> QED  BY <2>1, <2>2, InBelow
<1>3. ASSUME NEW x \in Below(mem2, tables)
      PROVE  x \in Below(mem2, more)
  <2>1. PICK p \in tables, j \in Index : Links(mem2, p, j) /\ x = mem2[p][j].frame
    BY InBelow
  <2>2. p \in more
    BY <2>1
  <2> QED  BY <2>1, <2>2, InBelow
<1> QED  BY <1>2, <1>3

\* Linking a cleared, unused frame below an upper table keeps the tree, adds
\* that frame to it, and changes no translation.
LEMMA LinkTable ==
  ASSUME NEW mem, WellFormed(mem),
         NEW f \in {Root} \cup Pdpts(mem) \cup Pds(mem), NEW i \in Index,
         mem[f][i] = Absent,
         NEW new \in Pmm!Page \ {0}, new \notin {Root} \cup Used(mem),
         NEW mem2, mem2 = Linked(mem, f, i, new)
  PROVE  /\ WellFormed(mem2)
         /\ Used(mem2) = Used(mem) \cup {new}
         /\ \A va \in VirtualAddress : MmuWalk(mem2, va) = MmuWalk(mem, va)
<1>1. /\ mem \in Mem /\ Root \in Pmm!Page
      /\ {Root} \cup Used(mem) \subseteq Pmm!Page \ {new}
      /\ Root \notin Used(mem)
      /\ DirectMapped(mem) /\ DirectLow(mem)
  BY DirectEntries DEF WellFormed, IsTree
<1>2. /\ Pdpts(mem) \subseteq Pmm!Page \ {new}
      /\ Pds(mem) \subseteq Pmm!Page \ {new}
      /\ Pts(mem) \subseteq Pmm!Page \ {new}
      /\ Tables(mem) \subseteq Pmm!Page \ {new}
      /\ f \in Tables(mem) /\ f \in UpperTables(mem)
  BY <1>1, LevelsAreUsed DEF Tables, UpperTables
<1>3. f \in Pmm!Page /\ new \in Pmm!Page \ {0, f}
  BY <1>2
<1>4. /\ mem2 \in Mem
      /\ \A j \in Index : mem2[new][j] = Absent
      /\ mem2[f][i] = TableEntry(new)
      /\ \A p \in Pmm!Page \ {new}, j \in Index :
           p # f \/ j # i => mem2[p][j] = mem[p][j]
  BY <1>1, <1>3, LinkedEntries
<1> HasLinked(mem, f, i, new, mem2)
  BY <1>3, <1>4 DEF HasLinked
<1>5. ASSUME NEW tables \in SUBSET (Pmm!Page \ {new})
      PROVE  /\ f \in tables => Below(mem2, tables) = Below(mem, tables) \cup {new}
             /\ f \notin tables => Below(mem2, tables) = Below(mem, tables)
  BY LinkedBelow
<1>5a. ASSUME NEW tables, NEW more, more = tables \cup {new}
       PROVE  Below(mem2, more) = Below(mem2, tables)
  BY <1>5a, ClearedBelow
<1>6. /\ Root \notin Pdpts(mem) \cup Pds(mem)
      /\ Pdpts(mem) \cap Pds(mem) = {}
      /\ f \notin Pts(mem)
  BY <1>1, LevelsDisjoint DEF WellFormed
<1>7. /\ Tables(mem2) = Tables(mem) \cup {new}
      /\ Pdpts(mem2) \subseteq Pdpts(mem) \cup {new}
      /\ Pds(mem2) \subseteq Pds(mem) \cup {new}
      /\ Pts(mem2) \subseteq Pts(mem) \cup {new}
      /\ Pts(mem) \subseteq Pts(mem2)
  <2>1. CASE f = Root
    <3>1. Pdpts(mem2) = Pdpts(mem) \cup {new}
      BY <1>1, <1>5, <2>1 DEF Pdpts
    <3>2. Pds(mem2) = Pds(mem)
      BY <1>2, <1>5, <1>5a, <1>6, <2>1, <3>1 DEF Pds
    <3>3. Pts(mem2) = Pts(mem)
      BY <1>2, <1>5, <1>6, <2>1, <3>2 DEF Pts
    <3> QED  BY <3>1, <3>2, <3>3 DEF Tables
  <2>2. CASE f \in Pdpts(mem)
    <3>1. Pdpts(mem2) = Pdpts(mem)
      BY <1>1, <1>5, <1>6, <2>2 DEF Pdpts
    <3>2. Pds(mem2) = Pds(mem) \cup {new}
      BY <1>2, <1>5, <2>2, <3>1 DEF Pds
    <3>3. Pts(mem2) = Pts(mem)
      BY <1>2, <1>5, <1>5a, <1>6, <2>2, <3>2 DEF Pts
    <3> QED  BY <3>1, <3>2, <3>3 DEF Tables
  <2>3. CASE f \in Pds(mem)
    <3>1. Pdpts(mem2) = Pdpts(mem)
      BY <1>1, <1>5, <1>6, <2>3 DEF Pdpts
    <3>2. Pds(mem2) = Pds(mem)
      BY <1>2, <1>5, <1>6, <2>3, <3>1 DEF Pds
    <3>3. Pts(mem2) = Pts(mem) \cup {new}
      BY <1>2, <1>5, <2>3, <3>2 DEF Pts
    <3> QED  BY <3>1, <3>2, <3>3 DEF Tables
  <2> QED  BY <2>1, <2>2, <2>3
<1>7a. /\ TableEntry(new).frame = new
       /\ Absent # TableEntry(new) /\ ~TableEntry(new).huge /\ TableEntry(new).rw
       /\ ~Absent.huge
  BY DEF TableEntry, Mapping, Absent
<1>7b. ASSUME NEW p \in Tables(mem2), NEW j \in Index, Counts(mem2, p, j)
       PROVE  /\ p \in Tables(mem)
              /\ \/ p = f /\ j = i /\ mem2[p][j].frame = new
                 \/ /\ Counts(mem, p, j) /\ mem2[p][j] = mem[p][j]
                    /\ mem2[p][j].frame # new
  <2>1. p \in Tables(mem)
    BY <1>4, <1>7, <1>7b DEF Counts, Links, Present
  <2>2. CASE p = f /\ j = i
    BY <1>4, <1>7a, <2>1, <2>2
  <2>3. CASE p # f \/ j # i
    <3>1. mem2[p][j] = mem[p][j]
      BY <1>2, <1>4, <2>1, <2>3
    <3>2. Counts(mem, p, j)
      BY <1>7b, <3>1 DEF Counts, Links
    <3>3. mem[p][j].frame \in Used(mem)
      BY <2>1, <3>2, InUsed
    <3> QED  BY <1>1, <2>1, <3>1, <3>2, <3>3
  <2> QED  BY <2>2, <2>3
<1>8. Used(mem2) = Used(mem) \cup {new}
  <2>1. ASSUME NEW x \in Used(mem2)
        PROVE  x \in Used(mem) \cup {new}
    <3>1. PICK p \in Tables(mem2), j \in Index : Counts(mem2, p, j) /\ x = mem2[p][j].frame
      BY InUsed
    <3>2. CASE mem2[p][j].frame = new
      BY <3>1, <3>2
    <3>3. CASE mem2[p][j].frame # new
      <4>1. p \in Tables(mem) /\ Counts(mem, p, j) /\ x = mem[p][j].frame
        BY <1>7b, <3>1, <3>3
      <4> QED  BY <4>1, InUsed
    <3> QED  BY <3>2, <3>3
  <2>2. ASSUME NEW x \in Used(mem)
        PROVE  x \in Used(mem2)
    <3>1. PICK p \in Tables(mem), j \in Index : Counts(mem, p, j) /\ x = mem[p][j].frame
      BY InUsed
    <3>2. p # f \/ j # i
      BY <3>1 DEF Counts, Links, Present
    <3>3. mem2[p][j] = mem[p][j] /\ p \in Tables(mem2)
      BY <1>2, <1>4, <1>7, <3>1, <3>2
    <3>4. Counts(mem2, p, j)
      BY <3>1, <3>3 DEF Counts, Links
    <3> QED  BY <3>1, <3>3, <3>4, InUsed
  <2>3. new \in Used(mem2)
    <3>1. Links(mem2, f, i) /\ mem2[f][i].frame = new
      BY <1>4, <1>7a DEF Links, Present
    <3>2. Counts(mem2, f, i)
      BY <1>1, <1>2, <3>1 DEF Counts, DirectLow
    <3> QED  BY <1>2, <1>7, <3>1, <3>2, InUsed
  <2> QED  BY <2>1, <2>2, <2>3
<1>9. IsTree(mem2)
  <2>1. ASSUME NEW p \in Tables(mem2), NEW q \in Tables(mem2),
               NEW j \in Index, NEW k \in Index,
               Counts(mem2, p, j), Counts(mem2, q, k),
               mem2[p][j].frame = mem2[q][k].frame
        PROVE  p = q /\ j = k
    <3>1. IsTree(mem)
      BY DEF WellFormed
    <3> QED  BY <1>7b, <2>1, <3>1, TreeByLinks
  <2>2. Root \notin Used(mem2)
    BY <1>1, <1>8
  <2> QED  BY <2>1, <2>2, TreeByLinks
<1>10. OnlyMiddleHuge(mem2) /\ OnlyPagesReadOnly(mem2)
  <2>1. /\ ~TableEntry(new).huge /\ TableEntry(new).rw
        /\ ~Absent.huge
    BY DEF TableEntry, Mapping, Absent
  <2>2. ASSUME NEW p \in {Root} \cup Pts(mem2), NEW j \in Index
        PROVE  ~mem2[p][j].huge
    <3>1. CASE p = new
      BY <1>4, <2>1, <3>1
    <3>2. CASE p = f /\ j = i
      BY <1>4, <2>1, <3>2
    <3>3. CASE p # new /\ (p # f \/ j # i)
      <4>1. p \in {Root} \cup Pts(mem) /\ p \in Pmm!Page \ {new}
        BY <1>1, <1>2, <1>7, <3>3
      <4>2. mem2[p][j] = mem[p][j]
        BY <1>4, <3>3, <4>1
      <4> QED  BY <4>1, <4>2 DEF WellFormed, OnlyMiddleHuge
    <3> QED  BY <3>1, <3>2, <3>3
  <2>3. ASSUME NEW p \in {Root} \cup Pdpts(mem2) \cup Pds(mem2), NEW j \in Index,
               Present(mem2[p][j])
        PROVE  mem2[p][j].rw
    <3>1. p # new
      BY <1>4, <2>3 DEF Present
    <3>2. CASE p = f /\ j = i
      BY <1>4, <2>1, <3>2
    <3>3. CASE p # f \/ j # i
      <4>1. p \in {Root} \cup Pdpts(mem) \cup Pds(mem) /\ p \in Pmm!Page \ {new}
        BY <1>1, <1>2, <1>7, <3>1
      <4>2. mem2[p][j] = mem[p][j]
        BY <1>4, <3>3, <4>1
      <4> QED  BY <2>3, <4>1, <4>2 DEF WellFormed, OnlyPagesReadOnly
    <3> QED  BY <3>2, <3>3
  <2> QED  BY <2>2, <2>3 DEF OnlyMiddleHuge, OnlyPagesReadOnly
<1>10a. DirectMapped(mem2)
  <2>1. ASSUME NEW s \in DirectSlot
        PROVE  /\ s \in (Pts(mem2) \ UpperTables(mem2)) \X Index
               /\ Present(mem2[s[1]][s[2]]) /\ mem2[s[1]][s[2]].rw
    <3>1. /\ s \in (Pts(mem) \ UpperTables(mem)) \X Index
          /\ Present(mem[s[1]][s[2]]) /\ mem[s[1]][s[2]].rw
      BY <1>1 DEF DirectMapped, UpperTables
    <3>2. s[1] \in Pts(mem) /\ s[1] \notin UpperTables(mem) /\ s[2] \in Index
      BY <3>1
    <3>3. s[1] # f /\ s[1] # new /\ s[1] \in Pmm!Page
      BY <1>2, <3>2
    <3>4. mem2[s[1]][s[2]] = mem[s[1]][s[2]]
      BY <1>4, <3>2, <3>3
    <3>5. s[1] \in Pts(mem2) \ UpperTables(mem2)
      BY <1>7, <3>2, <3>3 DEF UpperTables
    <3> QED  BY <3>1, <3>4, <3>5
  <2> QED  BY <2>1 DEF DirectMapped, UpperTables
<1>11. WellFormed(mem2)
  BY <1>1, <1>3, <1>4, <1>8, <1>9, <1>10, <1>10a DEF WellFormed
<1>12. ASSUME NEW va \in VirtualAddress
       PROVE  MmuWalk(mem2, va) = MmuWalk(mem, va)
  <2>1. \A l \in Level : IdxAt(va, l) \in Index
    BY DEF VirtualAddress, Level, IdxAt
  <2>2. 1 \in Level /\ 2 \in Level /\ 3 \in Level /\ 4 \in Level
    BY DEF Level
  <2>3. TableEntry(new).frame = new /\ ~TableEntry(new).huge
    BY DEF TableEntry, Mapping
  <2>4. \A p \in Pmm!Page \ {new}, j \in Index :
           mem2[p][j] = mem[p][j] \/ (mem[p][j] = Absent /\ mem2[p][j] = TableEntry(new))
    BY <1>4
  <2>5. CASE ~Present(Pml4e(mem, va))
    <3>1. \/ Pml4e(mem2, va) = Absent
          \/ Pml4e(mem2, va) = TableEntry(new)
      BY <1>1, <2>1, <2>2, <2>4, <2>5 DEF Pml4e, Present
    <3>2. ~Present(Pml4e(mem2, va)) \/ ~Present(Pdpte(mem2, va))
      BY <1>4, <2>1, <2>2, <2>3, <3>1 DEF Present, Pdpte
    <3> QED  BY <2>5, <3>2 DEF MmuWalk
  <2>6. CASE Present(Pml4e(mem, va))
    <3>1. Pml4e(mem2, va) = Pml4e(mem, va)
      BY <1>1, <2>1, <2>2, <2>4, <2>6 DEF Pml4e, Present
    <3>2. Pml4e(mem, va).frame \in Pmm!Page \ {new}
      BY <1>2, <2>6, PathTables
    <3>3. CASE ~Present(Pdpte(mem, va))
      <4>1. \/ Pdpte(mem2, va) = Absent
            \/ Pdpte(mem2, va) = TableEntry(new)
        BY <2>1, <2>2, <2>4, <3>1, <3>2, <3>3 DEF Pdpte, Present
      <4>2. ~Present(Pdpte(mem2, va)) \/ (~Pdpte(mem2, va).huge /\ ~Present(Pde(mem2, va)))
        BY <1>4, <2>1, <2>2, <2>3, <4>1 DEF Present, Pde
      <4> QED  BY <3>3, <4>2 DEF MmuWalk
    <3>4. CASE Present(Pdpte(mem, va))
      <4>1. Pdpte(mem2, va) = Pdpte(mem, va)
        BY <2>1, <2>2, <2>4, <3>1, <3>2, <3>4 DEF Pdpte, Present
      <4>2. CASE Pdpte(mem, va).huge
        BY <2>6, <3>1, <3>4, <4>1, <4>2 DEF MmuWalk
      <4>3. CASE ~Pdpte(mem, va).huge
        <5>1. Pdpte(mem, va).frame \in Pmm!Page \ {new}
          BY <1>2, <2>6, <3>4, <4>3, PathTables
        <5>2. CASE ~Present(Pde(mem, va))
          <6>1. \/ Pde(mem2, va) = Absent
                \/ Pde(mem2, va) = TableEntry(new)
            BY <2>1, <2>2, <2>4, <4>1, <5>1, <5>2 DEF Pde, Present
          <6>2. ~Present(Pde(mem2, va)) \/ (~Pde(mem2, va).huge /\ ~Present(Pte(mem2, va)))
            BY <1>4, <2>1, <2>2, <2>3, <6>1 DEF Present, Pte
          <6> QED  BY <4>1, <4>3, <5>2, <6>2 DEF MmuWalk
        <5>3. CASE Present(Pde(mem, va))
          <6>1. Pde(mem2, va) = Pde(mem, va)
            BY <2>1, <2>2, <2>4, <4>1, <5>1, <5>3 DEF Pde, Present
          <6>2. CASE Pde(mem, va).huge
            BY <3>1, <4>1, <4>3, <5>3, <6>1, <6>2 DEF MmuWalk
          <6>3. CASE ~Pde(mem, va).huge
            <7>1. Pde(mem, va).frame \in Pts(mem)
              BY <2>6, <3>4, <4>3, <5>3, <6>3, PathTables
            <7>2. Pte(mem2, va) = Pte(mem, va)
              BY <1>2, <1>4, <1>6, <2>1, <2>2, <6>1, <7>1 DEF Pte
            <7> QED  BY <3>1, <4>1, <6>1, <7>2 DEF MmuWalk
          <6> QED  BY <6>2, <6>3
        <5> QED  BY <5>2, <5>3
      <4> QED  BY <4>2, <4>3
    <3> QED  BY <3>3, <3>4
  <2> QED  BY <2>5, <2>6
<1> QED  BY <1>8, <1>11, <1>12

LEMMA IndexTyped ==
  ASSUME NEW va \in VirtualAddress, NEW level \in Level
  PROVE  IdxAt(va, level) \in Index
BY DEF VirtualAddress, Level, IdxAt

\* The table a walk has reached is of the walk's level.
LEMMA OnPathLevel ==
  ASSUME NEW mem, WellFormed(mem), NEW va \in VirtualAddress,
         NEW level \in Level, NEW at, OnPath(mem, va, level, at)
  PROVE  /\ at \in Pmm!Page
         /\ level > 1 => at \in {Root} \cup Pdpts(mem) \cup Pds(mem)
         /\ level = 1 => at \in Pts(mem)
<1>1. CASE level = 4
  BY <1>1 DEF OnPath, WellFormed
<1>2. CASE level = 3
  BY <1>2, PathTables DEF OnPath
<1>3. CASE level = 2
  BY <1>3, PathTables DEF OnPath
<1>4. CASE level = 1
  BY <1>4, PathTables DEF OnPath
<1> QED  BY <1>1, <1>2, <1>3, <1>4 DEF Level

\* Following a present entry that is not huge leads one level down.
LEMMA OnPathStep ==
  ASSUME NEW mem, NEW va, NEW level \in Level, level > 1, NEW at,
         OnPath(mem, va, level, at), NEW e, e = mem[at][IdxAt(va, level)],
         Present(e), ~e.huge
  PROVE  OnPath(mem, va, level - 1, e.frame)
<1>1. CASE level = 4
  BY <1>1 DEF OnPath, Pml4e
<1>2. CASE level = 3
  BY <1>2 DEF OnPath, Pdpte
<1>3. CASE level = 2
  BY <1>3 DEF OnPath, Pde
<1> QED  BY <1>1, <1>2, <1>3 DEF Level

\* An entry the walk meets is huge only if the processor's walk says so.
LEMMA OnPathHuge ==
  ASSUME NEW mem, WellFormed(mem), NEW va \in VirtualAddress,
         NEW level \in Level, level > 1, NEW at,
         OnPath(mem, va, level, at), ~MmuWalk(mem, va).huge,
         NEW e, e = mem[at][IdxAt(va, level)], Present(e)
  PROVE  ~e.huge
<1>1. CASE level = 4
  BY <1>1, PathTables DEF OnPath, Pml4e
<1>2. CASE level = 3
  BY <1>2 DEF OnPath, Pdpte, MmuWalk, Mapping
<1>3. CASE level = 2
  BY <1>3 DEF OnPath, Pde, MmuWalk, Mapping
<1> QED  BY <1>1, <1>2, <1>3 DEF Level

\* Entries that a change leaves alone keep the path.
LEMMA OnPathKept ==
  ASSUME NEW mem, WellFormed(mem), NEW mem2, NEW va \in VirtualAddress,
         NEW level \in Level, NEW at, OnPath(mem, va, level, at),
         \A p \in {Root} \cup Pdpts(mem) \cup Pds(mem), i \in Index :
           Present(mem[p][i]) => mem2[p][i] = mem[p][i]
  PROVE  OnPath(mem2, va, level, at)
<1>1. 1 \in Level /\ 2 \in Level /\ 3 \in Level /\ 4 \in Level
  BY DEF Level
<1>2. \A l \in Level : IdxAt(va, l) \in Index
  BY IndexTyped
<1>3. Present(Pml4e(mem, va)) => Pml4e(mem2, va) = Pml4e(mem, va)
  BY <1>1, <1>2 DEF Pml4e
<1>4. Present(Pml4e(mem, va)) /\ Present(Pdpte(mem, va)) =>
        Pdpte(mem2, va) = Pdpte(mem, va)
  BY <1>1, <1>2, <1>3, PathTables DEF Pdpte
<1>5. Present(Pml4e(mem, va)) /\ Present(Pdpte(mem, va)) /\ ~Pdpte(mem, va).huge
      /\ Present(Pde(mem, va)) => Pde(mem2, va) = Pde(mem, va)
  BY <1>1, <1>2, <1>4, PathTables DEF Pde
<1> QED  BY <1>3, <1>4, <1>5 DEF OnPath

\* What the processor finds at the end of a path is the leaf itself, since
\* no table on the way is read-only.
LEMMA LeafWalk ==
  ASSUME NEW mem, WellFormed(mem), NEW va \in VirtualAddress,
         NEW at, OnPath(mem, va, 1, at)
  PROVE  MmuWalk(mem, va) = mem[at][IdxAt(va, 1)]
<1>1. 1 \in Level /\ 2 \in Level /\ 3 \in Level /\ 4 \in Level
  BY DEF Level
<1>2. \A l \in Level : IdxAt(va, l) \in Index
  BY IndexTyped
<1>3. /\ Present(Pml4e(mem, va))
      /\ Present(Pdpte(mem, va)) /\ ~Pdpte(mem, va).huge
      /\ Present(Pde(mem, va)) /\ ~Pde(mem, va).huge
      /\ at = Pde(mem, va).frame
  BY DEF OnPath
<1>4. /\ Pml4e(mem, va).frame \in Pdpts(mem)
      /\ Pdpte(mem, va).frame \in Pds(mem)
      /\ Pte(mem, va) \in Entry /\ ~Pte(mem, va).huge
  BY <1>3, PathTables
<1>5. Pml4e(mem, va).rw /\ Pdpte(mem, va).rw /\ Pde(mem, va).rw
  BY <1>1, <1>2, <1>3, <1>4 DEF WellFormed, OnlyPagesReadOnly, Pml4e, Pdpte, Pde
<1>6. Pte(mem, va) = mem[at][IdxAt(va, 1)]
  BY <1>3 DEF Pte
<1>7. PICK e \in Entry : e = Pte(mem, va)
  BY <1>4
<1>8. e = Mapping(e.frame, e.rw, FALSE)
  BY <1>4, <1>7 DEF Entry, Mapping
<1>9. CASE Present(e)
  <2> DEFINE rw == /\ Pml4e(mem, va).rw /\ Pdpte(mem, va).rw /\ Pde(mem, va).rw
                   /\ Pte(mem, va).rw
  <2>1. rw = e.rw
    <3>1. e.rw \in BOOLEAN
      BY DEF Entry
    <3> QED  BY <1>5, <1>7, <3>1
  <2>2. MmuWalk(mem, va) = Mapping(e.frame, rw, FALSE)
    BY <1>3, <1>7, <1>9, Zenon DEF MmuWalk
  <2> HIDE DEF rw
  <2> QED  BY <1>6, <1>7, <1>8, <2>1, <2>2
<1>10. CASE ~Present(e)
  BY <1>3, <1>6, <1>7, <1>10 DEF MmuWalk, Present
<1> QED  BY <1>9, <1>10

\* Entries that a change leaves alone keep the page where it was with respect
\* to the direct map, if its translation is kept or goes down to a page table.
LEMMA DirectKept ==
  ASSUME NEW mem, WellFormed(mem), NEW mem2, WellFormed(mem2),
         NEW va \in VirtualAddress,
         \A p \in {Root} \cup Pdpts(mem) \cup Pds(mem), i \in Index :
           Present(mem[p][i]) => mem2[p][i] = mem[p][i],
         HasPt(mem, va) \/ MmuWalk(mem2, va) = MmuWalk(mem, va)
  PROVE  Direct(mem2, va) <=> Direct(mem, va)
<1>1. CASE HasPt(mem, va)
  <2>1. OnPath(mem, va, 1, Pde(mem, va).frame) /\ 1 \in Level
    BY <1>1 DEF HasPt, OnPath, Level
  <2>2. OnPath(mem2, va, 1, Pde(mem, va).frame)
    BY <2>1, OnPathKept
  <2>3. HasPt(mem2, va) /\ Pde(mem2, va).frame = Pde(mem, va).frame
    BY <2>2 DEF HasPt, OnPath
  <2> QED  BY <1>1, <2>3 DEF Direct
<1>2. CASE ~HasPt(mem, va)
  <2>1. MmuWalk(mem, va) = Absent \/ MmuWalk(mem, va).huge
    BY <1>2 DEF HasPt, MmuWalk, Mapping
  <2>2. ASSUME Direct(mem2, va)
        PROVE  FALSE
    <3>1. PICK g : g = Pde(mem2, va).frame
      OBVIOUS
    <3>2. OnPath(mem2, va, 1, g) /\ <<g, IdxAt(va, 1)>> \in DirectSlot
      BY <2>2, <3>1 DEF Direct, HasPt, OnPath
    <3>3. MmuWalk(mem2, va) = mem2[g][IdxAt(va, 1)]
      BY <3>2, LeafWalk
    <3>4. /\ g \in Pts(mem2) /\ IdxAt(va, 1) \in Index
          /\ Present(mem2[g][IdxAt(va, 1)])
      BY <3>2, DirectEntries DEF WellFormed
    <3>5. ~mem2[g][IdxAt(va, 1)].huge
      BY <3>4 DEF WellFormed, OnlyMiddleHuge
    <3> QED  BY <1>2, <2>1, <3>3, <3>4, <3>5 DEF Present
  <2> QED  BY <1>2, <2>2 DEF Direct
<1> QED  BY <1>1, <1>2

\* One page-table entry translates one page.
LEMMA OnePagePerLeaf ==
  ASSUME NEW mem, WellFormed(mem),
         NEW u \in VirtualAddress, NEW v \in VirtualAddress, NEW at,
         OnPath(mem, u, 1, at), OnPath(mem, v, 1, at),
         IdxAt(u, 1) = IdxAt(v, 1)
  PROVE  u = v
<1>1. 1 \in Level /\ 2 \in Level /\ 3 \in Level /\ 4 \in Level
  BY DEF Level
<1>2. \A l \in Level : IdxAt(u, l) \in Index /\ IdxAt(v, l) \in Index
  BY IndexTyped
<1>3. ASSUME NEW w \in {u, v}
      PROVE  /\ Present(Pml4e(mem, w))
             /\ Present(Pdpte(mem, w)) /\ ~Pdpte(mem, w).huge
             /\ Present(Pde(mem, w)) /\ ~Pde(mem, w).huge
             /\ at = Pde(mem, w).frame
             /\ ~Pml4e(mem, w).huge
             /\ Pml4e(mem, w).frame \in Pdpts(mem)
             /\ Pdpte(mem, w).frame \in Pds(mem)
  BY PathTables DEF OnPath
<1>4. /\ Root \in UpperTables(mem)
      /\ Pdpts(mem) \subseteq UpperTables(mem)
      /\ Pds(mem) \subseteq UpperTables(mem)
  BY DEF UpperTables
<1>5. ASSUME NEW p \in UpperTables(mem), NEW q \in UpperTables(mem),
             NEW i \in Index, NEW j \in Index,
             Links(mem, p, i), Links(mem, q, j),
             mem[p][i].frame = mem[q][j].frame
      PROVE  p = q /\ i = j
  BY <1>5, TreeByLinks, UpperCounts, DirectEntries DEF WellFormed
<1>6. Pdpte(mem, u).frame = Pdpte(mem, v).frame /\ IdxAt(u, 2) = IdxAt(v, 2)
  <2>1. /\ Links(mem, Pdpte(mem, u).frame, IdxAt(u, 2))
        /\ Links(mem, Pdpte(mem, v).frame, IdxAt(v, 2))
        /\ Pde(mem, u).frame = Pde(mem, v).frame
    BY <1>3 DEF Links, Pde
  <2> QED  BY <1>1, <1>2, <1>3, <1>4, <1>5, <2>1 DEF Pde
<1>7. Pml4e(mem, u).frame = Pml4e(mem, v).frame /\ IdxAt(u, 3) = IdxAt(v, 3)
  <2>1. /\ Links(mem, Pml4e(mem, u).frame, IdxAt(u, 3))
        /\ Links(mem, Pml4e(mem, v).frame, IdxAt(v, 3))
    BY <1>3 DEF Links, Pdpte
  <2> QED  BY <1>1, <1>2, <1>3, <1>4, <1>5, <1>6, <2>1 DEF Pdpte
<1>8. IdxAt(u, 4) = IdxAt(v, 4)
  <2>1. Links(mem, Root, IdxAt(u, 4)) /\ Links(mem, Root, IdxAt(v, 4))
    BY <1>3 DEF Links, Pml4e
  <2> QED  BY <1>1, <1>2, <1>4, <1>5, <1>7, <2>1 DEF Pml4e
<1>9. u[1] = v[1] /\ u[2] = v[2] /\ u[3] = v[3] /\ u[4] = v[4]
  BY <1>6, <1>7, <1>8 DEF IdxAt
<1> QED  BY <1>9 DEF VirtualAddress

-----------------------------------------------------------------------------
(* Writing a leaf *)

\* Clearing the leaf of a page, or pointing it at an unused frame, keeps the
\* tree, gives the frame it pointed at back, and changes no other page's
\* translation.
LEMMA WriteLeaf ==
  ASSUME NEW mem, WellFormed(mem), NEW va \in VirtualAddress,
         NEW f, OnPath(mem, va, 1, f), NEW i, i = IdxAt(va, 1),
         <<f, i>> \notin DirectSlot,
         NEW e \in Entry, ~e.huge,
         Present(e) => e.frame \in Pmm!Page /\ e.frame \notin {Root} \cup Used(mem),
         NEW mem2, mem2 = Written(mem, f, i, e)
  PROVE  /\ WellFormed(mem2)
         /\ \A x : x \in Used(mem2) => x \in Used(mem) \/ (Present(e) /\ x = e.frame)
         /\ Present(e) => e.frame \in Used(mem2)
         /\ \A x \in Used(mem) :
              x \in Used(mem2) \/ (Present(mem[f][i]) /\ x = mem[f][i].frame)
         /\ Present(mem[f][i]) => mem[f][i].frame \notin Used(mem2)
         /\ MmuWalk(mem2, va) = e
         /\ \A v \in VirtualAddress : v # va => MmuWalk(mem2, v) = MmuWalk(mem, v)
         /\ \A v \in VirtualAddress : Direct(mem2, v) <=> Direct(mem, v)
<1>1. 1 \in Level /\ 2 \in Level /\ 3 \in Level /\ 4 \in Level
  BY DEF Level
<1>2. i \in Index
  BY <1>1, IndexTyped
<1>3. f \in Pts(mem) /\ f \in Pmm!Page
  BY <1>1, OnPathLevel
<1>4. /\ mem \in Mem /\ Root \in Pmm!Page /\ Used(mem) \subseteq Pmm!Page /\ IsTree(mem)
      /\ DirectMapped(mem) /\ DirectLow(mem)
  BY DirectEntries DEF WellFormed
<1>5. /\ mem2 \in Mem
      /\ mem2[f][i] = e
      /\ \A p \in Pmm!Page, j \in Index : p # f \/ j # i => mem2[p][j] = mem[p][j]
  BY <1>2, <1>3, <1>4, WrittenEntries
<1>6. /\ f # Root /\ f \notin Pdpts(mem) /\ f \notin Pds(mem)
  BY <1>3, <1>4, LevelsDisjoint
<1>7. /\ Pdpts(mem) \subseteq Pmm!Page /\ Pds(mem) \subseteq Pmm!Page
      /\ Pts(mem) \subseteq Pmm!Page /\ Tables(mem) \subseteq Pmm!Page
  BY <1>4, LevelsAreUsed DEF Tables
<1>8. ASSUME NEW tables \in SUBSET Pmm!Page, f \notin tables
      PROVE  Below(mem2, tables) = Below(mem, tables)
  <2>1. \A p \in tables, j \in Index : mem2[p][j] = mem[p][j]
    BY <1>5, <1>8
  <2>2. ASSUME NEW x PROVE x \in Below(mem2, tables) <=> x \in Below(mem, tables)
    BY <2>1, InBelow DEF Links
  <2> QED  BY <2>2
<1>9. Pdpts(mem2) = Pdpts(mem)
  BY <1>4, <1>6, <1>8 DEF Pdpts
<1>10. Pds(mem2) = Pds(mem)
  BY <1>6, <1>7, <1>8, <1>9 DEF Pds
<1>11. Pts(mem2) = Pts(mem)
  BY <1>6, <1>7, <1>8, <1>10 DEF Pts
<1>12. Tables(mem2) = Tables(mem) /\ f \in Tables(mem)
  BY <1>3, <1>9, <1>10, <1>11 DEF Tables
<1>13. ASSUME NEW p \in Tables(mem), NEW j \in Index, p # f \/ j # i
       PROVE  mem2[p][j] = mem[p][j] /\ (Counts(mem2, p, j) <=> Counts(mem, p, j))
  BY <1>5, <1>7, <1>13 DEF Counts, Links
<1>14. Counts(mem2, f, i) <=> Present(e)
  BY <1>5 DEF Counts, Links
<1>15. Counts(mem, f, i) <=> Present(mem[f][i])
  BY <1>2, <1>3 DEF Counts, Links, WellFormed, OnlyMiddleHuge
<1>16. ASSUME NEW x \in Used(mem2)
       PROVE  x \in Used(mem) \/ (Present(e) /\ x = e.frame)
  <2>1. PICK p \in Tables(mem), j \in Index : Counts(mem2, p, j) /\ x = mem2[p][j].frame
    BY <1>12, InUsed
  <2>2. CASE p = f /\ j = i
    BY <1>5, <1>14, <2>1, <2>2
  <2>3. CASE p # f \/ j # i
    <3>1. Counts(mem, p, j) /\ x = mem[p][j].frame
      BY <1>13, <2>1, <2>3
    <3> QED  BY <3>1, InUsed
  <2> QED  BY <2>2, <2>3
<1>17. Present(e) => e.frame \in Used(mem2)
  BY <1>2, <1>5, <1>12, <1>14, InUsed
<1>18. ASSUME NEW x \in Used(mem)
       PROVE  x \in Used(mem2) \/ (Present(mem[f][i]) /\ x = mem[f][i].frame)
  <2>1. PICK p \in Tables(mem), j \in Index : Counts(mem, p, j) /\ x = mem[p][j].frame
    BY InUsed
  <2>2. CASE p = f /\ j = i
    BY <1>15, <2>1, <2>2
  <2>3. CASE p # f \/ j # i
    <3>1. Counts(mem2, p, j) /\ x = mem2[p][j].frame
      BY <1>13, <2>1, <2>3
    <3> QED  BY <1>12, <3>1, InUsed
  <2> QED  BY <2>2, <2>3
<1>19. ASSUME NEW p \in Tables(mem), NEW q \in Tables(mem),
              NEW j \in Index, NEW k \in Index,
              Counts(mem, p, j), Counts(mem, q, k),
              mem[p][j].frame = mem[q][k].frame
       PROVE  p = q /\ j = k
  BY <1>4, <1>19, TreeByLinks
<1>20. ASSUME Present(mem[f][i]), mem[f][i].frame \in Used(mem2)
       PROVE  FALSE
  <2>1. PICK p \in Tables(mem), j \in Index :
          Counts(mem2, p, j) /\ mem[f][i].frame = mem2[p][j].frame
    BY <1>12, <1>20, InUsed
  <2>2. CASE p = f /\ j = i
    <3>1. Present(e) /\ mem[f][i].frame = e.frame
      BY <1>5, <1>14, <2>1, <2>2
    <3>2. mem[f][i].frame \in Used(mem)
      BY <1>2, <1>12, <1>15, <1>20, InUsed
    <3> QED  BY <3>1, <3>2
  <2>3. CASE p # f \/ j # i
    <3>1. Counts(mem, p, j) /\ mem[f][i].frame = mem[p][j].frame
      BY <1>13, <2>1, <2>3
    <3> QED  BY <1>2, <1>12, <1>15, <1>19, <1>20, <2>3, <3>1
  <2> QED  BY <2>2, <2>3
<1>21. IsTree(mem2)
  <2>1. Root \notin Used(mem2)
    BY <1>4, <1>16 DEF IsTree
  <2>2. ASSUME NEW p \in Tables(mem2), NEW j \in Index, Counts(mem2, p, j)
        PROVE  /\ p \in Tables(mem)
               /\ \/ p = f /\ j = i /\ mem2[p][j].frame = e.frame /\ Present(e)
                  \/ /\ Counts(mem, p, j) /\ mem2[p][j] = mem[p][j]
                     /\ mem2[p][j].frame \in Used(mem)
    <3>1. CASE p = f /\ j = i
      BY <1>5, <1>12, <1>14, <2>2, <3>1
    <3>2. CASE p # f \/ j # i
      <4>1. Counts(mem, p, j) /\ mem2[p][j] = mem[p][j]
        BY <1>12, <1>13, <2>2, <3>2
      <4> QED  BY <1>12, <4>1, InUsed
    <3> QED  BY <3>1, <3>2
  <2>3. ASSUME NEW p \in Tables(mem2), NEW q \in Tables(mem2),
               NEW j \in Index, NEW k \in Index,
               Counts(mem2, p, j), Counts(mem2, q, k),
               mem2[p][j].frame = mem2[q][k].frame
        PROVE  p = q /\ j = k
    BY <1>19, <2>2, <2>3
  <2> QED  BY <2>1, <2>3, TreeByLinks
<1>22. OnlyMiddleHuge(mem2)
  <2>1. ASSUME NEW p \in {Root} \cup Pts(mem), NEW j \in Index
        PROVE  ~mem2[p][j].huge
    <3>1. CASE p = f /\ j = i
      BY <1>5, <3>1
    <3>2. CASE p # f \/ j # i
      <4>1. mem2[p][j] = mem[p][j]
        BY <1>4, <1>5, <1>7, <3>2
      <4> QED  BY <4>1 DEF WellFormed, OnlyMiddleHuge
    <3> QED  BY <3>1, <3>2
  <2> QED  BY <1>11, <2>1 DEF OnlyMiddleHuge
<1>23. ASSUME NEW p \in {Root} \cup Pdpts(mem) \cup Pds(mem), NEW j \in Index
       PROVE  mem2[p][j] = mem[p][j]
  BY <1>4, <1>5, <1>6, <1>7
<1>24. OnlyPagesReadOnly(mem2)
  BY <1>9, <1>10, <1>23 DEF WellFormed, OnlyPagesReadOnly
<1>24a. DirectMapped(mem2)
  <2>1. ASSUME NEW s \in DirectSlot
        PROVE  mem2[s[1]][s[2]] = mem[s[1]][s[2]]
    <3>1. s \in Pts(mem) \X Index
      BY <1>4 DEF DirectMapped
    <3>2. s = <<s[1], s[2]>> /\ s[1] \in Pts(mem) /\ s[2] \in Index
      BY <3>1
    <3>3. s[1] # f \/ s[2] # i
      BY <3>2
    <3> QED  BY <1>5, <1>7, <3>2, <3>3
  <2> QED  BY <1>4, <1>9, <1>10, <1>11, <2>1 DEF DirectMapped
<1>25. WellFormed(mem2)
  BY <1>4, <1>5, <1>16, <1>21, <1>22, <1>24, <1>24a DEF WellFormed
<1>26. MmuWalk(mem2, va) = e
  <2>1. OnPath(mem2, va, 1, f)
    BY <1>1, <1>23, OnPathKept
  <2>2. MmuWalk(mem2, va) = mem2[f][i]
    BY <1>25, <2>1, LeafWalk
  <2> QED  BY <1>5, <2>2
<1>27. ASSUME NEW v \in VirtualAddress, v # va
       PROVE  MmuWalk(mem2, v) = MmuWalk(mem, v)
  <2>1. \A l \in Level : IdxAt(v, l) \in Index
    BY IndexTyped
  <2>2. Pml4e(mem2, v) = Pml4e(mem, v)
    BY <1>1, <1>23, <2>1 DEF Pml4e
  <2>3. Present(Pml4e(mem, v)) => Pdpte(mem2, v) = Pdpte(mem, v)
    BY <1>1, <1>23, <2>1, <2>2, PathTables DEF Pdpte
  <2>4. Present(Pml4e(mem, v)) /\ Present(Pdpte(mem, v)) /\ ~Pdpte(mem, v).huge
          => Pde(mem2, v) = Pde(mem, v)
    BY <1>1, <1>23, <2>1, <2>3, PathTables DEF Pde
  <2>5. CASE \E g : OnPath(mem, v, 1, g)
    <3>1. PICK g : OnPath(mem, v, 1, g)
      BY <2>5
    <3>2. OnPath(mem2, v, 1, g)
      BY <1>1, <1>23, <3>1, OnPathKept
    <3>3. g \in Pmm!Page
      BY <1>1, <3>1, OnPathLevel
    <3>4. g # f \/ IdxAt(v, 1) # i
      BY <1>27, <3>1, OnePagePerLeaf
    <3>5. mem2[g][IdxAt(v, 1)] = mem[g][IdxAt(v, 1)]
      BY <1>1, <1>5, <2>1, <3>3, <3>4
    <3> QED  BY <1>25, <3>1, <3>2, <3>5, LeafWalk
  <2>6. CASE ~\E g : OnPath(mem, v, 1, g)
    <3>1. ~(/\ Present(Pml4e(mem, v))
            /\ Present(Pdpte(mem, v)) /\ ~Pdpte(mem, v).huge
            /\ Present(Pde(mem, v)) /\ ~Pde(mem, v).huge)
      BY <2>6 DEF OnPath
    <3> QED  BY <2>2, <2>3, <2>4, <3>1 DEF MmuWalk
  <2> QED  BY <2>5, <2>6
<1>28. ASSUME NEW v \in VirtualAddress
       PROVE  Direct(mem2, v) <=> Direct(mem, v)
  <2>1. HasPt(mem, va)
    BY DEF OnPath, HasPt
  <2>2. HasPt(mem, v) \/ MmuWalk(mem2, v) = MmuWalk(mem, v)
    BY <1>27, <2>1
  <2> QED  BY <1>23, <1>25, <2>2, DirectKept
<1> QED  BY <1>16, <1>17, <1>18, <1>20, <1>25, <1>26, <1>27, <1>28

LEMMA EmptyLeaf == Absent \in Entry /\ ~Absent.huge /\ ~Present(Absent)
BY DEF Absent, Entry, Present

LEMMA WalkTyped ==
  ASSUME NEW mem, WellFormed(mem), NEW va \in VirtualAddress
  PROVE  MmuWalk(mem, va) \in Entry
<1>1. ASSUME NEW frame \in Nat, NEW rw \in BOOLEAN, NEW huge \in BOOLEAN
      PROVE  Mapping(frame, rw, huge) \in Entry
  BY DEF Mapping, Entry
<1>2. \A e \in Entry : e.frame \in Nat /\ e.rw \in BOOLEAN
  BY DEF Entry
<1>3. N \in Nat /\ \A l \in Level : IdxAt(va, l) \in Nat
  BY IndexTyped, SizesAssumption DEF Index
<1>4. ASSUME NEW a \in Nat, NEW b \in Nat, NEW c \in Nat
      PROVE  a + b * N + c \in Nat /\ a + c \in Nat
  <2>1. b * N \in Nat
    BY <1>3
  <2> QED  BY <2>1
<1>5. ASSUME NEW e \in Entry
      PROVE  InHugePdpt(e, va) \in Nat /\ InHugePd(e, va) \in Nat
  <2>1. e.frame \in Nat /\ IdxAt(va, 2) \in Nat /\ IdxAt(va, 1) \in Nat
    BY <1>2, <1>3 DEF Level
  <2> QED  BY <1>4, <2>1 DEF InHugePdpt, InHugePd
<1>6. Pml4e(mem, va) \in Entry
  BY PathTables
<1>7. CASE ~Present(Pml4e(mem, va)) \/ ~Present(Pdpte(mem, va))
  BY <1>7, EmptyLeaf DEF MmuWalk
<1>8. CASE Present(Pml4e(mem, va)) /\ Present(Pdpte(mem, va)) /\ Pdpte(mem, va).huge
  <2>1. Pdpte(mem, va) \in Entry
    BY <1>8, PathTables
  <2>2. MmuWalk(mem, va) = Mapping(InHugePdpt(Pdpte(mem, va), va),
                                   Pml4e(mem, va).rw /\ Pdpte(mem, va).rw, TRUE)
    BY <1>8, Zenon DEF MmuWalk
  <2>3. (Pml4e(mem, va).rw /\ Pdpte(mem, va).rw) \in BOOLEAN
    OBVIOUS
  <2> QED  BY <1>1, <1>5, <2>1, <2>2, <2>3, Zenon
<1>9. CASE Present(Pml4e(mem, va)) /\ Present(Pdpte(mem, va)) /\ ~Pdpte(mem, va).huge
  <2>1. CASE ~Present(Pde(mem, va))
    BY <1>9, <2>1, EmptyLeaf DEF MmuWalk
  <2>2. CASE Present(Pde(mem, va)) /\ Pde(mem, va).huge
    <3> DEFINE rw == Pml4e(mem, va).rw /\ Pdpte(mem, va).rw /\ Pde(mem, va).rw
    <3>1. Pde(mem, va) \in Entry
      BY <1>9, PathTables
    <3>2. MmuWalk(mem, va) = Mapping(InHugePd(Pde(mem, va), va), rw, TRUE)
      BY <1>9, <2>2, Zenon DEF MmuWalk
    <3>3. rw \in BOOLEAN
      OBVIOUS
    <3> QED  BY <1>1, <1>5, <3>1, <3>2, <3>3, Zenon
  <2>3. CASE Present(Pde(mem, va)) /\ ~Pde(mem, va).huge
    <3>1. OnPath(mem, va, 1, Pde(mem, va).frame)
      BY <1>9, <2>3 DEF OnPath
    <3>2. MmuWalk(mem, va) = Pte(mem, va)
      BY <3>1, LeafWalk DEF Pte
    <3> QED  BY <1>9, <2>3, <3>2, PathTables
  <2> QED  BY <2>1, <2>2, <2>3
<1> QED  BY <1>7, <1>8, <1>9

-----------------------------------------------------------------------------
(* The allocator's steps *)

\* Between pmm_init and the end, the bitmap marks what is reserved or handed
\* out; before it, nothing was handed out, and a processor that has not
\* halted has not called allocate_page yet.
AllocInv ==
  IF ready
    THEN /\ allocated \subseteq Pmm!UsablePage
         /\ page_bitmap = (Pmm!Page \ Pmm!UsablePage) \cup allocated
    ELSE /\ allocated = {}
         /\ cpu # "walk"
         /\ cpu # "halted" => page_bitmap = {} /\ next_free_page = 0

LEMMA UsableFacts ==
  /\ Pmm!UsablePage \subseteq Pmm!Page \ {0, Root}
  /\ 0 \in Pmm!Page
<1>1. 0 \in Pmm!Page
  BY SizesAssumption DEF Pmm!Page
<1>2. Root \notin Pmm!UsablePage /\ 0 \notin Pmm!UsablePage
  BY LoaderAssumption, MemmapAssumption
<1>3. Pmm!UsablePage \subseteq Pmm!Page
  BY DEF Pmm!UsablePage
<1> QED  BY <1>1, <1>2, <1>3

LEMMA AllocateTyped ==
  ASSUME Pmm!PmmTypeOK, Pmm!AllocatePage, UNCHANGED ready
  PROVE  Pmm!PmmTypeOK'
<1>1. CASE Pmm!AllocateFound
  <2>1. PICK i \in Pmm!Page :
          /\ page_bitmap' = page_bitmap \cup {i}
          /\ used_pages' = Pmm!Inc(used_pages)
          /\ next_free_page' = i + 1
          /\ ret' = i
          /\ allocated' = allocated \cup ({i} \ {0})
          /\ UNCHANGED total_pages
    BY <1>1 DEF Pmm!AllocateFound
  <2>2. i + 1 \in 0 .. NumPages
    BY SizesAssumption DEF Pmm!Page
  <2>3. Pmm!Inc(used_pages) \in 0 .. WordSize - 1
    BY SizesAssumption DEF Pmm!Inc, Pmm!PmmTypeOK
  <2> QED  BY <2>1, <2>2, <2>3 DEF Pmm!PmmTypeOK
<1>2. CASE Pmm!AllocateFailed
  BY <1>2, UsableFacts DEF Pmm!AllocateFailed, Pmm!pmmVars, Pmm!PmmTypeOK
<1> QED  BY <1>1, <1>2 DEF Pmm!AllocatePage

\* Once the allocator is ready, allocate_page returns 0 and changes nothing a
\* caller can see, or returns usable memory nobody had.
LEMMA AllocateReady ==
  ASSUME Pmm!PmmTypeOK, AllocInv, ready, Pmm!AllocatePage
  PROVE  /\ page_bitmap' = (Pmm!Page \ Pmm!UsablePage) \cup allocated'
         /\ \/ ret' = NoFrame /\ allocated' = allocated
            \/ /\ ret' \in Pmm!UsablePage \ allocated
               /\ ret' # NoFrame
               /\ allocated' = allocated \cup {ret'}
<1>1. CASE Pmm!AllocateFound
  <2>1. PICK i \in Pmm!Page :
          /\ i \notin page_bitmap
          /\ page_bitmap' = page_bitmap \cup {i}
          /\ ret' = i
          /\ allocated' = allocated \cup ({i} \ {0})
    BY <1>1 DEF Pmm!AllocateFound, Pmm!IsNextFree
  <2>2. i \in Pmm!UsablePage \ allocated /\ i # 0
    BY <2>1, UsableFacts DEF AllocInv
  <2>3. allocated' = allocated \cup {i}
    BY <2>1, <2>2
  <2> QED  BY <2>1, <2>2, <2>3 DEF AllocInv, NoFrame
<1>2. CASE Pmm!AllocateFailed
  BY <1>2 DEF Pmm!AllocateFailed, Pmm!pmmVars, AllocInv, NoFrame
<1> QED  BY <1>1, <1>2 DEF Pmm!AllocatePage

\* Before pmm_init, allocate_page returns page 0: every bit is clear.
LEMMA AllocateEarly ==
  ASSUME Pmm!PmmTypeOK, AllocInv, ~ready, cpu # "halted", Pmm!AllocatePage
  PROVE  ret' = NoFrame /\ allocated' = {}
<1>1. page_bitmap = {} /\ next_free_page = 0 /\ allocated = {}
  BY DEF AllocInv
<1>2. CASE Pmm!AllocateFound
  <2>1. PICK i \in Pmm!Page :
          /\ \A j \in 0 .. i - 1 : j \in page_bitmap
          /\ ret' = i
          /\ allocated' = allocated \cup ({i} \ {0})
    BY <1>1, <1>2 DEF Pmm!AllocateFound, Pmm!IsNextFree
  <2>2. i = 0
    <3>1. i \in Nat
      BY DEF Pmm!Page
    <3>2. i # 0 => 0 \in 0 .. i - 1
      BY <3>1
    <3> QED  BY <1>1, <2>1, <3>2
  <2> QED  BY <1>1, <2>1, <2>2 DEF NoFrame
<1>3. CASE Pmm!AllocateFailed
  BY <1>1, <1>3 DEF Pmm!AllocateFailed, NoFrame
<1> QED  BY <1>2, <1>3 DEF Pmm!AllocatePage

LEMMA CountedFinite == Pmm!Cardinality(Pmm!CountedPages) \in Nat
<1>1. IsFiniteSet(Pmm!Page)
  <2>1. 0 \in Int /\ NumPages - 1 \in Int
    BY SizesAssumption
  <2> QED  BY <2>1, FS_Interval DEF Pmm!Page
<1>2. IsFiniteSet(Memmap \X Pmm!Page)
  BY <1>1, MemmapAssumption, FS_Product
<1>3. Pmm!CountedPages \in SUBSET (Memmap \X Pmm!Page)
  BY DEF Pmm!CountedPages
<1>4. Cardinality(Pmm!CountedPages) \in Nat
  BY <1>2, <1>3, FS_Subset, FS_CardinalityType
<1>5. Pmm!Cardinality(Pmm!CountedPages) = Cardinality(Pmm!CountedPages)
  BY DEF Pmm!Cardinality, Cardinality
<1> QED  BY <1>4, <1>5

-----------------------------------------------------------------------------
(* The inductive invariant *)

WalkType == [va : VPage, frame : Pmm!Page, rw : BOOLEAN, level : Level, at : Pmm!Page]
AccessType == [va : VPage, write : BOOLEAN]

TypeInv ==
  /\ Pmm!PmmTypeOK
  /\ kpc \in {"setup", "pmm", "run"}
  /\ pml4 \in {NoFrame, Root}
  /\ cpu \in {"idle", "fault", "walk", "halted"}
  /\ access = Nothing \/ access \in AccessType
  /\ cpu = "walk" => walk \in WalkType
  /\ held \in SUBSET Pmm!Page
  /\ tlb \in [VPage -> Entry]

\* A frame below the root, other than through the direct map, is the loader's
\* or was handed out and is nobody's any more; the frame map_page is about to write is not below the root yet.
UseInv ==
  /\ Used(table) \subseteq (Pmm!Page \ Pmm!UsablePage) \cup (allocated \ held)
  /\ held \subseteq allocated
  /\ cpu = "walk" => walk.frame \in allocated \ Used(table)

\* map_page has followed walk.va's own path, which no huge page cuts short
\* and which does not end in the direct map; after a fault it maps the page that faulted, writable.
WalkInv ==
  cpu = "walk" =>
    /\ pml4 = Root
    /\ ~MmuWalk(table, walk.va).huge /\ ~Direct(table, walk.va)
    /\ OnPath(table, walk.va, walk.level, walk.at)
    /\ access # Nothing => walk.va = access.va /\ walk.rw

FaultInv ==
  cpu = "fault" => /\ access \in AccessType
                   /\ ~MmuWalk(table, access.va).huge
                   /\ ~Direct(table, access.va)

TlbInv == \A va \in VPage : Present(tlb[va]) => tlb[va] = MmuWalk(table, va)

\* The loader's map of physical memory is where it was.
FixedInv == \A va \in VPage :
  /\ va \in LoaderHuge <=> MmuWalk(table, va).huge
  /\ va \in LoaderDirect <=> Direct(table, va)

IInv ==
  /\ TypeInv
  /\ AllocInv
  /\ WellFormed(table)
  /\ UseInv
  /\ WalkInv
  /\ FaultInv
  /\ TlbInv
  /\ FixedInv

LEMMA VPageAddress == VPage \subseteq VirtualAddress
BY SizesAssumption DEF VirtualAddress

\* Where the loader's tables are is also where its translations come from.
LEMMA LoaderWalk ==
  ASSUME NEW va \in VirtualAddress
  PROVE  /\ MmuWalk(LoaderTable, va) = MmuWalk(LoaderMemory, va)
         /\ Direct(LoaderTable, va) <=> Direct(LoaderMemory, va)
<1>1. 1 \in Level /\ 2 \in Level /\ 3 \in Level /\ 4 \in Level
  BY DEF Level
<1>2. \A l \in Level : IdxAt(va, l) \in Index
  BY IndexTyped
<1>3. ASSUME NEW p \in Tables(LoaderMemory)
      PROVE  LoaderTable[p] = LoaderMemory[p]
  BY LoaderAssumption DEF LoaderMemory
<1>4. /\ Root \in Tables(LoaderMemory)
      /\ Pdpts(LoaderMemory) \subseteq Tables(LoaderMemory)
      /\ Pds(LoaderMemory) \subseteq Tables(LoaderMemory)
      /\ Pts(LoaderMemory) \subseteq Tables(LoaderMemory)
  BY DEF Tables
<1>5. Pml4e(LoaderTable, va) = Pml4e(LoaderMemory, va)
      /\ ~Pml4e(LoaderMemory, va).huge
  BY <1>1, <1>2, <1>3, <1>4, LoaderAssumption DEF Pml4e, OnlyMiddleHuge
<1>6. ASSUME Present(Pml4e(LoaderMemory, va))
      PROVE  Pdpte(LoaderTable, va) = Pdpte(LoaderMemory, va)
  <2>1. Pml4e(LoaderMemory, va).frame \in Pdpts(LoaderMemory)
    BY <1>1, <1>2, <1>5, <1>6, InBelow DEF Pdpts, Links, Pml4e
  <2> QED  BY <1>3, <1>4, <1>5, <2>1 DEF Pdpte
<1>7. ASSUME Present(Pml4e(LoaderMemory, va)),
             Present(Pdpte(LoaderMemory, va)), ~Pdpte(LoaderMemory, va).huge
      PROVE  Pde(LoaderTable, va) = Pde(LoaderMemory, va)
  <2>1. Pml4e(LoaderMemory, va).frame \in Pdpts(LoaderMemory)
    BY <1>1, <1>2, <1>5, <1>7, InBelow DEF Pdpts, Links, Pml4e
  <2>2. Pdpte(LoaderMemory, va).frame \in Pds(LoaderMemory)
    BY <1>1, <1>2, <1>7, <2>1, InBelow DEF Pds, Links, Pdpte
  <2> QED  BY <1>3, <1>4, <1>6, <1>7, <2>2 DEF Pde
<1>8. ASSUME Present(Pml4e(LoaderMemory, va)),
             Present(Pdpte(LoaderMemory, va)), ~Pdpte(LoaderMemory, va).huge,
             Present(Pde(LoaderMemory, va)), ~Pde(LoaderMemory, va).huge
      PROVE  Pte(LoaderTable, va) = Pte(LoaderMemory, va)
  <2>1. Pml4e(LoaderMemory, va).frame \in Pdpts(LoaderMemory)
    BY <1>1, <1>2, <1>5, <1>8, InBelow DEF Pdpts, Links, Pml4e
  <2>2. Pdpte(LoaderMemory, va).frame \in Pds(LoaderMemory)
    BY <1>1, <1>2, <1>8, <2>1, InBelow DEF Pds, Links, Pdpte
  <2>3. Pde(LoaderMemory, va).frame \in Pts(LoaderMemory)
    BY <1>1, <1>2, <1>8, <2>2, InBelow DEF Pts, Links, Pde
  <2> QED  BY <1>3, <1>4, <1>7, <1>8, <2>3 DEF Pte
<1>9. MmuWalk(LoaderTable, va) = MmuWalk(LoaderMemory, va)
  BY <1>5, <1>6, <1>7, <1>8 DEF MmuWalk
<1>10. Direct(LoaderTable, va) <=> Direct(LoaderMemory, va)
  BY <1>5, <1>6, <1>7 DEF Direct, HasPt
<1> QED  BY <1>9, <1>10

LEMMA LoaderWellFormed == WellFormed(LoaderMemory)
<1>1. Root \in Nat
  BY LoaderAssumption DEF Pmm!Page
<1>2. JunkTable \in [Index -> Entry]
  BY <1>1 DEF JunkTable, Entry
<1>3. LoaderMemory \in Mem
  BY <1>2, LoaderAssumption DEF LoaderMemory, Mem
<1> QED  BY <1>3, LoaderAssumption DEF WellFormed

LEMMA InitIInv == Init => IInv
<1> SUFFICES ASSUME Init PROVE IInv
  OBVIOUS
<1>1. /\ table = LoaderMemory /\ cpu = "idle" /\ access = Nothing /\ held = {}
      /\ tlb = [va \in VPage |-> Absent] /\ pml4 = NoFrame /\ kpc = "setup"
      /\ Pmm!PmmStart
  BY DEF Init
<1>2. Pmm!PmmTypeOK /\ AllocInv
  <2>1. 0 \in 0 .. WordSize - 1 /\ 0 \in 0 .. NumPages /\ 0 \in Pmm!Page /\ 0 \in Nat
    BY UsableFacts, SizesAssumption
  <2>2. Pmm!PmmTypeOK
    BY <1>1, <2>1 DEF Pmm!PmmStart, Pmm!PmmTypeOK
  <2>3. AllocInv
    BY <1>1 DEF Pmm!PmmStart, AllocInv
  <2> QED  BY <2>2, <2>3
<1>3. TypeInv
  BY <1>1, <1>2, EmptyLeaf DEF TypeInv
<1>4. WellFormed(table)
  BY <1>1, LoaderWellFormed
<1>5. UseInv
  BY <1>1, LoaderAssumption DEF UseInv
<1>6. TlbInv
  BY <1>1, EmptyLeaf DEF TlbInv
<1>7. FixedInv
  BY <1>1, LoaderWalk, VPageAddress DEF FixedInv, LoaderHuge, LoaderDirect
<1>8. WalkInv /\ FaultInv
  BY <1>1 DEF WalkInv, FaultInv
<1> QED  BY <1>2, <1>3, <1>4, <1>5, <1>6, <1>7, <1>8 DEF IInv

-----------------------------------------------------------------------------
(* The steps preserve it *)

LEMMA SetupPagingIInv ==
  ASSUME IInv, SetupPaging
  PROVE  IInv'
<1>1. /\ cpu = "idle" /\ kpc' = "pmm" /\ pml4' \in {Root, NoFrame}
      /\ UNCHANGED <<ready, page_bitmap, total_pages, used_pages, next_free_page,
                     ret, allocated, table, cpu, access, walk, held, tlb>>
  BY DEF SetupPaging, Idle, pmmState
<1>2. Pmm!PmmTypeOK'
  BY <1>1 DEF IInv, TypeInv, Pmm!PmmTypeOK
<1>3. TypeInv'
  BY <1>1, <1>2 DEF IInv, TypeInv
<1>4. AllocInv'
  BY <1>1 DEF IInv, AllocInv
<1>5. WellFormed(table)' /\ UseInv'
  BY <1>1 DEF IInv, UseInv
<1>6. WalkInv' /\ FaultInv'
  BY <1>1 DEF WalkInv, FaultInv
<1>7. TlbInv' /\ FixedInv'
  BY <1>1 DEF IInv, TlbInv, FixedInv
<1> QED  BY <1>3, <1>4, <1>5, <1>6, <1>7 DEF IInv

LEMMA InitPmmIInv ==
  ASSUME IInv, InitPmm
  PROVE  IInv'
<1>1. /\ cpu = "idle" /\ kpc' = "run"
      /\ UNCHANGED <<pml4, table, cpu, access, walk, held, tlb>>
      /\ Pmm!PmmInit \/ UNCHANGED pmmState
  BY DEF InitPmm, Idle
<1>2. Pmm!PmmTypeOK' /\ AllocInv' /\ allocated' = allocated
  <2>1. CASE Pmm!PmmInit
    <3>1. /\ ~ready /\ ready' = TRUE
          /\ page_bitmap' = Pmm!Page \ Pmm!UsablePage
          /\ total_pages' = total_pages + Pmm!Cardinality(Pmm!CountedPages)
          /\ UNCHANGED <<used_pages, next_free_page, ret, allocated>>
      BY <2>1 DEF Pmm!PmmInit
    <3>2. allocated = {}
      BY <3>1 DEF IInv, AllocInv
    <3>3. Pmm!PmmTypeOK'
      BY <3>1, CountedFinite DEF IInv, TypeInv, Pmm!PmmTypeOK
    <3> QED  BY <3>1, <3>2, <3>3 DEF AllocInv
  <2>2. CASE UNCHANGED pmmState
    <3>1. UNCHANGED <<ready, page_bitmap, total_pages, used_pages, next_free_page,
                      ret, allocated>>
      BY <2>2 DEF pmmState
    <3>2. Pmm!PmmTypeOK'
      BY <3>1 DEF IInv, TypeInv, Pmm!PmmTypeOK
    <3> QED  BY <1>1, <3>1, <3>2 DEF IInv, AllocInv
  <2> QED  BY <1>1, <2>1, <2>2
<1>3. TypeInv'
  BY <1>1, <1>2 DEF IInv, TypeInv
<1>4. WellFormed(table)' /\ UseInv'
  BY <1>1, <1>2 DEF IInv, UseInv
<1>5. WalkInv' /\ FaultInv'
  BY <1>1 DEF WalkInv, FaultInv
<1>6. TlbInv' /\ FixedInv'
  BY <1>1 DEF IInv, TlbInv, FixedInv
<1> QED  BY <1>2, <1>3, <1>4, <1>5, <1>6 DEF IInv

\* What the processor uses, cached or not, is what its walk finds.
LEMMA TranslationIsWalk ==
  ASSUME IInv, NEW va \in VPage
  PROVE  Translation(va) = MmuWalk(table, va)
BY DEF IInv, TlbInv, Translation

\* A page inside a huge one is writable, so touching it never faults.
LEMMA HugeNeverFaults ==
  ASSUME NEW mem, WellFormed(mem), NEW va \in VirtualAddress, NEW write \in BOOLEAN,
         MmuWalk(mem, va).huge
  PROVE  Allows(MmuWalk(mem, va), write)
<1>1. 1 \in Level /\ 2 \in Level /\ 3 \in Level /\ 4 \in Level
  BY DEF Level
<1>2. \A l \in Level : IdxAt(va, l) \in Index
  BY IndexTyped
<1>3. \A p \in {Root} \cup Pdpts(mem) \cup Pds(mem), i \in Index :
        Present(mem[p][i]) => mem[p][i].rw
  BY DEF WellFormed, OnlyPagesReadOnly
<1>4. MmuWalk(mem, va) # Absent
  BY EmptyLeaf
<1>5. Present(Pml4e(mem, va)) /\ Present(Pdpte(mem, va))
  BY <1>4 DEF MmuWalk
<1>6. Pml4e(mem, va).rw /\ Pdpte(mem, va).rw
  BY <1>1, <1>2, <1>3, <1>5, PathTables DEF Pml4e, Pdpte
<1>7. CASE Pdpte(mem, va).huge
  BY <1>4, <1>5, <1>6, <1>7 DEF MmuWalk, Mapping, Allows, Present
<1>8. CASE ~Pdpte(mem, va).huge
  <2>1. Present(Pde(mem, va))
    BY <1>4, <1>5, <1>8 DEF MmuWalk
  <2>2. Pde(mem, va).rw
    BY <1>1, <1>2, <1>3, <1>5, <1>8, <2>1, PathTables DEF Pde
  <2>3. Pde(mem, va).huge
    <3>1. SUFFICES ASSUME ~Pde(mem, va).huge PROVE FALSE
      OBVIOUS
    <3>2. CASE ~Present(Pte(mem, va))
      BY <1>4, <1>5, <1>8, <2>1, <3>1, <3>2 DEF MmuWalk
    <3>3. CASE Present(Pte(mem, va))
      BY <1>5, <1>8, <2>1, <3>1, <3>3 DEF MmuWalk, Mapping
    <3> QED  BY <3>2, <3>3
  <2> QED  BY <1>4, <1>5, <1>6, <1>8, <2>1, <2>2, <2>3 DEF MmuWalk, Mapping, Allows, Present
<1> QED  BY <1>7, <1>8

\* Nor does touching a page of the direct map.
LEMMA DirectNeverFaults ==
  ASSUME NEW mem, WellFormed(mem), NEW va \in VirtualAddress, NEW write \in BOOLEAN,
         Direct(mem, va)
  PROVE  Allows(MmuWalk(mem, va), write)
<1>1. PICK g, i : g = Pde(mem, va).frame /\ i = IdxAt(va, 1)
  OBVIOUS
<1>2. OnPath(mem, va, 1, g) /\ <<g, i>> \in DirectSlot
  BY <1>1 DEF Direct, HasPt, OnPath
<1>3. Present(mem[g][i]) /\ mem[g][i].rw
  BY <1>2, DirectEntries DEF WellFormed
<1>4. MmuWalk(mem, va) = mem[g][i]
  BY <1>1, <1>2, LeafWalk
<1> QED  BY <1>3, <1>4 DEF Allows

LEMMA ExecuteIInv ==
  ASSUME IInv, cpu = "idle", NEW va \in VPage, NEW write \in BOOLEAN, Execute(va, write)
  PROVE  IInv'
<1> DEFINE t == Translation(va)
<1>1. UNCHANGED <<ready, page_bitmap, total_pages, used_pages, next_free_page, ret,
                  allocated, kpc, pml4, table, walk, held>>
  BY DEF Execute, pmmState
<1>2. /\ t = MmuWalk(table, va) /\ t \in Entry
      /\ va \in VirtualAddress
  BY TranslationIsWalk, WalkTyped, VPageAddress DEF IInv
<1>3. /\ access' = Nothing \/ access' \in AccessType
      /\ cpu' \in {"idle", "fault"}
      /\ \E e \in {t, Absent} : tlb' = [tlb EXCEPT ![va] = e]
      /\ cpu' = "fault" => /\ access' \in AccessType /\ access'.va = va
                           /\ ~Allows(t, write)
  BY DEF Execute, AccessType
<1>4. Pmm!PmmTypeOK'
  BY <1>1 DEF IInv, TypeInv, Pmm!PmmTypeOK
<1>5. tlb' \in [VPage -> Entry]
  BY <1>2, <1>3, EmptyLeaf DEF IInv, TypeInv
<1>6. TypeInv'
  BY <1>1, <1>3, <1>4, <1>5 DEF IInv, TypeInv
<1>7. AllocInv'
  BY <1>1, <1>3 DEF IInv, AllocInv
<1>8. WellFormed(table)' /\ UseInv'
  BY <1>1, <1>3 DEF IInv, UseInv
<1>9. WalkInv'
  BY <1>3 DEF WalkInv
<1>10. FaultInv'
  <2>1. cpu' = "fault" => ~MmuWalk(table, va).huge /\ ~Direct(table, va)
    BY <1>2, <1>3, HugeNeverFaults, DirectNeverFaults DEF IInv
  <2> QED  BY <1>1, <1>3, <2>1 DEF FaultInv
<1>11. TlbInv'
  BY <1>1, <1>2, <1>3, EmptyLeaf DEF IInv, TypeInv, TlbInv
<1>12. FixedInv'
  BY <1>1 DEF IInv, FixedInv
<1> QED  BY <1>6, <1>7, <1>8, <1>9, <1>10, <1>11, <1>12 DEF IInv

LEMMA FollowEntryIInv ==
  ASSUME IInv, FollowEntry
  PROVE  IInv'
<1> DEFINE e == WalkEntry
<1>1. /\ cpu = "walk" /\ walk.level > 1 /\ Present(e)
      /\ walk' = [walk EXCEPT !.level = walk.level - 1, !.at = e.frame]
      /\ UNCHANGED <<ready, page_bitmap, total_pages, used_pages, next_free_page, ret,
                     allocated, kpc, pml4, table, cpu, access, held, tlb>>
  BY DEF FollowEntry, Descend, pmmState
<1>2. /\ walk \in WalkType /\ WellFormed(table) /\ pml4 = Root
      /\ ~MmuWalk(table, walk.va).huge /\ ~Direct(table, walk.va)
      /\ OnPath(table, walk.va, walk.level, walk.at)
      /\ access # Nothing => walk.va = access.va /\ walk.rw
  BY <1>1 DEF IInv, TypeInv, WalkInv
<1>3. /\ walk.va \in VirtualAddress /\ walk.level \in Level
      /\ e = table[walk.at][IdxAt(walk.va, walk.level)]
  BY <1>2, VPageAddress DEF WalkType, WalkEntry, WalkIndex
<1> HIDE DEF e
<1>4. ~e.huge
  BY <1>1, <1>2, <1>3, OnPathHuge
<1>5. OnPath(table, walk.va, walk.level - 1, e.frame)
  BY <1>1, <1>2, <1>3, <1>4, OnPathStep
<1>6. walk.level - 1 \in Level
  BY <1>1, <1>3 DEF Level
<1>7. e.frame \in Pmm!Page
  BY <1>2, <1>3, <1>5, <1>6, OnPathLevel
<1>8. /\ walk' \in WalkType /\ walk'.va = walk.va /\ walk'.frame = walk.frame
      /\ walk'.rw = walk.rw /\ walk'.level = walk.level - 1 /\ walk'.at = e.frame
  BY <1>1, <1>2, <1>6, <1>7 DEF WalkType
<1>9. Pmm!PmmTypeOK'
  BY <1>1 DEF IInv, TypeInv, Pmm!PmmTypeOK
<1>10. TypeInv'
  BY <1>1, <1>8, <1>9 DEF IInv, TypeInv
<1>11. AllocInv'
  BY <1>1 DEF IInv, AllocInv
<1>12. WellFormed(table)' /\ UseInv'
  BY <1>1, <1>8 DEF IInv, UseInv
<1>13. WalkInv' /\ FaultInv'
  BY <1>1, <1>2, <1>5, <1>8 DEF WalkInv, FaultInv
<1>14. TlbInv' /\ FixedInv'
  BY <1>1 DEF IInv, TlbInv, FixedInv
<1> QED  BY <1>10, <1>11, <1>12, <1>13, <1>14 DEF IInv

\* map_page's missing table: nothing is allocated and it returns, or a page
\* is allocated, cleared and linked, and no translation changes.
LEMMA InstallTableEffect ==
  ASSUME IInv, InstallTable
  PROVE  /\ cpu = "walk" /\ ready /\ walk \in WalkType
         /\ UNCHANGED <<ready, kpc, pml4, access, held, tlb>>
         /\ Pmm!PmmTypeOK'
         /\ page_bitmap' = (Pmm!Page \ Pmm!UsablePage) \cup allocated'
         /\ \/ /\ ret' = NoFrame /\ cpu' = "idle"
               /\ allocated' = allocated /\ table' = table
            \/ /\ ret' \in Pmm!UsablePage \ allocated
               /\ allocated' = allocated \cup {ret'}
               /\ cpu' = "walk" /\ walk' \in WalkType
               /\ walk'.va = walk.va /\ walk'.frame = walk.frame /\ walk'.rw = walk.rw
               /\ WellFormed(table')
               /\ Used(table') = Used(table) \cup {ret'}
               /\ OnPath(table', walk.va, walk'.level, walk'.at)
         /\ \A va \in VirtualAddress : /\ MmuWalk(table', va) = MmuWalk(table, va)
                                       /\ Direct(table', va) <=> Direct(table, va)
<1>1. /\ cpu = "walk" /\ walk.level > 1 /\ ~Present(WalkEntry)
      /\ Pmm!AllocatePage
      /\ UNCHANGED <<ready, kpc, pml4, access, held, tlb>>
      /\ ret' = NoFrame => cpu' = "idle" /\ table' = table
      /\ ret' # NoFrame =>
           /\ table' = [table EXCEPT ![ret'] = EmptyTable,
                                     ![walk.at][WalkIndex] = Mapping(ret', TRUE, FALSE)]
           /\ walk' = [walk EXCEPT !.level = walk.level - 1, !.at = ret']
           /\ cpu' = cpu
  BY DEF InstallTable, ReturnFromMapPage, Descend
<1>2. /\ walk \in WalkType /\ WellFormed(table)
      /\ OnPath(table, walk.va, walk.level, walk.at)
      /\ ready /\ Pmm!PmmTypeOK /\ AllocInv
  BY <1>1 DEF IInv, TypeInv, WalkInv, AllocInv
<1>3. Pmm!PmmTypeOK'
  BY <1>1, <1>2, AllocateTyped
<1>4. /\ page_bitmap' = (Pmm!Page \ Pmm!UsablePage) \cup allocated'
      /\ \/ ret' = NoFrame /\ allocated' = allocated
         \/ /\ ret' \in Pmm!UsablePage \ allocated
            /\ ret' # NoFrame
            /\ allocated' = allocated \cup {ret'}
  BY <1>1, <1>2, AllocateReady
<1>5. CASE ret' = NoFrame
  <2>1. allocated' = allocated
    BY <1>4, <1>5 DEF NoFrame
  <2> QED  BY <1>1, <1>2, <1>3, <1>4, <1>5, <2>1
<1>6. CASE ret' # NoFrame
  <2> DEFINE f == walk.at
             i == IdxAt(walk.va, walk.level)
  <2>1. /\ walk.va \in VirtualAddress /\ walk.level \in Level /\ i \in Index
        /\ WalkEntry = table[f][i] /\ i = WalkIndex
    BY <1>2, VPageAddress, IndexTyped DEF WalkType, WalkEntry, WalkIndex
  <2>2. f \in {Root} \cup Pdpts(table) \cup Pds(table) /\ f \in Pmm!Page
    BY <1>1, <1>2, <2>1, OnPathLevel
  <2>3. table[f][i] = Absent
    BY <1>1, <2>1 DEF Present
  <2>4. PICK new \in Pmm!Page \ {0} : new = ret' /\ new \in Pmm!UsablePage \ allocated
    BY <1>4, <1>6, UsableFacts DEF NoFrame
  <2>5. new \notin {Root} \cup Used(table)
    BY <2>4, UsableFacts DEF IInv, UseInv
  <2>6. table' = Linked(table, f, i, new)
    BY <1>1, <1>6, <2>1, <2>4 DEF Linked, TableEntry
  <2> HIDE DEF f, i
  <2>7. /\ WellFormed(table')
        /\ Used(table') = Used(table) \cup {new}
        /\ \A va \in VirtualAddress : MmuWalk(table', va) = MmuWalk(table, va)
    BY <1>2, <2>1, <2>2, <2>3, <2>4, <2>5, <2>6, LinkTable
  <2>8. new # f /\ {Root} \cup Pdpts(table) \cup Pds(table) \subseteq Pmm!Page \ {new}
    <3>1. DirectLow(table)
      BY <1>2, DirectEntries DEF WellFormed
    <3> QED  BY <1>2, <2>2, <2>5, <3>1, LevelsAreUsed DEF WellFormed
  <2>9. /\ table'[f][i] = TableEntry(new)
        /\ \A p \in Pmm!Page \ {new}, j \in Index :
             p # f \/ j # i => table'[p][j] = table[p][j]
    BY <1>2, <2>1, <2>2, <2>4, <2>6, <2>8, LinkedEntries DEF WellFormed
  <2>10. \A p \in {Root} \cup Pdpts(table) \cup Pds(table), j \in Index :
           Present(table[p][j]) => table'[p][j] = table[p][j]
    BY <2>3, <2>8, <2>9 DEF Present
  <2>10a. \A va \in VirtualAddress : Direct(table', va) <=> Direct(table, va)
    BY <1>2, <2>7, <2>10, DirectKept
  <2>11. OnPath(table', walk.va, walk.level, f)
    BY <1>2, <2>1, <2>10, OnPathKept DEF f
  <2>12. /\ Present(TableEntry(new)) /\ ~TableEntry(new).huge
         /\ TableEntry(new).frame = new
    BY DEF Present, TableEntry, Mapping, Absent
  <2>13. OnPath(table', walk.va, walk.level - 1, new)
    BY <1>1, <2>1, <2>9, <2>11, <2>12, OnPathStep DEF i
  <2>14. walk.level - 1 \in Level
    BY <1>1, <2>1 DEF Level
  <2>15. /\ walk' \in WalkType
         /\ walk'.va = walk.va /\ walk'.frame = walk.frame /\ walk'.rw = walk.rw
         /\ walk'.level = walk.level - 1 /\ walk'.at = new
    BY <1>1, <1>2, <1>6, <2>4, <2>14 DEF WalkType
  <2>16. allocated' = allocated \cup {ret'}
    BY <1>4, <1>6
  <2> QED  BY <1>1, <1>2, <1>3, <1>4, <1>6, <2>4, <2>7, <2>10a, <2>13, <2>15, <2>16
<1> QED  BY <1>5, <1>6

LEMMA InstallTableIInv ==
  ASSUME IInv, InstallTable
  PROVE  IInv'
<1>1. /\ cpu = "walk" /\ ready /\ walk \in WalkType
      /\ UNCHANGED <<ready, kpc, pml4, access, held, tlb>>
      /\ Pmm!PmmTypeOK'
      /\ page_bitmap' = (Pmm!Page \ Pmm!UsablePage) \cup allocated'
      /\ \A va \in VirtualAddress : /\ MmuWalk(table', va) = MmuWalk(table, va)
                                    /\ Direct(table', va) <=> Direct(table, va)
  BY InstallTableEffect
<1>2. \/ /\ ret' = NoFrame /\ cpu' = "idle"
         /\ allocated' = allocated /\ table' = table
      \/ /\ ret' \in Pmm!UsablePage \ allocated
         /\ allocated' = allocated \cup {ret'}
         /\ cpu' = "walk" /\ walk' \in WalkType
         /\ walk'.va = walk.va /\ walk'.frame = walk.frame /\ walk'.rw = walk.rw
         /\ WellFormed(table')
         /\ Used(table') = Used(table) \cup {ret'}
         /\ OnPath(table', walk.va, walk'.level, walk'.at)
  BY InstallTableEffect
<1>3. TypeInv'
  BY <1>1, <1>2 DEF IInv, TypeInv
<1>4. AllocInv'
  BY <1>1, <1>2 DEF IInv, AllocInv
<1>5. WellFormed(table)'
  BY <1>2 DEF IInv
<1>6. UseInv'
  <2>1. walk.frame \in allocated \ Used(table) /\ held \subseteq allocated
        /\ Used(table) \subseteq (Pmm!Page \ Pmm!UsablePage) \cup (allocated \ held)
    BY <1>1 DEF IInv, UseInv
  <2> QED  BY <1>1, <1>2, <2>1 DEF UseInv
<1>7. WalkInv'
  <2>1. /\ pml4 = Root /\ ~MmuWalk(table, walk.va).huge /\ ~Direct(table, walk.va)
        /\ access # Nothing => walk.va = access.va /\ walk.rw
    BY <1>1 DEF IInv, WalkInv
  <2>2. walk.va \in VirtualAddress
    BY <1>1, VPageAddress DEF WalkType
  <2> QED  BY <1>1, <1>2, <2>1, <2>2 DEF WalkInv
<1>8. FaultInv'
  BY <1>2 DEF FaultInv
<1>9. TlbInv' /\ FixedInv'
  BY <1>1, VPageAddress DEF IInv, TlbInv, FixedInv
<1> QED  BY <1>3, <1>4, <1>5, <1>6, <1>7, <1>8, <1>9 DEF IInv

\* The last level: the page is mapped to walk.frame, and only that page.
LEMMA SetLeafEffect ==
  ASSUME IInv, SetLeaf
  PROVE  /\ cpu = "walk" /\ walk \in WalkType /\ cpu' = "idle"
         /\ UNCHANGED <<ready, page_bitmap, total_pages, used_pages, next_free_page,
                        ret, allocated, kpc, pml4, access>>
         /\ held' = held \ {walk.frame}
         /\ tlb' = [tlb EXCEPT ![walk.va] = Absent]
         /\ WellFormed(table')
         /\ Leaf \in Entry /\ Present(Leaf) /\ ~Leaf.huge
         /\ Leaf.frame = walk.frame /\ Leaf.rw = walk.rw
         /\ \A x : x \in Used(table') => x \in Used(table) \/ x = walk.frame
         /\ walk.frame \in Used(table')
         /\ \A x \in Used(table) :
              x \in Used(table') \/ (Present(WalkEntry) /\ x = WalkEntry.frame)
         /\ MmuWalk(table', walk.va) = Leaf
         /\ \A v \in VirtualAddress :
              v # walk.va => MmuWalk(table', v) = MmuWalk(table, v)
         /\ \A v \in VirtualAddress : Direct(table', v) <=> Direct(table, v)
<1>1. /\ cpu = "walk" /\ walk.level = 1 /\ cpu' = "idle"
      /\ UNCHANGED <<ready, page_bitmap, total_pages, used_pages, next_free_page,
                     ret, allocated, kpc, pml4, access>>
      /\ held' = held \ {walk.frame}
      /\ tlb' = [tlb EXCEPT ![walk.va] = Absent]
      /\ table' = [table EXCEPT ![walk.at][WalkIndex] = Leaf]
  BY DEF SetLeaf, Invlpg, ReturnFromMapPage, pmmState
<1>2. /\ walk \in WalkType /\ WellFormed(table)
      /\ OnPath(table, walk.va, walk.level, walk.at)
      /\ walk.frame \in allocated \ Used(table)
      /\ AllocInv /\ ~Direct(table, walk.va)
  BY <1>1 DEF IInv, TypeInv, WalkInv, UseInv
<1>3. walk.frame \in Pmm!UsablePage
  BY <1>1, <1>2 DEF AllocInv
<1>4. walk.frame \in Pmm!Page /\ walk.frame # 0 /\ walk.frame \notin {Root} \cup Used(table)
  BY <1>2, <1>3, UsableFacts
<1>5. walk.frame \in Nat /\ walk.rw \in BOOLEAN
  BY <1>2, <1>4 DEF WalkType, Pmm!Page
<1>6. /\ Leaf \in Entry /\ Present(Leaf) /\ ~Leaf.huge
      /\ Leaf.frame = walk.frame /\ Leaf.rw = walk.rw
  BY <1>4, <1>5 DEF Leaf, Mapping, Entry, Present, Absent
<1>7. PICK f, i : /\ f = walk.at /\ i = IdxAt(walk.va, 1)
                  /\ WalkEntry = table[f][i]
  BY <1>1 DEF WalkEntry, WalkIndex
<1>8. table' = Written(table, f, i, Leaf)
  BY <1>1, <1>7 DEF Written, WalkIndex
<1>9. walk.va \in VirtualAddress /\ OnPath(table, walk.va, 1, f)
  BY <1>1, <1>2, <1>7, VPageAddress DEF WalkType
<1>9a. <<f, i>> \notin DirectSlot
  <2>1. HasPt(table, walk.va) /\ f = Pde(table, walk.va).frame
    BY <1>9 DEF OnPath, HasPt
  <2> QED  BY <1>2, <1>7, <2>1 DEF Direct
<1>10. Present(Leaf) => Leaf.frame \in Pmm!Page /\ Leaf.frame \notin {Root} \cup Used(table)
  BY <1>4, <1>6
<1>11. /\ WellFormed(table')
       /\ \A x : x \in Used(table') => x \in Used(table) \/ (Present(Leaf) /\ x = Leaf.frame)
       /\ Present(Leaf) => Leaf.frame \in Used(table')
       /\ \A x \in Used(table) :
            x \in Used(table') \/ (Present(table[f][i]) /\ x = table[f][i].frame)
       /\ MmuWalk(table', walk.va) = Leaf
       /\ \A v \in VirtualAddress : v # walk.va => MmuWalk(table', v) = MmuWalk(table, v)
       /\ \A v \in VirtualAddress : Direct(table', v) <=> Direct(table, v)
  BY <1>2, <1>6, <1>7, <1>8, <1>9, <1>9a, <1>10, WriteLeaf
<1> QED  BY <1>1, <1>2, <1>6, <1>7, <1>11

LEMMA SetLeafIInv ==
  ASSUME IInv, SetLeaf
  PROVE  IInv'
<1>1. /\ cpu = "walk" /\ walk \in WalkType /\ cpu' = "idle"
      /\ UNCHANGED <<ready, page_bitmap, total_pages, used_pages, next_free_page,
                     ret, allocated, kpc, pml4, access>>
      /\ held' = held \ {walk.frame}
      /\ tlb' = [tlb EXCEPT ![walk.va] = Absent]
      /\ WellFormed(table')
      /\ ~Leaf.huge
      /\ \A x : x \in Used(table') => x \in Used(table) \/ x = walk.frame
      /\ MmuWalk(table', walk.va) = Leaf
      /\ \A v \in VirtualAddress :
           v # walk.va => MmuWalk(table', v) = MmuWalk(table, v)
      /\ \A v \in VirtualAddress : Direct(table', v) <=> Direct(table, v)
  BY SetLeafEffect
<1>2. walk.va \in VPage /\ ~MmuWalk(table, walk.va).huge
  BY <1>1 DEF IInv, WalkInv, WalkType
<1>3. Pmm!PmmTypeOK'
  BY <1>1 DEF IInv, TypeInv, Pmm!PmmTypeOK
<1>4. TypeInv'
  BY <1>1, <1>3, EmptyLeaf DEF IInv, TypeInv
<1>5. AllocInv'
  BY <1>1 DEF IInv, AllocInv
<1>6. UseInv'
  <2>1. walk.frame \in allocated \ Used(table) /\ held \subseteq allocated
        /\ Used(table) \subseteq (Pmm!Page \ Pmm!UsablePage) \cup (allocated \ held)
    BY <1>1 DEF IInv, UseInv
  <2> QED  BY <1>1, <2>1 DEF UseInv
<1>7. WalkInv' /\ FaultInv'
  BY <1>1 DEF WalkInv, FaultInv
<1>8. TlbInv'
  <2>1. ASSUME NEW v \in VPage, Present(tlb'[v])
        PROVE  tlb'[v] = MmuWalk(table', v)
    <3>1. v # walk.va /\ tlb'[v] = tlb[v]
      BY <1>1, <1>2, <2>1, EmptyLeaf DEF IInv, TypeInv
    <3> QED  BY <1>1, <2>1, <3>1, VPageAddress DEF IInv, TlbInv
  <2> QED  BY <2>1 DEF TlbInv
<1>9. FixedInv'
  BY <1>1, <1>2, VPageAddress DEF IInv, FixedInv
<1> QED  BY <1>1, <1>3, <1>4, <1>5, <1>6, <1>7, <1>8, <1>9 DEF IInv

LEMMA ExceptionHandlerIInv ==
  ASSUME IInv, ExceptionHandler
  PROVE  IInv'
<1>1. /\ cpu = "fault" /\ Pmm!AllocatePage
      /\ UNCHANGED <<ready, kpc, pml4, table, access, held, tlb>>
      /\ ret' = NoFrame => cpu' = "halted"
      /\ ret' # NoFrame =>
           \/ cpu' = "idle" /\ pml4 = NoFrame
           \/ /\ cpu' = "walk" /\ pml4 # NoFrame
              /\ walk' = [va |-> access.va, frame |-> ret', rw |-> TRUE,
                          level |-> 4, at |-> pml4]
  BY DEF ExceptionHandler, CallMapPage
<1>2. Pmm!PmmTypeOK /\ AllocInv
  BY DEF IInv, TypeInv
<1>3. Pmm!PmmTypeOK'
  BY <1>1, <1>2, AllocateTyped
<1>4. /\ access \in AccessType /\ ~MmuWalk(table, access.va).huge
      /\ ~Direct(table, access.va)
  BY <1>1 DEF IInv, FaultInv
<1>5. /\ ready => /\ page_bitmap' = (Pmm!Page \ Pmm!UsablePage) \cup allocated'
                  /\ \/ ret' = NoFrame /\ allocated' = allocated
                     \/ /\ ret' \in Pmm!UsablePage \ allocated
                        /\ allocated' = allocated \cup {ret'}
      /\ ~ready => ret' = NoFrame /\ allocated' = {}
  BY <1>1, <1>2, AllocateReady, AllocateEarly
<1>6. cpu' = "walk" =>
        /\ ready /\ ret' \in Pmm!UsablePage \ allocated
        /\ walk' \in WalkType /\ walk'.va = access.va /\ walk'.frame = ret'
        /\ walk'.rw /\ walk'.level = 4 /\ walk'.at = Root /\ pml4 = Root
  <2>1. SUFFICES ASSUME cpu' = "walk"
                 PROVE  /\ ready /\ ret' \in Pmm!UsablePage \ allocated
                        /\ walk' \in WalkType /\ walk'.va = access.va /\ walk'.frame = ret'
                        /\ walk'.rw /\ walk'.level = 4 /\ walk'.at = Root /\ pml4 = Root
    OBVIOUS
  <2>2. ret' # NoFrame /\ pml4 = Root
    BY <1>1, <2>1 DEF IInv, TypeInv
  <2>3. ready /\ ret' \in Pmm!UsablePage \ allocated
    BY <1>5, <2>2
  <2>4. walk' = [va |-> access.va, frame |-> ret', rw |-> TRUE, level |-> 4, at |-> Root]
    BY <1>1, <2>1, <2>2
  <2>5. access.va \in VPage /\ ret' \in Pmm!Page /\ Root \in Pmm!Page /\ 4 \in Level
    BY <1>4, <2>3, UsableFacts, LoaderAssumption DEF AccessType, Level
  <2> QED  BY <2>2, <2>3, <2>4, <2>5 DEF WalkType
<1>7. cpu' \in {"idle", "walk", "halted"}
  BY <1>1
<1>8. TypeInv'
  BY <1>1, <1>3, <1>6, <1>7 DEF IInv, TypeInv
<1>9. AllocInv'
  BY <1>1, <1>2, <1>5, <1>6, <1>7 DEF AllocInv
<1>10. UseInv'
  <2>1. held \subseteq allocated /\ AllocInv
        /\ Used(table) \subseteq (Pmm!Page \ Pmm!UsablePage) \cup (allocated \ held)
    BY DEF IInv, UseInv
  <2>2. allocated \subseteq allocated'
    BY <1>2, <1>5 DEF AllocInv
  <2>3. cpu' = "walk" => walk'.frame \in allocated' \ Used(table)
    BY <1>5, <1>6, <2>1, UsableFacts DEF NoFrame
  <2> QED  BY <1>1, <2>1, <2>2, <2>3 DEF UseInv
<1>11. WellFormed(table)'
  BY <1>1 DEF IInv
<1>12. WalkInv'
  BY <1>1, <1>4, <1>6 DEF WalkInv, OnPath
<1>13. FaultInv'
  BY <1>7 DEF FaultInv
<1>14. TlbInv' /\ FixedInv'
  BY <1>1 DEF IInv, TlbInv, FixedInv
<1> QED  BY <1>8, <1>9, <1>10, <1>11, <1>12, <1>13, <1>14 DEF IInv

LEMMA ClientAllocateIInv ==
  ASSUME IInv, ClientAllocate
  PROVE  IInv'
<1>1. /\ cpu = "idle" /\ ready /\ Pmm!AllocatePage
      /\ held' = held \cup ({ret'} \ {NoFrame})
      /\ UNCHANGED <<ready, kpc, pml4, table, cpu, access, walk, tlb>>
  BY DEF ClientAllocate, Idle
<1>2. Pmm!PmmTypeOK /\ AllocInv
  BY DEF IInv, TypeInv
<1>3. Pmm!PmmTypeOK'
  BY <1>1, <1>2, AllocateTyped
<1>4. /\ page_bitmap' = (Pmm!Page \ Pmm!UsablePage) \cup allocated'
      /\ \/ ret' = NoFrame /\ allocated' = allocated
         \/ /\ ret' \in Pmm!UsablePage \ allocated
            /\ ret' # NoFrame
            /\ allocated' = allocated \cup {ret'}
  BY <1>1, <1>2, AllocateReady
<1>5. TypeInv'
  BY <1>1, <1>3, <1>4, UsableFacts DEF IInv, TypeInv
<1>6. AllocInv'
  BY <1>1, <1>2, <1>4 DEF AllocInv
<1>7. UseInv'
  <2>1. held \subseteq allocated
        /\ Used(table) \subseteq (Pmm!Page \ Pmm!UsablePage) \cup (allocated \ held)
    BY DEF IInv, UseInv
  <2>2. CASE ret' = NoFrame
    <3>1. held' = held /\ allocated' = allocated
      BY <1>1, <1>4, <2>2
    <3> QED  BY <1>1, <2>1, <3>1 DEF UseInv
  <2>3. CASE ret' # NoFrame
    <3>1. /\ held' = held \cup {ret'} /\ allocated' = allocated \cup {ret'}
          /\ ret' \in Pmm!UsablePage \ allocated
      BY <1>1, <1>4, <2>3
    <3> QED  BY <1>1, <2>1, <3>1 DEF UseInv
  <2> QED  BY <2>2, <2>3
<1>8. WellFormed(table)'
  BY <1>1 DEF IInv
<1>9. WalkInv' /\ FaultInv'
  BY <1>1 DEF WalkInv, FaultInv
<1>10. TlbInv' /\ FixedInv'
  BY <1>1 DEF IInv, TlbInv, FixedInv
<1> QED  BY <1>5, <1>6, <1>7, <1>8, <1>9, <1>10 DEF IInv

LEMMA ClientMapIInv ==
  ASSUME IInv, ClientMap
  PROVE  IInv'
<1>1. /\ cpu = "idle" /\ access = Nothing
      /\ UNCHANGED <<ready, page_bitmap, total_pages, used_pages, next_free_page, ret,
                     allocated, kpc, pml4, table, access, held, tlb>>
  BY DEF ClientMap, Idle, pmmState
<1>2. PICK va \in VPage, frame \in held, rw \in BOOLEAN :
        ~Huge(va) /\ ~Direct(table, va) /\ CallMapPage(va, frame, rw)
  BY DEF ClientMap
<1>3. \/ cpu' = "idle"
      \/ /\ cpu' = "walk" /\ pml4 # NoFrame
         /\ walk' = [va |-> va, frame |-> frame, rw |-> rw, level |-> 4, at |-> pml4]
  BY <1>2 DEF CallMapPage
<1>4. held \subseteq allocated /\ allocated \subseteq Pmm!UsablePage
      /\ Used(table) \subseteq (Pmm!Page \ Pmm!UsablePage) \cup (allocated \ held)
  BY DEF IInv, UseInv, AllocInv
<1>5. cpu' = "walk" =>
        /\ walk' \in WalkType /\ walk'.va = va /\ walk'.frame = frame
        /\ walk'.level = 4 /\ walk'.at = Root /\ pml4 = Root
  <2>1. 4 \in Level /\ Root \in Pmm!Page /\ frame \in Pmm!Page
    BY <1>4, LoaderAssumption, UsableFacts DEF Level
  <2>2. pml4 # NoFrame => pml4 = Root
    BY DEF IInv, TypeInv
  <2> QED  BY <1>3, <2>1, <2>2 DEF WalkType
<1>6. ready /\ cpu' \in {"idle", "walk"}
  BY <1>2, <1>3, <1>4 DEF IInv, AllocInv
<1>7. Pmm!PmmTypeOK'
  BY <1>1 DEF IInv, TypeInv, Pmm!PmmTypeOK
<1>8. TypeInv'
  BY <1>1, <1>5, <1>6, <1>7 DEF IInv, TypeInv
<1>9. AllocInv'
  BY <1>1, <1>6 DEF IInv, AllocInv
<1>10. WellFormed(table)'
  BY <1>1 DEF IInv
<1>11. UseInv'
  BY <1>1, <1>4, <1>5 DEF UseInv
<1>12. WalkInv'
  BY <1>1, <1>2, <1>5 DEF WalkInv, OnPath, Huge
<1>13. FaultInv'
  BY <1>6 DEF FaultInv
<1>14. TlbInv' /\ FixedInv'
  BY <1>1 DEF IInv, TlbInv, FixedInv
<1> QED  BY <1>8, <1>9, <1>10, <1>11, <1>12, <1>13, <1>14 DEF IInv

\* get_physical_address reads the tables the way the processor does.
LEMMA GetPhysicalAddressIsWalk ==
  ASSUME IInv, pml4 # NoFrame, NEW va
  PROVE  GetPhysicalAddress(va) = MmuWalk(table, va).frame
<1>1. \A frame, rw, huge : Mapping(frame, rw, huge).frame = frame
  BY DEF Mapping
<1>2. Absent.frame = 0
  BY DEF Absent
<1> DEFINE e4 == Pml4e(table, va)
           e3 == Pdpte(table, va)
           e2 == Pde(table, va)
           e1 == Pte(table, va)
<1>3. CASE ~Present(e4) \/ ~Present(e3)
  BY <1>2, <1>3, Zenon DEF GetPhysicalAddress, MmuWalk
<1>4. CASE Present(e4) /\ Present(e3) /\ e3.huge
  BY <1>1, <1>4, Zenon DEF GetPhysicalAddress, MmuWalk
<1>5. CASE Present(e4) /\ Present(e3) /\ ~e3.huge /\ ~Present(e2)
  BY <1>2, <1>5, Zenon DEF GetPhysicalAddress, MmuWalk
<1>6. CASE Present(e4) /\ Present(e3) /\ ~e3.huge /\ Present(e2) /\ e2.huge
  BY <1>1, <1>6, Zenon DEF GetPhysicalAddress, MmuWalk
<1>7. CASE Present(e4) /\ Present(e3) /\ ~e3.huge /\ Present(e2) /\ ~e2.huge
  <2>1. GetPhysicalAddress(va) = e1.frame
    BY <1>7, Zenon DEF GetPhysicalAddress
  <2>2. CASE ~Present(e1)
    BY <1>7, <2>1, <2>2, Zenon DEF MmuWalk, Present
  <2>3. CASE Present(e1)
    BY <1>1, <1>7, <2>1, <2>3, Zenon DEF MmuWalk
  <2> QED  BY <2>2, <2>3
<1> QED  BY <1>3, <1>4, <1>5, <1>6, <1>7

\* unmap_page and the question its caller asks first: either nothing changes
\* and no page is returned, or one page's leaf is cleared, and the frame it
\* held is below no table any more.
LEMMA UnmapPageEffect ==
  ASSUME IInv, NEW va \in VPage, ~Direct(table, va), UnmapPage(va),
         NEW back, back = IF Huge(va) THEN {} ELSE {GetPhysicalAddress(va)} \cap allocated
  PROVE  \/ back = {} /\ UNCHANGED <<table, tlb>>
         \/ /\ tlb' = [tlb EXCEPT ![va] = Absent]
            /\ WellFormed(table')
            /\ ~MmuWalk(table, va).huge
            /\ back \subseteq allocated
            /\ \A x \in Used(table') : x \in Used(table) /\ x \notin back
            /\ \A x \in Used(table) :
                 x \in Used(table') \/ x \in back \/ x \notin allocated
            /\ MmuWalk(table', va) = Absent
            /\ \A v \in VirtualAddress : v # va => MmuWalk(table', v) = MmuWalk(table, v)
            /\ \A v \in VirtualAddress : Direct(table', v) <=> Direct(table, v)
<1>1. WellFormed(table) /\ va \in VirtualAddress
  BY VPageAddress DEF IInv
<1>2. 0 \notin allocated
  BY UsableFacts DEF IInv, AllocInv
<1>3. CASE pml4 = NoFrame
  <2>1. GetPhysicalAddress(va) = 0
    BY <1>3 DEF GetPhysicalAddress
  <2> QED  BY <1>2, <1>3, <2>1 DEF UnmapPage
<1>4. CASE pml4 # NoFrame /\ ~HasPt(table, va)
  <2>1. CASE Huge(va)
    BY <1>4, <2>1 DEF UnmapPage
  <2>2. CASE ~Huge(va)
    <3>1. MmuWalk(table, va) = Absent
      BY <1>4, <2>2 DEF HasPt, Huge, MmuWalk, Mapping
    <3>2. GetPhysicalAddress(va) = 0
      BY <1>4, <3>1, GetPhysicalAddressIsWalk DEF Absent
    <3> QED  BY <1>2, <1>4, <3>2 DEF UnmapPage
  <2> QED  BY <2>1, <2>2
<1>5. CASE pml4 # NoFrame /\ HasPt(table, va)
  <2>1. PICK f, i : f = Pde(table, va).frame /\ i = IdxAt(va, 1)
    OBVIOUS
  <2>2. OnPath(table, va, 1, f)
    BY <1>5, <2>1 DEF HasPt, OnPath
  <2>3. table' = Written(table, f, i, Absent) /\ tlb' = [tlb EXCEPT ![va] = Absent]
    BY <1>5, <2>1 DEF UnmapPage, Invlpg, Written
  <2>3a. <<f, i>> \notin DirectSlot
    BY <1>5, <2>1 DEF Direct
  <2>4. /\ WellFormed(table')
        /\ \A x : x \in Used(table') => x \in Used(table)
        /\ \A x \in Used(table) :
             x \in Used(table') \/ (Present(table[f][i]) /\ x = table[f][i].frame)
        /\ Present(table[f][i]) => table[f][i].frame \notin Used(table')
        /\ MmuWalk(table', va) = Absent
        /\ \A v \in VirtualAddress : v # va => MmuWalk(table', v) = MmuWalk(table, v)
        /\ \A v \in VirtualAddress : Direct(table', v) <=> Direct(table, v)
    BY <1>1, <2>1, <2>2, <2>3, <2>3a, EmptyLeaf, WriteLeaf
  <2>5. MmuWalk(table, va) = table[f][i]
    BY <1>1, <2>1, <2>2, LeafWalk
  <2>6. ~MmuWalk(table, va).huge
    <3>1. Pte(table, va) = table[f][i]
      BY <2>1 DEF Pte
    <3> QED  BY <1>1, <1>5, <2>5, <3>1, PathTables DEF HasPt
  <2>7. back = {table[f][i].frame} \cap allocated
    <3>1. GetPhysicalAddress(va) = table[f][i].frame
      BY <1>5, <2>5, GetPhysicalAddressIsWalk
    <3> QED  BY <2>6, <3>1 DEF Huge
  <2>8. ~Present(table[f][i]) => back = {}
    BY <1>2, <2>7 DEF Present, Absent
  <2> QED  BY <2>3, <2>4, <2>6, <2>7, <2>8
<1> QED  BY <1>3, <1>4, <1>5

LEMMA ClientUnmapIInv ==
  ASSUME IInv, ClientUnmap
  PROVE  IInv'
<1>1. /\ cpu = "idle"
      /\ UNCHANGED <<ready, page_bitmap, total_pages, used_pages, next_free_page, ret,
                     allocated, kpc, pml4, cpu, access, walk>>
  BY DEF ClientUnmap, Idle, pmmState
<1>2. PICK va \in VPage :
        /\ ~Direct(table, va)
        /\ UnmapPage(va)
        /\ held' = held \cup (IF Huge(va) THEN {} ELSE {GetPhysicalAddress(va)} \cap allocated)
  BY DEF ClientUnmap
<1>3. PICK back : back = IF Huge(va) THEN {} ELSE {GetPhysicalAddress(va)} \cap allocated
  OBVIOUS
<1>4. held' = held \cup back
  BY <1>2, <1>3
<1>5. \/ back = {} /\ UNCHANGED <<table, tlb>>
      \/ /\ tlb' = [tlb EXCEPT ![va] = Absent]
         /\ WellFormed(table')
         /\ ~MmuWalk(table, va).huge
         /\ back \subseteq allocated
         /\ \A x \in Used(table') : x \in Used(table) /\ x \notin back
         /\ MmuWalk(table', va) = Absent
         /\ \A v \in VirtualAddress : v # va => MmuWalk(table', v) = MmuWalk(table, v)
         /\ \A v \in VirtualAddress : Direct(table', v) <=> Direct(table, v)
  BY <1>2, <1>3, UnmapPageEffect
<1>6. Pmm!PmmTypeOK'
  BY <1>1 DEF IInv, TypeInv, Pmm!PmmTypeOK
<1>7. held' \in SUBSET Pmm!Page
  <2>1. allocated \subseteq Pmm!Page /\ held \subseteq Pmm!Page
    BY DEF IInv, TypeInv, Pmm!PmmTypeOK
  <2> QED  BY <1>4, <1>5, <2>1
<1>8. tlb' \in [VPage -> Entry]
  BY <1>5, EmptyLeaf DEF IInv, TypeInv
<1>9. TypeInv'
  BY <1>1, <1>6, <1>7, <1>8 DEF IInv, TypeInv
<1>10. AllocInv'
  BY <1>1 DEF IInv, AllocInv
<1>11. WellFormed(table)'
  BY <1>5 DEF IInv
<1>12. UseInv'
  <2>1. held \subseteq allocated
        /\ Used(table) \subseteq (Pmm!Page \ Pmm!UsablePage) \cup (allocated \ held)
    BY DEF IInv, UseInv
  <2> QED  BY <1>1, <1>4, <1>5, <2>1 DEF UseInv
<1>13. WalkInv' /\ FaultInv'
  BY <1>1 DEF WalkInv, FaultInv
<1>14. TlbInv'
  <2>1. CASE UNCHANGED <<table, tlb>>
    BY <2>1 DEF IInv, TlbInv
  <2>2. CASE /\ tlb' = [tlb EXCEPT ![va] = Absent]
             /\ \A v \in VirtualAddress : v # va => MmuWalk(table', v) = MmuWalk(table, v)
    <3>1. ASSUME NEW v \in VPage, Present(tlb'[v])
          PROVE  tlb'[v] = MmuWalk(table', v)
      <4>1. v # va /\ tlb'[v] = tlb[v]
        BY <2>2, <3>1, EmptyLeaf DEF IInv, TypeInv
      <4> QED  BY <2>2, <3>1, <4>1, VPageAddress DEF IInv, TlbInv
    <3> QED  BY <3>1 DEF TlbInv
  <2> QED  BY <1>5, <2>1, <2>2
<1>15. FixedInv'
  BY <1>5, EmptyLeaf, VPageAddress DEF IInv, FixedInv
<1> QED  BY <1>9, <1>10, <1>11, <1>12, <1>13, <1>14, <1>15 DEF IInv

LEMMA ClientFreeIInv ==
  ASSUME IInv, ClientFree
  PROVE  IInv'
<1>1. /\ cpu = "idle"
      /\ UNCHANGED <<ready, kpc, pml4, table, cpu, access, walk, tlb>>
  BY DEF ClientFree, Idle
<1>2. PICK frame \in held : Pmm!FreePage(frame) /\ held' = held \ {frame}
  BY DEF ClientFree
<1>3. held \subseteq allocated /\ allocated \subseteq Pmm!UsablePage
      /\ Used(table) \subseteq (Pmm!Page \ Pmm!UsablePage) \cup (allocated \ held)
  BY DEF IInv, UseInv, AllocInv
<1>4. frame \in Pmm!UsablePage /\ frame \in Pmm!Page /\ ~(frame >= NumPages)
  BY <1>3, UsableFacts, SizesAssumption DEF Pmm!Page
<1>5. /\ page_bitmap' = page_bitmap \ {frame}
      /\ used_pages' = Pmm!Dec(used_pages)
      /\ next_free_page' = Pmm!HintAfterFree(frame)
      /\ allocated' = allocated \ {frame}
      /\ UNCHANGED <<total_pages, ret>>
  BY <1>2, <1>4 DEF Pmm!FreePage
<1>6. ready
  BY <1>3 DEF IInv, AllocInv
<1>7. Pmm!PmmTypeOK'
  <2>1. Pmm!Dec(used_pages) \in 0 .. WordSize - 1
    BY SizesAssumption DEF Pmm!Dec, IInv, TypeInv, Pmm!PmmTypeOK
  <2>2. Pmm!HintAfterFree(frame) \in 0 .. NumPages
    BY <1>4, SizesAssumption DEF Pmm!HintAfterFree, Pmm!Page, IInv, TypeInv, Pmm!PmmTypeOK
  <2> QED  BY <1>1, <1>5, <2>1, <2>2 DEF IInv, TypeInv, Pmm!PmmTypeOK
<1>8. TypeInv'
  BY <1>1, <1>2, <1>7 DEF IInv, TypeInv
<1>9. AllocInv'
  BY <1>1, <1>4, <1>5, <1>6 DEF IInv, AllocInv
<1>10. WellFormed(table)'
  BY <1>1 DEF IInv
<1>11. UseInv'
  BY <1>1, <1>2, <1>3, <1>5 DEF UseInv
<1>12. WalkInv' /\ FaultInv'
  BY <1>1 DEF WalkInv, FaultInv
<1>13. TlbInv' /\ FixedInv'
  BY <1>1 DEF IInv, TlbInv, FixedInv
<1> QED  BY <1>8, <1>9, <1>10, <1>11, <1>12, <1>13 DEF IInv

LEMMA StutterIInv ==
  ASSUME IInv, UNCHANGED vars
  PROVE  IInv'
<1>1. UNCHANGED <<ready, page_bitmap, total_pages, used_pages, next_free_page, ret,
                  allocated, kpc, pml4, table, cpu, access, walk, held, tlb>>
  BY DEF vars, vmVars, pmmState
<1>2. TypeInv' /\ AllocInv'
  BY <1>1 DEF IInv, TypeInv, Pmm!PmmTypeOK, AllocInv
<1>3. WellFormed(table)' /\ UseInv'
  BY <1>1 DEF IInv, UseInv
<1>4. WalkInv' /\ FaultInv'
  BY <1>1 DEF IInv, WalkInv, FaultInv
<1>5. TlbInv' /\ FixedInv'
  BY <1>1 DEF IInv, TlbInv, FixedInv
<1> QED  BY <1>2, <1>3, <1>4, <1>5 DEF IInv

LEMMA NextIInv == IInv /\ [Next]_vars => IInv'
<1> SUFFICES ASSUME IInv, [Next]_vars PROVE IInv'
  OBVIOUS
<1>1. CASE SetupPaging
  BY <1>1, SetupPagingIInv
<1>2. CASE InitPmm
  BY <1>2, InitPmmIInv
<1>3. CASE Access
  <2>1. PICK va \in VPage, write \in BOOLEAN : Execute(va, write)
    BY <1>3 DEF Access
  <2>2. cpu = "idle"
    BY <1>3 DEF Access, Idle
  <2> QED  BY <2>1, <2>2, ExecuteIInv
<1>4. CASE Retry
  <2>1. cpu = "idle" /\ Execute(access.va, access.write) /\ access # Nothing
    BY <1>4 DEF Retry
  <2>2. access.va \in VPage /\ access.write \in BOOLEAN
    BY <2>1 DEF IInv, TypeInv, AccessType
  <2> QED  BY <2>1, <2>2, ExecuteIInv
<1>5. CASE ExceptionHandler
  BY <1>5, ExceptionHandlerIInv
<1>6. CASE FollowEntry
  BY <1>6, FollowEntryIInv
<1>7. CASE InstallTable
  BY <1>7, InstallTableIInv
<1>8. CASE SetLeaf
  BY <1>8, SetLeafIInv
<1>9. CASE ClientAllocate
  BY <1>9, ClientAllocateIInv
<1>10. CASE ClientMap
  BY <1>10, ClientMapIInv
<1>11. CASE ClientUnmap
  BY <1>11, ClientUnmapIInv
<1>12. CASE ClientFree
  BY <1>12, ClientFreeIInv
<1>13. CASE Hlt \/ UNCHANGED vars
  BY <1>13, StutterIInv DEF Hlt
<1> QED
  BY <1>1, <1>2, <1>3, <1>4, <1>5, <1>6, <1>7, <1>8, <1>9, <1>10, <1>11, <1>12, <1>13
  DEF Next, KernelStep, MapPageStep, ClientStep

-----------------------------------------------------------------------------
(* Theorems *)

\* The invariant the others follow from: what map_page has walked through,
\* what the allocator has handed out and what the tables point at fit
\* together in every state (paging.c:104-207, interrupts.c:160-185).
THEOREM Invariance == Spec => []IInv
BY InitIInv, NextIInv, PTL DEF Spec

\* Every variable keeps the type the C code gives it.
THEOREM TypeCorrect == Spec => []VmTypeOK
<1>1. IInv => VmTypeOK
  BY DEF IInv, TypeInv, WellFormed, Mem, VmTypeOK, WalkType, AccessType, Entry
<1> QED  BY <1>1, Invariance, PTL

\* Apart from the loader's direct map, through which map_page itself writes
\* (paging.c:9-11) and which may reach any frame any number of times, the
\* tables stay a tree, whatever is mapped, unmapped, freed and handed out
\* again: map_page clears a table before it links it (paging.c:121, 138, 156),
\* and a page is mapped only while no table points at it.
THEOREM TablesAreATree == Spec => []PageTree
<1>1. IInv => PageTree
  BY DEF IInv, WellFormed, PageTree
<1> QED  BY <1>1, Invariance, PTL

\* allocate_page never hands out a page table, a page somebody holds or one
\* that is mapped other than by the direct map (paging.c:65-84).
THEOREM NothingLiveIsFree == Spec => []ReachableNotFree
<1>1. IInv => ReachableNotFree
  BY DEF IInv, AllocInv, UseInv, ReachableNotFree
<1> QED  BY <1>1, Invariance, PTL

\* No fault before pmm_init gets as far as the tables: it halts
\* (interrupts.c:169-173).
THEOREM NoEarlyMapping == Spec => []NoMappingBeforePmm
<1>1. IInv => NoMappingBeforePmm
  BY DEF IInv, AllocInv, NoMappingBeforePmm
<1> QED  BY <1>1, Invariance, PTL

\* A translation the processor has cached is the one the tables hold: map_page
\* and unmap_page invalidate each page whose leaf they change (paging.c:174,
\* 202), and no other page's translation changes with it.
THEOREM CacheAgrees == Spec => []TlbCoherent
<1>1. IInv => TlbCoherent
  <2>1. SUFFICES ASSUME IInv, pml4 # NoFrame, NEW va \in VPage
                 PROVE  /\ Present(tlb[va]) => tlb[va].frame = GetPhysicalAddress(va)
                        /\ GetPhysicalAddress(va) = MmuWalk(table, va).frame
    BY DEF TlbCoherent
  <2> QED  BY <2>1, GetPhysicalAddressIsWalk DEF IInv, TlbInv
<1> QED  BY <1>1, Invariance, PTL

\* When map_page, called by the handler, has written the leaf, the access that
\* faulted goes through (interrupts.c:177).
THEOREM RepairsTheFault == Spec => FaultRepaired
<1> DEFINE Repaired ==
      SetLeaf /\ access # Nothing => Allows(Translation(access.va)', access.write)
<1>1. ASSUME IInv, [Next]_vars
      PROVE  [Repaired]_vars
  <2>1. SUFFICES ASSUME SetLeaf, access # Nothing
                 PROVE  Allows(Translation(access.va)', access.write)
    OBVIOUS
  <2>2. /\ cpu = "walk" /\ walk \in WalkType
        /\ access' = access /\ tlb' = [tlb EXCEPT ![walk.va] = Absent]
        /\ MmuWalk(table', walk.va) = Leaf
        /\ Present(Leaf) /\ Leaf.rw = walk.rw
    BY <1>1, <2>1, SetLeafEffect
  <2>3. walk.va = access.va /\ walk.rw /\ walk.va \in VPage
    BY <1>1, <2>1, <2>2 DEF IInv, WalkInv, WalkType
  <2>4. ~Present(tlb'[walk.va])
    BY <1>1, <2>2, <2>3, EmptyLeaf DEF IInv, TypeInv
  <2>5. Translation(access.va)' = Leaf
    BY <2>2, <2>3, <2>4 DEF Translation
  <2> QED  BY <2>2, <2>3, <2>5 DEF Allows
<1>2. IInv /\ [Next]_vars => [Repaired]_vars
  BY <1>1
<1> QED  BY <1>2, Invariance, PTL DEF Spec, FaultRepaired

-----------------------------------------------------------------------------
(* Leaks *)

\* The frame map_page is about to write.
InHand == IF cpu = "walk" THEN {walk.frame} ELSE {}

LEMMA LeakedInHand == Leaked = allocated \ (Used(table) \cup held \cup InHand)
BY DEF Leaked, InHand

\* A step that keeps every frame in some place loses none.
LEMMA NothingLost ==
  ASSUME \A x \in allocated' :
           \/ x \in Used(table') \cup held' \cup InHand'
           \/ x \in allocated /\ x \notin Used(table) \cup held \cup InHand
  PROVE  Leaked' \subseteq Leaked
<1>1. Leaked' = allocated' \ (Used(table') \cup held' \cup InHand')
  BY DEF Leaked, InHand
<1> QED  BY <1>1, LeakedInHand

\* The step that may lose a page is one of three: map_page returning without
\* a word, map_page replacing a mapping, or map_page called before
\* setup_paging found the root table.
THEOREM OnlyKnownLeaks == Spec => LeaksAreKnown
<1> DEFINE Known == \/ Leaked' \subseteq Leaked
                    \/ pml4 = NoFrame
                    \/ InstallTable /\ ret' = NoFrame
                    \/ SetLeaf /\ Present(WalkEntry)
<1>1. ASSUME IInv, Next
      PROVE  Known
  <2>1. SUFFICES ASSUME pml4 # NoFrame,
                        ~(InstallTable /\ ret' = NoFrame),
                        ~(SetLeaf /\ Present(WalkEntry))
                 PROVE  Leaked' \subseteq Leaked
    BY <1>1
  <2>2. CASE SetupPaging \/ InitPmm
    <3>1. /\ cpu = "idle" /\ UNCHANGED <<allocated, table, held, cpu>>
      BY <2>2 DEF SetupPaging, InitPmm, Pmm!PmmInit, pmmState, Idle
    <3> QED  BY <3>1 DEF Leaked
  <2>3. ASSUME cpu = "idle", NEW va, NEW write, Execute(va, write)
        PROVE  Leaked' \subseteq Leaked
    <3>1. cpu' # "walk" /\ UNCHANGED <<allocated, table, held>>
      BY <2>3 DEF Execute, pmmState
    <3> QED  BY <2>3, <3>1 DEF Leaked
  <2>4. CASE Access
    BY <2>3, <2>4 DEF Access, Idle
  <2>5. CASE Retry
    BY <2>3, <2>5 DEF Retry
  <2>6. CASE ExceptionHandler
    <3>1. /\ cpu = "fault" /\ Pmm!AllocatePage
          /\ UNCHANGED <<ready, table, held>>
          /\ ret' # NoFrame => cpu' = "walk" /\ walk'.frame = ret'
      BY <2>1, <2>6 DEF ExceptionHandler, CallMapPage
    <3>2. Pmm!PmmTypeOK /\ AllocInv
      BY <1>1 DEF IInv, TypeInv
    <3>3. allocated' \subseteq allocated \cup ({ret'} \ {NoFrame})
      <4>1. CASE ready
        BY <3>1, <3>2, <4>1, AllocateReady
      <4>2. CASE ~ready
        BY <3>1, <3>2, <4>2, AllocateEarly
      <4> QED  BY <4>1, <4>2
    <3>4. InHand = {} /\ (ret' # NoFrame => InHand' = {ret'})
      BY <3>1 DEF InHand
    <3> QED  BY <3>1, <3>3, <3>4, NothingLost
  <2>7. CASE FollowEntry
    <3>1. /\ cpu = "walk" /\ walk \in WalkType
          /\ walk' = [walk EXCEPT !.level = walk.level - 1, !.at = WalkEntry.frame]
          /\ UNCHANGED <<allocated, table, cpu, held>>
      BY <1>1, <2>7 DEF FollowEntry, Descend, pmmState, IInv, TypeInv
    <3>2. walk'.frame = walk.frame
      BY <3>1 DEF WalkType
    <3> QED  BY <3>1, <3>2 DEF Leaked
  <2>8. CASE InstallTable
    <3>1. /\ cpu = "walk" /\ held' = held
          /\ allocated' = allocated \cup {ret'}
          /\ cpu' = "walk" /\ walk'.frame = walk.frame
          /\ Used(table') = Used(table) \cup {ret'}
      BY <1>1, <2>1, <2>8, InstallTableEffect
    <3> QED  BY <3>1 DEF Leaked
  <2>9. CASE SetLeaf
    <3>1. /\ cpu = "walk" /\ cpu' = "idle" /\ allocated' = allocated
          /\ held' = held \ {walk.frame}
          /\ walk.frame \in Used(table')
          /\ \A x \in Used(table) : x \in Used(table')
      BY <1>1, <2>1, <2>9, SetLeafEffect
    <3>2. InHand = {walk.frame}
      BY <3>1 DEF InHand
    <3> QED  BY <3>1, <3>2, NothingLost
  <2>10. CASE ClientAllocate
    <3>1. /\ cpu = "idle" /\ ready /\ Pmm!AllocatePage
          /\ held' = held \cup ({ret'} \ {NoFrame})
          /\ UNCHANGED <<table, cpu>>
      BY <2>10 DEF ClientAllocate, Idle
    <3>2. allocated' \subseteq allocated \cup ({ret'} \ {NoFrame})
      BY <1>1, <3>1, AllocateReady DEF IInv, TypeInv
    <3>3. InHand = {}
      BY <3>1 DEF InHand
    <3> QED  BY <3>1, <3>2, <3>3, NothingLost
  <2>11. CASE ClientMap
    <3>1. cpu = "idle" /\ UNCHANGED <<allocated, table, held>>
      BY <2>11 DEF ClientMap, Idle, pmmState
    <3> QED  BY <3>1 DEF Leaked
  <2>12. CASE ClientUnmap
    <3>1. cpu = "idle" /\ UNCHANGED <<allocated, cpu>>
      BY <2>12 DEF ClientUnmap, Idle, pmmState
    <3>2. PICK va \in VPage :
            /\ ~Direct(table, va)
            /\ UnmapPage(va)
            /\ held' = held \cup (IF Huge(va) THEN {} ELSE {GetPhysicalAddress(va)} \cap allocated)
      BY <2>12 DEF ClientUnmap
    <3>3. PICK back : back = IF Huge(va) THEN {} ELSE {GetPhysicalAddress(va)} \cap allocated
      OBVIOUS
    <3>4. \/ back = {} /\ UNCHANGED <<table, tlb>>
          \/ \A x \in Used(table) : x \in Used(table') \/ x \in back \/ x \notin allocated
      BY <1>1, <3>2, <3>3, UnmapPageEffect
    <3>5. held' = held \cup back /\ InHand = {}
      BY <3>1, <3>2, <3>3 DEF InHand
    <3> QED  BY <3>1, <3>4, <3>5, NothingLost
  <2>13. CASE ClientFree
    <3>1. /\ cpu = "idle" /\ UNCHANGED <<table, cpu>>
      BY <2>13 DEF ClientFree, Idle
    <3>2. PICK frame \in held : Pmm!FreePage(frame) /\ held' = held \ {frame}
      BY <2>13 DEF ClientFree
    <3>3. frame \in Pmm!Page
      BY <1>1 DEF IInv, TypeInv
    <3>4. allocated' = allocated \ {frame}
      BY <3>2, <3>3, SizesAssumption DEF Pmm!FreePage, Pmm!Page
    <3> QED  BY <3>1, <3>2, <3>4 DEF Leaked
  <2>14. CASE Hlt
    BY <2>14 DEF Hlt, vars, vmVars, pmmState, Leaked
  <2> QED
    BY <1>1, <2>2, <2>4, <2>5, <2>6, <2>7, <2>8, <2>9, <2>10, <2>11, <2>12, <2>13, <2>14
    DEF Next, KernelStep, MapPageStep, ClientStep
<1>2. IInv /\ [Next]_vars => [Known]_vars
  BY <1>1
<1> QED  BY <1>2, Invariance, PTL DEF Spec, LeaksAreKnown

-----------------------------------------------------------------------------
(* The address space *)

\* A page that is neither part of a huge one nor in the direct map is mapped
\* to a frame below the root, or to nothing.
LEMMA SmallPagesAreUsed ==
  ASSUME NEW mem, WellFormed(mem), NEW va \in VirtualAddress,
         ~MmuWalk(mem, va).huge, ~Direct(mem, va)
  PROVE  MmuWalk(mem, va).frame = 0 \/ MmuWalk(mem, va).frame \in Used(mem)
<1>1. 1 \in Level /\ IdxAt(va, 1) \in Index
  BY IndexTyped DEF Level
<1>2. CASE MmuWalk(mem, va) = Absent
  BY <1>2 DEF Absent
<1>3. CASE MmuWalk(mem, va) # Absent
  <2>1. /\ Present(Pml4e(mem, va))
        /\ Present(Pdpte(mem, va)) /\ ~Pdpte(mem, va).huge
        /\ Present(Pde(mem, va)) /\ ~Pde(mem, va).huge
        /\ Present(Pte(mem, va))
    BY <1>3 DEF MmuWalk, Mapping
  <2>2. PICK at : at = Pde(mem, va).frame
    OBVIOUS
  <2>3. OnPath(mem, va, 1, at) /\ at \in Pts(mem)
    BY <2>1, <2>2, PathTables DEF OnPath
  <2>4. MmuWalk(mem, va) = mem[at][IdxAt(va, 1)]
    BY <2>3, LeafWalk
  <2>5. Counts(mem, at, IdxAt(va, 1))
    <3>1. <<at, IdxAt(va, 1)>> \notin DirectSlot
      BY <2>1, <2>2 DEF Direct, HasPt
    <3> QED  BY <1>3, <2>4, <3>1 DEF Counts, Links, Present
  <2> QED  BY <1>1, <2>3, <2>4, <2>5, InUsed DEF Tables
<1> QED  BY <1>2, <1>3

LEMMA SpaceStep ==
  ASSUME IInv, [Next]_vars
  PROVE  AS!Changes(Space, Space') \/ Space' = Space
<1>1. CASE UNCHANGED table
  BY <1>1 DEF Space
<1>2. ASSUME NEW va \in VPage, NEW e \in Entry, ~e.huge,
             ~MmuWalk(table, va).huge, ~Direct(table, va),
             MmuWalk(table', va) = e,
             \A v \in VPage : v # va => MmuWalk(table', v) = MmuWalk(table, v),
             e.frame = 0 \/ (e.frame \in Pmm!Page \ {0} /\ e.frame \notin Used(table))
      PROVE  AS!Changes(Space, Space')
  <2>1. va \in AS!Managed
    BY <1>2 DEF AS!Managed, IInv, FixedInv
  <2>2. Space' = [Space EXCEPT ![va] = Space'[va]] /\ Space'[va] = e.frame
    BY <1>2 DEF Space
  <2>3. ASSUME e.frame # 0, NEW w \in AS!Managed \ {va}
        PROVE  Space[w] # e.frame
    <3>1. w \in VPage /\ ~MmuWalk(table, w).huge /\ ~Direct(table, w)
      BY <2>3 DEF AS!Managed, IInv, FixedInv
    <3>2. MmuWalk(table, w).frame = 0 \/ MmuWalk(table, w).frame \in Used(table)
      BY <3>1, SmallPagesAreUsed, VPageAddress DEF IInv
    <3> QED  BY <1>2, <2>3, <3>1, <3>2 DEF Space
  <2> QED  BY <1>2, <2>1, <2>2, <2>3 DEF AS!Changes
<1>3. CASE InstallTable
  BY <1>3, InstallTableEffect, VPageAddress DEF Space
<1>4. CASE SetLeaf
  <2>1. /\ walk \in WalkType /\ cpu = "walk"
        /\ Leaf \in Entry /\ ~Leaf.huge /\ Leaf.frame = walk.frame
        /\ MmuWalk(table', walk.va) = Leaf
        /\ \A v \in VirtualAddress :
             v # walk.va => MmuWalk(table', v) = MmuWalk(table, v)
    BY <1>4, SetLeafEffect
  <2>2. /\ walk.va \in VPage /\ ~MmuWalk(table, walk.va).huge /\ ~Direct(table, walk.va)
        /\ walk.frame \in Pmm!Page /\ walk.frame \notin Used(table)
    BY <2>1 DEF IInv, WalkInv, UseInv, WalkType
  <2> QED  BY <1>2, <2>1, <2>2, VPageAddress
<1>5. CASE ClientUnmap
  <2>1. PICK va \in VPage : ~Direct(table, va) /\ UnmapPage(va)
    BY <1>5 DEF ClientUnmap
  <2>2. PICK back : back = IF Huge(va) THEN {} ELSE {GetPhysicalAddress(va)} \cap allocated
    OBVIOUS
  <2>3. \/ UNCHANGED table
        \/ /\ ~MmuWalk(table, va).huge
           /\ MmuWalk(table', va) = Absent
           /\ \A v \in VirtualAddress : v # va => MmuWalk(table', v) = MmuWalk(table, v)
    BY <2>1, <2>2, UnmapPageEffect
  <2>4. Absent.frame = 0
    BY DEF Absent
  <2> QED  BY <1>1, <1>2, <2>1, <2>3, <2>4, EmptyLeaf, VPageAddress
<1>6. CASE \/ SetupPaging \/ InitPmm \/ Access \/ Retry \/ ExceptionHandler
           \/ FollowEntry \/ ClientAllocate \/ ClientMap \/ ClientFree
           \/ Hlt \/ UNCHANGED vars
  <2>1. UNCHANGED table
    BY <1>6 DEF SetupPaging, InitPmm, Access, Retry, Execute, ExceptionHandler,
       FollowEntry, ClientAllocate, ClientMap, ClientFree, Hlt, vars, vmVars
  <2> QED  BY <1>1, <2>1
<1> QED  BY <1>3, <1>4, <1>5, <1>6 DEF Next, KernelStep, MapPageStep, ClientStep

\* The page tables implement an address space: a step changes the translation
\* of at most one page, never one of the loader's map of physical memory,
\* whether its entries are huge or not, and maps it to a frame no other page
\* outside that map has (paging.c:104-207).
THEOREM TablesImplementAddressSpace == Spec => ImplementsAddressSpace
<1>1. Init => AS!Init
  BY LoaderWalk, VPageAddress DEF Init, AS!Init, Space, LoaderSpace
<1>2. IInv /\ [Next]_vars => [AS!Next]_Space
  BY SpaceStep DEF AS!Next
<1> QED  BY <1>1, <1>2, Invariance, PTL DEF Spec, ImplementsAddressSpace, AS!Spec

=============================================================================

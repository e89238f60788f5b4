--------------------------- MODULE VirtualMemory ---------------------------
(***************************************************************************)
(* The four-level page tables of src/src/paging.c, the page-fault branch   *)
(* of exception_handler (src/src/interrupts.c), which is map_page's only   *)
(* caller in the kernel, and the part of kmain that sets both up.          *)
(*                                                                         *)
(* There is one processor.  It is executing an instruction that touches a  *)
(* virtual page, or the handler, or map_page (one action per level of the  *)
(* walk, since each may run out of memory and return half way), or it has  *)
(* halted.  The TLB is the processor's own cache of translations.          *)
(*                                                                         *)
(* Frames are page numbers, and a frame's contents are looked at only as a *)
(* table of N entries.  phys_to_virt is the identity on frames: the kernel *)
(* reaches a table through the loader's direct map of physical memory,     *)
(* which is part of the tables, with huge entries and, where these do not  *)
(* fit, the 4 KiB entries of DirectSlot.                                   *)
(***************************************************************************)
EXTENDS Integers, FiniteSets

CONSTANTS
  NumPages, Memmap, WordSize,   \* as in PageAllocator
  N,               \* ENTRIES_PER_TABLE
  VPage,           \* the virtual pages of interest: tuples of four indices
  Root,            \* the frame cr3 points at when the loader enters kmain
  LoaderTable,     \* the loader's tables: frame -> table
  DirectSlot,      \* its page-table entries of the direct map: <<table, index>>
  MaxHeld          \* bound: frames a client allocates before it maps them

Index == 0 .. N - 1
Level == 1 .. 4                    \* 4: pml4, 3: pdpt, 2: pd, 1: pt
Entry == [frame : Nat, rw : BOOLEAN, huge : BOOLEAN]
Absent == [frame |-> 0, rw |-> FALSE, huge |-> FALSE]
NoFrame == 0
Nothing == [va |-> <<>>]

VARIABLES
  ready, page_bitmap, total_pages, used_pages, next_free_page, ret, allocated,
  kpc,             \* how far kmain has got: "setup", "pmm" or "run"
  pml4,            \* the kernel's pointer to the root table, or NULL
  table,           \* contents of physical memory, as tables
  cpu,             \* "idle", "fault", "walk" or "halted"
  access,          \* the access that faulted, until it goes through
  walk,            \* the locals of map_page
  held,            \* frames an (external) client of paging.c holds
  tlb              \* what the processor has cached: VPage -> entry

Pmm == INSTANCE PageAllocator

pmmState == <<ready, page_bitmap, total_pages, used_pages, next_free_page, ret,
              allocated>>
vmVars == <<kpc, pml4, table, cpu, access, walk, held, tlb>>
vars == <<pmmState, vmVars>>

IdxAt(va, level) == va[5 - level]

-----------------------------------------------------------------------------
(* Translation *)

Present(e) == e # Absent

\* The entries of va, following pml4e->address, pdpte->address, ... whatever
\* they point at.
Pml4e(mem, va) == mem[Root][IdxAt(va, 4)]
Pdpte(mem, va) == mem[Pml4e(mem, va).frame][IdxAt(va, 3)]
Pde(mem, va)   == mem[Pdpte(mem, va).frame][IdxAt(va, 2)]
Pte(mem, va)   == mem[Pde(mem, va).frame][IdxAt(va, 1)]

\* The page number under a huge entry of the pd or of the pdpt.
InHugePd(e, va)   == e.frame + IdxAt(va, 1)
InHugePdpt(e, va) == e.frame + IdxAt(va, 2) * N + IdxAt(va, 1)

\* The walk along va goes down to a page table; its entry there is one of
\* the direct map's.
HasPt(mem, va) ==
  /\ Present(Pml4e(mem, va))
  /\ Present(Pdpte(mem, va)) /\ ~Pdpte(mem, va).huge
  /\ Present(Pde(mem, va)) /\ ~Pde(mem, va).huge
Direct(mem, va) ==
  HasPt(mem, va) /\ <<Pde(mem, va).frame, IdxAt(va, 1)>> \in DirectSlot

\* get_physical_address, as a page number; 0 for "not mapped".
GetPhysicalAddress(va) ==
  IF pml4 = NoFrame \/ ~Present(Pml4e(table, va)) THEN 0
  ELSE LET pdpte == Pdpte(table, va) IN
    IF ~Present(pdpte) THEN 0
    ELSE IF pdpte.huge THEN InHugePdpt(pdpte, va)
    ELSE LET pde == Pde(table, va) IN
      IF ~Present(pde) THEN 0
      ELSE IF pde.huge THEN InHugePd(pde, va)
      ELSE Pte(table, va).frame

\* What the processor's own walk finds (this is not the kernel's code): a
\* page, writable if every entry on the way is.
Mapping(frame, rw, huge) == [frame |-> frame, rw |-> rw, huge |-> huge]
MmuWalk(mem, va) ==
  LET e4 == Pml4e(mem, va)
      e3 == Pdpte(mem, va)
      e2 == Pde(mem, va)
      e1 == Pte(mem, va)
  IN  IF ~Present(e4) \/ ~Present(e3) THEN Absent
      ELSE IF e3.huge
        THEN Mapping(InHugePdpt(e3, va), e4.rw /\ e3.rw, TRUE)
      ELSE IF ~Present(e2) THEN Absent
      ELSE IF e2.huge
        THEN Mapping(InHugePd(e2, va), e4.rw /\ e3.rw /\ e2.rw, TRUE)
      ELSE IF ~Present(e1) THEN Absent
      ELSE Mapping(e1.frame, e4.rw /\ e3.rw /\ e2.rw /\ e1.rw, FALSE)

Allows(e, write) == Present(e) /\ (write => e.rw)

\* Memory nobody has cleared yet may read as anything: here, as entries that
\* all point at the root table.
JunkTable == [i \in Index |-> [frame |-> Root, rw |-> TRUE, huge |-> FALSE]]

\* Mutation: map_page does not clear the table it allocated.
UnclearedTable == JunkTable

\* What map_page fills a new table with.
EmptyTable == [i \in Index |-> Absent]

-----------------------------------------------------------------------------
(* The tree of tables *)

\* The entries of a set of tables that point at a table or a 4 KiB page, and
\* the frames they point at.
SlotsOf(mem, tables) ==
  {s \in tables \X Index : Present(mem[s[1]][s[2]]) /\ ~mem[s[1]][s[2]].huge}
FrameAt(mem, s) == mem[s[1]][s[2]].frame
Below(mem, tables) == {FrameAt(mem, s) : s \in SlotsOf(mem, tables)}

\* The reachable tables of the levels 3, 2 and 1.
Pdpts(mem) == Below(mem, {Root})
Pds(mem)   == Below(mem, Pdpts(mem))
Pts(mem)   == Below(mem, Pds(mem))
Tables(mem) == {Root} \cup Pdpts(mem) \cup Pds(mem) \cup Pts(mem)

\* The reachable entries of all four levels but the direct map's, which may
\* point at any frame, and the tables and pages they point at.
Slots(mem) == SlotsOf(mem, Tables(mem)) \ DirectSlot
Used(mem) == {FrameAt(mem, s) : s \in Slots(mem)}

IsTree(mem) ==
  /\ \A s, t \in Slots(mem) : FrameAt(mem, s) = FrameAt(mem, t) => s = t
  /\ Root \notin Used(mem)

-----------------------------------------------------------------------------
(***************************************************************************)
(* What the loader (the Limine protocol) hands over.  Page 0 is not        *)
(* usable.  Apart from the direct map the tables are a tree that lies,     *)
(* like the pages of the kernel, in memory that is not usable.  The direct *)
(* map's entries are writable and point anywhere: at the tables themselves *)
(* and at the memory allocate_page hands out, once or more often.  Only    *)
(* entries of the two middle levels are huge, and only a page's own entry  *)
(* may be read-only.                                                       *)
(***************************************************************************)
LoaderMemory ==
  [p \in Pmm!Page |-> IF p \in DOMAIN LoaderTable THEN LoaderTable[p] ELSE JunkTable]

OnlyMiddleHuge(mem) ==
  \A p \in {Root} \cup Pts(mem), i \in Index : ~mem[p][i].huge

OnlyPagesReadOnly(mem) ==
  \A p \in {Root} \cup Pdpts(mem) \cup Pds(mem), i \in Index :
    Present(mem[p][i]) => mem[p][i].rw

\* The direct map's 4 KiB entries: in page tables, present and writable.
DirectMapped(mem) ==
  \A s \in DirectSlot :
    /\ s \in (Pts(mem) \ ({Root} \cup Pdpts(mem) \cup Pds(mem))) \X Index
    /\ Present(mem[s[1]][s[2]]) /\ mem[s[1]][s[2]].rw

ASSUME SizesAssumption ==
  /\ NumPages \in Nat \ {0} /\ N \in Nat \ {0}
  /\ WordSize \in Nat /\ WordSize > NumPages
  /\ VPage \subseteq [1 .. 4 -> Index]

ASSUME MemmapAssumption ==
  /\ IsFiniteSet(Memmap)
  /\ \A e \in Memmap : e.base \in Nat /\ e.length \in Nat /\ e.usable \in BOOLEAN
  /\ 0 \notin Pmm!UsablePage

ASSUME LoaderAssumption ==
  /\ Root \in Pmm!Page \ {0}
  /\ DOMAIN LoaderTable \subseteq Pmm!Page
  /\ \A p \in DOMAIN LoaderTable : LoaderTable[p] \in [Index -> Entry]
  /\ Tables(LoaderMemory) \subseteq DOMAIN LoaderTable
  /\ {Root} \cup Used(LoaderMemory) \subseteq Pmm!Page \ Pmm!UsablePage
  /\ IsTree(LoaderMemory)
  /\ OnlyMiddleHuge(LoaderMemory) /\ OnlyPagesReadOnly(LoaderMemory)
  /\ DirectMapped(LoaderMemory)

-----------------------------------------------------------------------------
Init ==
  /\ Pmm!PmmStart
  /\ kpc = "setup"
  /\ pml4 = NoFrame
  /\ table = LoaderMemory
  /\ cpu = "idle"
  /\ access = Nothing
  /\ walk = Nothing
  /\ held = {}
  /\ tlb = [va \in VPage |-> Absent]

Idle == cpu = "idle" /\ access = Nothing

\* setup_paging: if the loader did not answer the HHDM request, pml4 stays
\* NULL.
SetupPaging ==
  /\ Idle /\ kpc = "setup"
  /\ kpc' = "pmm"
  /\ pml4' \in {Root, NoFrame}
  /\ UNCHANGED <<pmmState, table, cpu, access, walk, held, tlb>>

\* kmain calls pmm_init, which returns at once if the loader sent no memory
\* map.
InitPmm ==
  /\ Idle /\ kpc = "pmm"
  /\ kpc' = "run"
  /\ Pmm!PmmInit \/ UNCHANGED pmmState
  /\ UNCHANGED <<pml4, table, cpu, access, walk, held, tlb>>

-----------------------------------------------------------------------------
(* The processor *)

Translation(va) == IF Present(tlb[va]) THEN tlb[va] ELSE MmuWalk(table, va)

\* An instruction reads or writes a virtual page.  It goes through and its
\* translation is cached, or it faults, on an absent page or a protected one,
\* which drops the page's cached translation.
Execute(va, write) ==
  /\ IF Allows(Translation(va), write)
       THEN /\ tlb' = [tlb EXCEPT ![va] = Translation(va)]
            /\ access' = Nothing
            /\ cpu' = "idle"
       ELSE /\ tlb' = [tlb EXCEPT ![va] = Absent]
            /\ access' = [va |-> va, write |-> write]
            /\ cpu' = "fault"
  /\ UNCHANGED <<pmmState, kpc, pml4, table, walk, held>>

Access == Idle /\ \E va \in VPage, write \in BOOLEAN : Execute(va, write)

\* The handler has returned: the instruction that faulted runs again.
Retry ==
  /\ cpu = "idle" /\ access # Nothing
  /\ Execute(access.va, access.write)

-----------------------------------------------------------------------------
(* map_page *)

\* The call: nothing happens while pml4 is NULL.
CallMapPage(va, frame, rw) ==
  IF pml4 = NoFrame
    THEN /\ cpu' = "idle"
         /\ walk' = Nothing
    ELSE /\ cpu' = "walk"
         /\ walk' = [va |-> va, frame |-> frame, rw |-> rw,
                     level |-> 4, at |-> pml4]

ReturnFromMapPage == cpu' = "idle" /\ walk' = Nothing

\* Mutation: the changed page's cached translation stays.
NoInvlpg(va) == UNCHANGED tlb

\* invlpg: the processor forgets the page's translation.
Invlpg(va) == tlb' = [tlb EXCEPT ![va] = Absent]

WalkIndex == IdxAt(walk.va, walk.level)
WalkEntry == table[walk.at][WalkIndex]

Descend(frame) == walk' = [walk EXCEPT !.level = walk.level - 1, !.at = frame]

\* The entry is there: its page_size bit is not looked at.
FollowEntry ==
  /\ cpu = "walk" /\ walk.level > 1
  /\ Present(WalkEntry)
  /\ Descend(WalkEntry.frame)
  /\ UNCHANGED <<pmmState, kpc, pml4, table, cpu, access, held, tlb>>

\* The entry is missing: allocate, clear and install a table, or return.
InstallTable ==
  /\ cpu = "walk" /\ walk.level > 1
  /\ ~Present(WalkEntry)
  /\ Pmm!AllocatePage
  /\ IF ret' = NoFrame
       THEN /\ ReturnFromMapPage
            /\ UNCHANGED table
       ELSE /\ table' = [table EXCEPT
                           ![ret'] = EmptyTable,
                           ![walk.at][WalkIndex] = Mapping(ret', TRUE, FALSE)]
            /\ Descend(ret')
            /\ UNCHANGED cpu
  /\ UNCHANGED <<ready, kpc, pml4, access, held, tlb>>

\* Mutation: the caller's flags are not copied into the entry.
ReadOnlyLeaf == Mapping(walk.frame, FALSE, FALSE)

Leaf == Mapping(walk.frame, walk.rw, FALSE)

\* The leaf: the entry is written whatever it held, and the page's cached
\* translation dropped (invlpg).
SetLeaf ==
  /\ cpu = "walk" /\ walk.level = 1
  /\ table' = [table EXCEPT ![walk.at][WalkIndex] = Leaf]
  /\ Invlpg(walk.va)
  /\ held' = held \ {walk.frame}
  /\ ReturnFromMapPage
  /\ UNCHANGED <<pmmState, kpc, pml4, access>>

MapPageStep == FollowEntry \/ InstallTable \/ SetLeaf

-----------------------------------------------------------------------------
(* exception_handler, vector 14 *)

\* Mutation: page 0 is not taken for a failure.
ExceptionHandlerUnchecked ==
  /\ cpu = "fault"
  /\ Pmm!AllocatePage
  /\ CallMapPage(access.va, ret', TRUE)
  /\ UNCHANGED <<ready, kpc, pml4, table, access, held, tlb>>

\* Mutation: without a page the handler returns instead of halting.
ExceptionHandlerReturns ==
  /\ cpu = "fault"
  /\ Pmm!AllocatePage
  /\ IF ret' = NoFrame
       THEN ReturnFromMapPage
       ELSE CallMapPage(access.va, ret', TRUE)
  /\ UNCHANGED <<ready, kpc, pml4, table, access, held, tlb>>

\* A fresh page is mapped, writable, whatever the error code says; without
\* one the processor halts with interrupts off.
ExceptionHandler ==
  /\ cpu = "fault"
  /\ Pmm!AllocatePage
  /\ IF ret' = NoFrame
       THEN cpu' = "halted" /\ UNCHANGED walk
       ELSE CallMapPage(access.va, ret', TRUE)
  /\ UNCHANGED <<ready, kpc, pml4, table, access, held, tlb>>

Hlt == cpu = "halted" /\ UNCHANGED vars

-----------------------------------------------------------------------------
(* Clients of paging.h.  The kernel has none yet; they use it as it is     *)
(* meant to be used: they map frames they allocated, free a frame only     *)
(* after unmapping it, and leave the direct map alone.                     *)

Huge(va) == MmuWalk(table, va).huge

ClientAllocate ==
  /\ Idle /\ ready
  /\ Cardinality(held) < MaxHeld
  /\ Pmm!AllocatePage
  /\ held' = held \cup ({ret'} \ {NoFrame})
  /\ UNCHANGED <<ready, kpc, pml4, table, cpu, access, walk, tlb>>

ClientMap ==
  /\ Idle
  /\ \E va \in VPage, frame \in held, rw \in BOOLEAN :
       ~Huge(va) /\ ~Direct(table, va) /\ CallMapPage(va, frame, rw)
  /\ UNCHANGED <<pmmState, kpc, pml4, table, access, held, tlb>>

\* Mutation: the page directory's entry is cleared, not the page table's.
UnmapTable(va) ==
  IF pml4 # NoFrame /\ HasPt(table, va)
    THEN /\ table' = [table EXCEPT
                        ![Pdpte(table, va).frame][IdxAt(va, 2)] = Absent]
         /\ Invlpg(va)
    ELSE UNCHANGED <<table, tlb>>

\* unmap_page: leaves huge mappings, and the tables on the way, as they are.
UnmapPage(va) ==
  IF pml4 # NoFrame /\ HasPt(table, va)
    THEN /\ table' = [table EXCEPT
                        ![Pde(table, va).frame][IdxAt(va, 1)] = Absent]
         /\ Invlpg(va)
    ELSE UNCHANGED <<table, tlb>>

\* The client asks for the page's frame first, and keeps it if it is its own.
ClientUnmap ==
  /\ Idle
  /\ \E va \in VPage :
       /\ ~Direct(table, va)
       /\ UnmapPage(va)
       /\ held' = held \cup
                    (IF Huge(va) THEN {}
                                 ELSE {GetPhysicalAddress(va)} \cap allocated)
  /\ UNCHANGED <<pmmState, kpc, pml4, cpu, access, walk>>

ClientFree ==
  /\ Idle
  /\ \E frame \in held : Pmm!FreePage(frame) /\ held' = held \ {frame}
  /\ UNCHANGED <<ready, kpc, pml4, table, cpu, access, walk, tlb>>

-----------------------------------------------------------------------------
KernelStep ==
  Retry \/ ExceptionHandler \/ MapPageStep

ClientStep == ClientAllocate \/ ClientMap \/ ClientUnmap \/ ClientFree

Next ==
  \/ SetupPaging \/ InitPmm
  \/ Access \/ KernelStep
  \/ ClientStep
  \/ Hlt

Spec == Init /\ [][Next]_vars

\* The processor goes on executing the instruction it is at.
FairSpec == Spec /\ WF_vars(KernelStep)

-----------------------------------------------------------------------------
(* Properties *)

VmTypeOK ==
  /\ Pmm!PmmTypeOK
  /\ kpc \in {"setup", "pmm", "run"}
  /\ pml4 \in {NoFrame, Root}
  /\ \A p \in Pmm!Page, i \in Index :
       table[p][i] \in Entry
  /\ cpu \in {"idle", "fault", "walk", "halted"}
  /\ access = Nothing \/ access \in [va : VPage, write : BOOLEAN]
  /\ cpu = "walk" => walk \in [va : VPage, frame : Pmm!Page, rw : BOOLEAN,
                               level : Level, at : Pmm!Page]
  /\ held \in SUBSET Pmm!Page
  /\ \A va \in VPage : tlb[va].frame \in Nat

\* Apart from the direct map, the reachable tables form a tree whose leaves
\* are the mapped pages: no frame is both a table and a mapped page, or
\* reachable in two ways, so a store through a mapping of map_page's changes
\* neither another such page nor a table.  It needs map_page to clear every table before it links it (paging.c:121,
\* 138, 156), which memory handed out by allocate_page is not.
PageTree == IsTree(table)

\* Nothing held, about to be mapped or reachable is free in the bitmap, but
\* for what only the direct map reaches, which is every frame there is: the
\* next allocate_page cannot hand out a live table or a mapped page.
ReachableNotFree ==
  ready => LET used == Used(table)
           IN  /\ used \cup held \subseteq page_bitmap
               /\ held \subseteq allocated \ used
               /\ cpu = "walk" => walk.frame \in allocated \ used

\* Between instructions the processor's cache agrees with what
\* get_physical_address answers: every change of a leaf is followed by invlpg
\* (paging.c:174, 202), and the kernel reads huge entries the way the
\* processor does (paging.c:221-231).
TlbCoherent ==
  (cpu = "idle" /\ pml4 # NoFrame) =>
    \A va \in VPage :
      /\ Present(tlb[va]) => tlb[va].frame = GetPhysicalAddress(va)
      /\ GetPhysicalAddress(va) = MmuWalk(table, va).frame

\* A fault before kmain reaches pmm_init halts: the zeroed bitmap makes
\* allocate_page return page 0, which reads as failure (interrupts.c:169), so
\* the loader's tables are never touched with an allocator that would hand
\* out reserved memory.
NoMappingBeforePmm ==
  ~ready => /\ cpu # "walk"
            /\ allocated = {}
            /\ page_bitmap # {} => cpu = "halted"

\* The pages allocate_page handed out that nothing refers to any more.
Leaked ==
  allocated \ (Used(table) \cup held
                 \cup (IF cpu = "walk" THEN {walk.frame} ELSE {}))

\* A page is lost only where map_page returns without mapping it, which its
\* caller cannot see (void; paging.c:105, 118, 135, 153), or replaces a page
\* that is mapped already (paging.c:172).
LeaksAreKnown ==
  [][\/ Leaked' \subseteq Leaked
     \/ pml4 = NoFrame
     \/ InstallTable /\ ret' = NoFrame
     \/ SetLeaf /\ Present(WalkEntry)]_vars

\* map_page called by the handler repairs the fault: once it has written the
\* leaf, the instruction that faulted goes through (interrupts.c:177).
FaultRepaired ==
  [][(SetLeaf /\ access # Nothing)
       => Allows(Translation(access.va)', access.write)]_vars

\* Every access is answered, or the processor has halted: the handler cannot
\* fault for ever, even when map_page silently fails.
AccessAnswered ==
  access # Nothing ~> access = Nothing \/ cpu = "halted"

\* The tables implement an address space: each step changes the translation
\* of at most one page, never one of the loader's huge or direct-mapped
\* pages, to a frame no other managed page has.
LoaderHuge == {va \in VPage : MmuWalk(LoaderTable, va).huge}
LoaderDirect == {va \in VPage : Direct(LoaderTable, va)}
LoaderSpace == [va \in VPage |-> MmuWalk(LoaderTable, va).frame]
Space == [va \in VPage |-> MmuWalk(table, va).frame]

AS == INSTANCE AddressSpace WITH
  Frame <- Pmm!Page,
  Fixed <- LoaderHuge \cup LoaderDirect,
  FirstSpace <- LoaderSpace,
  space <- Space

ImplementsAddressSpace == AS!Spec

=============================================================================

--------------------------- MODULE PageAllocator ---------------------------
(***************************************************************************)
(* The physical page allocator of src/src/paging.c: one bit per page       *)
(* frame, a hint below which no frame is free, and two statistics          *)
(* counters.  A page is named by its number, phys_addr / PAGE_SIZE, so the *)
(* address 0 that allocate_page returns for "out of memory" is page 0.     *)
(*                                                                         *)
(* Before kmain reaches pmm_init the bitmap is the zeroed .bss: every page *)
(* looks free.                                                             *)
(***************************************************************************)
EXTENDS Integers, FiniteSets

CONSTANTS
  NumPages,      \* BITMAP_SIZE * 8, the pages the bitmap can describe
  Memmap,        \* the loader's memory map, in pages: a set of records
                 \*   [base |-> Nat, length |-> Nat, usable |-> BOOLEAN]
  WordSize       \* counters are uint64_t: arithmetic modulo WordSize

Page == 0 .. NumPages - 1

Covers(e, p) == e.base <= p /\ p < e.base + e.length

\* The pages whose bit pmm_init clears; pages past the bitmap are skipped.
UsablePage == {p \in Page : \E e \in Memmap : e.usable /\ Covers(e, p)}

\* Mutation: the type of an entry is not looked at before its pages are counted.
CountedAllPages == {ep \in Memmap \X Page : Covers(ep[1], ep[2])}

\* One increment of total_pages per page of every usable entry.
CountedPages ==
  {ep \in Memmap \X Page : ep[1].usable /\ Covers(ep[1], ep[2])}

(***************************************************************************)
(* The loader (the Limine protocol) never offers page 0, and its usable    *)
(* entries do not overlap.  The code relies on both: it returns 0 for      *)
(* failure, and counts a page once per entry that covers it.               *)
(***************************************************************************)
ASSUME SizesAssumption ==
  /\ NumPages \in Nat \ {0}
  /\ WordSize \in Nat /\ WordSize > NumPages

ASSUME MemmapAssumption ==
  /\ IsFiniteSet(Memmap)
  /\ \A e \in Memmap : /\ e.base \in Nat /\ e.length \in Nat
                       /\ e.usable \in BOOLEAN
  /\ \A e \in Memmap : e.usable => ~Covers(e, 0)
  /\ \A e, f \in Memmap :
       e.usable /\ f.usable /\ e # f =>
         \A p \in Page : ~(Covers(e, p) /\ Covers(f, p))

VARIABLES
  ready,           \* has kmain run pmm_init?
  page_bitmap,     \* the pages whose bit is 1
  total_pages,
  used_pages,
  next_free_page,
  ret,             \* what the last allocate_page returned, as a page number
  allocated        \* history: pages returned to a caller and not freed since

pmmVars == <<page_bitmap, total_pages, used_pages, next_free_page>>
vars == <<ready, page_bitmap, total_pages, used_pages, next_free_page, ret,
          allocated>>

PmmTypeOK ==
  /\ ready \in BOOLEAN
  /\ page_bitmap \in SUBSET Page
  /\ total_pages \in Nat
  /\ used_pages \in 0 .. WordSize - 1
  /\ next_free_page \in 0 .. NumPages
  /\ ret \in Page
  /\ allocated \in SUBSET Page

PmmStart ==
  /\ ready = FALSE
  /\ page_bitmap = {}
  /\ total_pages = 0
  /\ used_pages = 0
  /\ next_free_page = 0
  /\ ret = 0
  /\ allocated = {}

-----------------------------------------------------------------------------
(* uint64_t increment and decrement: both wrap. *)
Inc(u) == IF u = WordSize - 1 THEN 0 ELSE u + 1

\* Mutation: free_page does not step used_pages.
DecForgotten(u) == u

Dec(u) == IF u = 0 THEN WordSize - 1 ELSE u - 1

(***************************************************************************)
(* pmm_init.  It resets the bitmap and counts the pages, and leaves        *)
(* used_pages and next_free_page as they are.  Without a memory map from   *)
(* the loader it returns at once: a step that changes nothing.             *)
(***************************************************************************)
PmmInit ==
  /\ ~ready
  /\ ready' = TRUE
  /\ page_bitmap' = Page \ UsablePage
  /\ total_pages' = total_pages + Cardinality(CountedPages)
  /\ UNCHANGED <<used_pages, next_free_page, ret, allocated>>

\* Mutation: the hint is trusted, the bitmap not looked at.
HintIsFree(i) == i = next_free_page

\* The page the scan of allocate_page stops at: it starts at the hint.
IsNextFree(i) ==
  /\ next_free_page <= i
  /\ i \notin page_bitmap
  /\ \A j \in next_free_page .. i - 1 : j \in page_bitmap

\* Mutation: the scan goes one page too far.
AllocateFoundPastEnd ==
  \E i \in 0 .. NumPages :
    /\ IsNextFree(i)
    /\ page_bitmap' = page_bitmap \cup {i}
    /\ used_pages' = Inc(used_pages)
    /\ next_free_page' = i + 1
    /\ ret' = i
    /\ allocated' = allocated \cup ({i} \ {0})
    /\ UNCHANGED total_pages

\* allocate_page finds a page.  Page 0 reads as failure to the caller.
AllocateFound ==
  \E i \in Page :
    /\ IsNextFree(i)
    /\ page_bitmap' = page_bitmap \cup {i}
    /\ used_pages' = Inc(used_pages)
    /\ next_free_page' = i + 1
    /\ ret' = i
    /\ allocated' = allocated \cup ({i} \ {0})
    /\ UNCHANGED total_pages

\* The scan runs off the end: "ERROR: Out of physical memory!".
AllocateFailed ==
  /\ \A i \in Page : ~IsNextFree(i)
  /\ ret' = 0
  /\ UNCHANGED <<pmmVars, allocated>>

AllocatePage == AllocateFound \/ AllocateFailed

\* Mutations: the hint stays where it is, or is only ever raised.
HintUnmoved(p) == next_free_page
HintRaised(p) == IF p > next_free_page THEN p ELSE next_free_page

\* The hint goes back to a page freed below it.
HintAfterFree(p) == IF p < next_free_page THEN p ELSE next_free_page

\* free_page: nothing is checked but the range of the page number.
FreePage(p) ==
  /\ IF p >= NumPages
       THEN UNCHANGED <<pmmVars, allocated>>
       ELSE /\ page_bitmap' = page_bitmap \ {p}
            /\ used_pages' = Dec(used_pages)
            /\ next_free_page' = HintAfterFree(p)
            /\ allocated' = allocated \ {p}
            /\ UNCHANGED total_pages
  /\ UNCHANGED ret

-----------------------------------------------------------------------------
(***************************************************************************)
(* Spec: clients free only pages they hold.  WildSpec: clients may pass    *)
(* free_page any number, twice or never handed out.                        *)
(***************************************************************************)
Allocate == ready /\ AllocatePage /\ UNCHANGED ready
Free == ready /\ (\E p \in allocated : FreePage(p)) /\ UNCHANGED ready
WildFree == ready /\ (\E p \in 0 .. NumPages : FreePage(p)) /\ UNCHANGED ready

Next == PmmInit \/ Allocate \/ Free
WildNext == PmmInit \/ Allocate \/ WildFree

Spec == PmmStart /\ [][Next]_vars
WildSpec == PmmStart /\ [][WildNext]_vars

-----------------------------------------------------------------------------
(* Properties *)

\* No free page lies below the hint that allocate_page (paging.c:66) starts
\* its scan from.  It holds whatever callers pass to free_page.
HintBelowFree == \A p \in Page : p < next_free_page => p \in page_bitmap

\* allocate_page (paging.c:80-83) reports "Out of physical memory" only when
\* every bit is set: the scan, which never wraps round, has missed nothing.
OutOfMemoryIsReal ==
  [][ready /\ AllocateFailed => page_bitmap = Page]_vars

\* After boot the bitmap marks exactly the reserved pages and those handed
\* out, the ones handed out are usable memory, and pmm_stats' "Used pages"
\* is their number although the counter is only ever stepped.
Accounting ==
  ready => /\ allocated \subseteq UsablePage
           /\ page_bitmap = (Page \ UsablePage) \cup allocated
           /\ used_pages = Cardinality(allocated)

\* pmm_stats prints total_pages - used_pages as "Free pages" (paging.c:254):
\* it is the number of clear bits.
FreeCountExact ==
  ready => total_pages - used_pages = Cardinality(Page \ page_bitmap)

\* Two calls of allocate_page never hand out the same page without a
\* free_page of it in between.
NoDoubleAllocation ==
  [][\A p \in Page : AllocatePage /\ ret' = p /\ p # 0 => p \notin allocated]_vars

\* The allocator implements the abstract pool.
Pool == INSTANCE FramePool WITH
  Pool <- UsablePage,
  open <- ready,
  free <- IF ready THEN Page \ page_bitmap ELSE {}

ImplementsPool == Pool!Spec

=============================================================================

----------------------- MODULE PageAllocator_proofs -----------------------
(***************************************************************************)
(* Proofs about PageAllocator for every number of pages, every memory map  *)
(* the loader may hand over and every counter width that can hold the      *)
(* number of pages.                                                        *)
(***************************************************************************)
EXTENDS PageAllocator, FunctionTheorems, FiniteSetTheorems,
        WellFoundedInduction, TLAPS

-----------------------------------------------------------------------------
(* The constants *)

LEMMA PageFinite ==
  /\ IsFiniteSet(Page)
  /\ Cardinality(Page) = NumPages
<1>1. NumPages - 1 \in Int /\ 0 \in Int /\ ~(0 > NumPages - 1)
  BY SizesAssumption
<1> QED  BY <1>1, FS_Interval, SizesAssumption DEF Page

LEMMA ZeroIsReserved == 0 \in Page /\ 0 \notin UsablePage
  BY SizesAssumption, MemmapAssumption DEF Page, UsablePage

\* Entries do not overlap, so counting a page once per entry that covers it
\* (paging.c:60) counts it once.
LEMMA CountedOnce ==
  /\ IsFiniteSet(CountedPages)
  /\ Cardinality(CountedPages) = Cardinality(UsablePage)
<1> DEFINE f == [ep \in CountedPages |-> ep[2]]
<1>1. IsFiniteSet(CountedPages)
  <2>1. IsFiniteSet(Memmap \X Page)
    BY PageFinite, MemmapAssumption, FS_Product
  <2>2. CountedPages \in SUBSET (Memmap \X Page)
    BY DEF CountedPages
  <2> QED  BY <2>1, <2>2, FS_Subset
<1>2. f \in [CountedPages -> UsablePage]
  BY DEF CountedPages, UsablePage
<1>3. ASSUME NEW a \in CountedPages, NEW b \in CountedPages, f[a] = f[b]
      PROVE  a = b
  <2>1. /\ a = <<a[1], a[2]>> /\ b = <<b[1], b[2]>>
        /\ a[1] \in Memmap /\ b[1] \in Memmap /\ a[2] \in Page
        /\ a[1].usable /\ b[1].usable
        /\ Covers(a[1], a[2]) /\ Covers(b[1], b[2])
    BY DEF CountedPages
  <2>2. a[2] = b[2]
    BY <1>3
  <2>3. a[1] = b[1]
    BY <2>1, <2>2, MemmapAssumption
  <2> QED  BY <2>1, <2>2, <2>3
<1>4. ASSUME NEW p \in UsablePage
      PROVE  \E ep \in CountedPages : f[ep] = p
  <2>1. p \in Page
    BY DEF UsablePage
  <2>2. PICK e \in Memmap : e.usable /\ Covers(e, p)
    BY DEF UsablePage
  <2>3. <<e, p>> \in CountedPages
    BY <2>1, <2>2 DEF CountedPages
  <2> QED  BY <2>3
<1>5. ExistsBijection(CountedPages, UsablePage)
  <2>1. f \in Bijection(CountedPages, UsablePage)
    BY <1>2, <1>3, <1>4 DEF Bijection, Injection, Surjection, IsInjective
  <2> QED  BY <2>1 DEF ExistsBijection
<1> QED  BY <1>1, <1>5, FS_Bijection

LEMMA SmallestElement ==
  ASSUME NEW S, S \subseteq Nat, S # {}
  PROVE  \E i \in S : \A j \in S : i <= j
<1> DEFINE R == OpToRel(<, Nat)
<1>1. \A i, j \in Nat : i < j => <<i, j>> \in R
  BY DEF OpToRel
<1>2. PICK i \in S : \A j \in S : ~(<<j, i>> \in R)
  <2>1. IsWellFoundedOn(R, Nat)
    BY NatLessThanWellFounded
  <2> HIDE DEF R
  <2> QED  BY <2>1, WFMin
<1> HIDE DEF R
<1>3. ASSUME NEW j \in S  PROVE i <= j
  <2>1. i \in Nat /\ j \in Nat /\ ~(<<j, i>> \in R)
    BY <1>2
  <2>2. ~(j < i)
    BY <1>1, <2>1
  <2> QED  BY <2>1, <2>2
<1> QED  BY <1>3

-----------------------------------------------------------------------------
(* Types *)

LEMMA TypeInit == PmmStart => PmmTypeOK
<1>1. 0 \in Page /\ 0 \in 0 .. WordSize - 1 /\ 0 \in 0 .. NumPages
  BY SizesAssumption DEF Page
<1>2. 0 \in Nat /\ FALSE \in BOOLEAN /\ {} \in SUBSET Page
  OBVIOUS
<1> QED  BY <1>1, <1>2, Zenon DEF PmmStart, PmmTypeOK

LEMMA TypeStep == PmmTypeOK /\ [WildNext]_vars => PmmTypeOK'
<1> SUFFICES ASSUME PmmTypeOK, [WildNext]_vars  PROVE PmmTypeOK'
  OBVIOUS
<1>1. CASE PmmInit
  <2>1. Cardinality(CountedPages) \in Nat
    BY CountedOnce, FS_CardinalityType
  <2> QED  BY <1>1, <2>1 DEF PmmInit, PmmTypeOK
<1>2. CASE Allocate
  <2>1. CASE AllocateFound
    BY <1>2, <2>1, SizesAssumption
       DEF Allocate, AllocateFound, PmmTypeOK, Inc, Page
  <2>2. CASE AllocateFailed
    BY <1>2, <2>2, ZeroIsReserved
       DEF Allocate, AllocateFailed, PmmTypeOK, pmmVars
  <2> QED  BY <1>2, <2>1, <2>2 DEF Allocate, AllocatePage
<1>3. CASE WildFree
  <2>1. PICK p \in 0 .. NumPages : FreePage(p)
    BY <1>3 DEF WildFree
  <2>2. Dec(used_pages) \in 0 .. WordSize - 1
    BY SizesAssumption DEF Dec, PmmTypeOK
  <2>3. next_free_page' \in 0 .. NumPages
    BY <2>1, SizesAssumption DEF FreePage, HintAfterFree, PmmTypeOK, pmmVars
  <2> QED  BY <1>3, <2>1, <2>2, <2>3 DEF WildFree, FreePage, HintAfterFree, PmmTypeOK, pmmVars
<1>4. CASE UNCHANGED vars
  BY <1>4 DEF vars, PmmTypeOK
<1> QED  BY <1>1, <1>2, <1>3, <1>4 DEF WildNext

\* A client that frees only what it holds is one that frees anything.
LEMMA NextIsWild == PmmTypeOK /\ Next => WildNext
  BY SizesAssumption
     DEF Next, WildNext, Free, WildFree, PmmTypeOK, Page

\* Every variable keeps its type, whatever callers pass to free_page.
THEOREM WildTypeCorrect == WildSpec => []PmmTypeOK
  BY TypeInit, TypeStep, PTL DEF WildSpec

\* Every variable keeps its type: the hint stays within the bitmap and
\* used_pages within its word.
THEOREM TypeCorrect == Spec => []PmmTypeOK
<1>1. PmmTypeOK /\ [Next]_vars => PmmTypeOK'
  BY TypeStep, NextIsWild
<1> QED  BY TypeInit, <1>1, PTL DEF Spec

-----------------------------------------------------------------------------
(* The hint *)

\* Before pmm_init the statics are the zeroed .bss; pmm_init relies on it for
\* the hint and the counters, which it does not reset.
Untouched ==
  ~ready => /\ total_pages = 0
            /\ used_pages = 0
            /\ next_free_page = 0
            /\ allocated = {}

LEMMA UntouchedStep == Untouched /\ [WildNext]_vars => Untouched'
  BY DEF Untouched, WildNext, PmmInit, Allocate, WildFree, vars

HintInv == PmmTypeOK /\ Untouched /\ HintBelowFree

LEMMA HintStep == HintInv /\ [WildNext]_vars => HintBelowFree'
<1> SUFFICES ASSUME PmmTypeOK, Untouched, HintBelowFree, [WildNext]_vars,
                    NEW q \in Page, q < next_free_page'
             PROVE  q \in page_bitmap'
  BY DEF HintBelowFree, HintInv
<1>1. CASE PmmInit
  BY <1>1 DEF PmmInit, Untouched, Page
<1>2. CASE Allocate
  <2>1. CASE AllocateFound
    <3>1. PICK i \in Page : /\ IsNextFree(i)
                            /\ page_bitmap' = page_bitmap \cup {i}
                            /\ next_free_page' = i + 1
      BY <2>1 DEF AllocateFound
    <3>2. CASE q < next_free_page
      BY <3>1, <3>2 DEF HintBelowFree
    <3>3. CASE q = i
      BY <3>1, <3>3
    <3>4. CASE next_free_page <= q /\ q < i
      BY <3>1, <3>4 DEF IsNextFree, PmmTypeOK, Page
    <3> QED  BY <3>1, <3>2, <3>3, <3>4 DEF PmmTypeOK, Page
  <2>2. CASE AllocateFailed
    BY <2>2 DEF AllocateFailed, pmmVars, HintBelowFree
  <2> QED  BY <1>2, <2>1, <2>2 DEF Allocate, AllocatePage
<1>3. CASE WildFree
  BY <1>3 DEF WildFree, FreePage, HintAfterFree, pmmVars, HintBelowFree, PmmTypeOK, Page
<1>4. CASE UNCHANGED vars
  BY <1>4 DEF vars, HintBelowFree
<1> QED  BY <1>1, <1>2, <1>3, <1>4 DEF WildNext

LEMMA HintInvariant == WildSpec => []HintInv
<1>1. PmmStart => HintInv
  BY TypeInit DEF PmmStart, HintInv, Untouched, HintBelowFree, Page
<1>2. HintInv /\ [WildNext]_vars => HintInv'
  BY TypeStep, UntouchedStep, HintStep DEF HintInv
<1> QED  BY <1>1, <1>2, PTL DEF WildSpec

\* No page below next_free_page is ever free, whatever callers pass to
\* free_page: a double free or a free of a reserved page does not break it.
THEOREM HintCorrect == WildSpec => []HintBelowFree
<1>1. HintInv => HintBelowFree
  BY DEF HintInv
<1> QED  BY HintInvariant, <1>1, PTL

LEMMA ScanMissesNothing ==
  ASSUME PmmTypeOK, HintBelowFree, AllocateFailed
  PROVE  page_bitmap = Page
<1>1. ASSUME NEW p \in Page, p \notin page_bitmap
      PROVE  FALSE
  <2> DEFINE Clear == {n \in Nat : n \in Page /\ n \notin page_bitmap}
  <2>1. p \in Clear /\ Clear \subseteq Nat
    BY <1>1 DEF Page
  <2>2. PICK i \in Clear : \A j \in Clear : i <= j
    BY <2>1, SmallestElement
  <2>3. i \in Page /\ i \notin page_bitmap
    BY <2>2
  <2>4. next_free_page <= i
    BY <2>3 DEF HintBelowFree, PmmTypeOK, Page
  <2>5. ASSUME NEW j \in next_free_page .. i - 1
        PROVE  j \in page_bitmap
    <3>1. i \in 0 .. NumPages - 1 /\ next_free_page \in Nat
      BY <2>3, SizesAssumption DEF PmmTypeOK, Page
    <3>2. j \in Nat /\ j \in Page /\ j < i
      BY <3>1, SizesAssumption DEF Page
    <3> QED  BY <3>1, <3>2, <2>2
  <2>6. IsNextFree(i)
    BY <2>3, <2>4, <2>5 DEF IsNextFree
  <2> QED  BY <2>3, <2>6 DEF AllocateFailed
<1> QED  BY <1>1 DEF PmmTypeOK

\* allocate_page answers "Out of physical memory" only when no bit is clear.
THEOREM OutOfMemoryCorrect == WildSpec => OutOfMemoryIsReal
<1>1. HintInv /\ [WildNext]_vars
        => [ready /\ AllocateFailed => page_bitmap = Page]_vars
  BY ScanMissesNothing DEF HintInv
<1> QED  BY HintInvariant, <1>1, PTL DEF WildSpec, OutOfMemoryIsReal

-----------------------------------------------------------------------------
(* Accounting, for clients that free only what they hold *)

\* total_pages is counted once, at boot, and never touched again; the two
\* counters stay exact because the bitmap is.
CountersExact == ready => total_pages = Cardinality(UsablePage)

AccountInv ==
  PmmTypeOK /\ Untouched /\ HintBelowFree /\ Accounting /\ CountersExact

LEMMA UsableFinite ==
  /\ IsFiniteSet(UsablePage)
  /\ UsablePage \subseteq Page
  /\ Cardinality(UsablePage) \in Nat
  /\ Cardinality(UsablePage) <= NumPages
<1>1. UsablePage \in SUBSET Page
  BY DEF UsablePage
<1> QED  BY <1>1, PageFinite, FS_Subset, FS_CardinalityType

LEMMA AllocatedFinite ==
  ASSUME AccountInv
  PROVE  /\ IsFiniteSet(allocated)
         /\ Cardinality(allocated) \in Nat
<1>1. allocated \in SUBSET Page
  BY DEF AccountInv, PmmTypeOK
<1> QED  BY <1>1, PageFinite, FS_Subset, FS_CardinalityType

\* A page that allocate_page finds is usable memory that nobody holds.
LEMMA FoundIsFresh ==
  ASSUME AccountInv, ready, NEW i \in Page, IsNextFree(i)
  PROVE  /\ i \in UsablePage
         /\ i \notin allocated
         /\ i # 0
<1>1. i \notin page_bitmap
  BY DEF IsNextFree
<1> QED  BY <1>1, ZeroIsReserved DEF AccountInv, Accounting

LEMMA AllocateKeepsAccounting ==
  ASSUME AccountInv, Allocate, AllocateFound
  PROVE  Accounting'
<1>1. PICK i \in Page : /\ IsNextFree(i)
                        /\ page_bitmap' = page_bitmap \cup {i}
                        /\ used_pages' = Inc(used_pages)
                        /\ allocated' = allocated \cup ({i} \ {0})
  BY DEF AllocateFound
<1>2. ready /\ ready'
  BY DEF Allocate
<1>3. i \in UsablePage /\ i \notin allocated /\ i # 0
  BY <1>1, <1>2, FoundIsFresh
<1>4. allocated' = allocated \cup {i}
  BY <1>1, <1>3
<1>5. /\ allocated \subseteq UsablePage
      /\ page_bitmap = (Page \ UsablePage) \cup allocated
      /\ used_pages = Cardinality(allocated)
  BY <1>2 DEF AccountInv, Accounting
<1>6. /\ IsFiniteSet(allocated)
      /\ Cardinality(allocated) \in Nat
  BY AllocatedFinite
<1>7. Cardinality(allocated') = Cardinality(allocated) + 1
  BY <1>3, <1>4, <1>6, FS_AddElement
<1>8. Cardinality(allocated') <= NumPages
  <2>1. allocated' \in SUBSET Page
    BY <1>4, <1>5, UsableFinite
  <2> QED  BY <2>1, PageFinite, FS_Subset
<1>9. used_pages' = Cardinality(allocated')
  BY <1>1, <1>5, <1>6, <1>7, <1>8, SizesAssumption DEF Inc
<1>10. page_bitmap' = (Page \ UsablePage) \cup allocated'
  BY <1>1, <1>4, <1>5
<1> QED  BY <1>3, <1>4, <1>5, <1>9, <1>10 DEF Accounting

LEMMA FreeKeepsAccounting ==
  ASSUME AccountInv, Free
  PROVE  Accounting'
<1>1. PICK p \in allocated : FreePage(p)
  BY DEF Free
<1>2. ready /\ ready'
  BY DEF Free
<1>3. p \in Page /\ ~(p >= NumPages)
  BY SizesAssumption DEF AccountInv, PmmTypeOK, Page
<1>4. /\ page_bitmap' = page_bitmap \ {p}
      /\ used_pages' = Dec(used_pages)
      /\ allocated' = allocated \ {p}
  BY <1>1, <1>3 DEF FreePage, HintAfterFree
<1>5. /\ allocated \subseteq UsablePage
      /\ page_bitmap = (Page \ UsablePage) \cup allocated
      /\ used_pages = Cardinality(allocated)
  BY <1>2 DEF AccountInv, Accounting
<1>6. /\ IsFiniteSet(allocated)
      /\ Cardinality(allocated) \in Nat
  BY AllocatedFinite
<1>7. Cardinality(allocated') = Cardinality(allocated) - 1
  BY <1>4, <1>6, FS_RemoveElement
<1>8. Cardinality(allocated) # 0
  BY <1>6, FS_EmptySet
<1>9. used_pages' = Cardinality(allocated')
  BY <1>4, <1>5, <1>6, <1>7, <1>8 DEF Dec
<1>10. page_bitmap' = (Page \ UsablePage) \cup allocated'
  BY <1>1, <1>4, <1>5
<1> QED  BY <1>4, <1>5, <1>9, <1>10 DEF Accounting

LEMMA AccountStep == AccountInv /\ [Next]_vars => AccountInv'
<1> SUFFICES ASSUME AccountInv, [Next]_vars  PROVE AccountInv'
  OBVIOUS
<1>1. [WildNext]_vars
  BY NextIsWild DEF AccountInv
<1>2. PmmTypeOK' /\ Untouched' /\ HintBelowFree'
  BY <1>1, TypeStep, UntouchedStep, HintStep DEF AccountInv, HintInv
<1>3. CASE PmmInit
  <2>1. page_bitmap' = (Page \ UsablePage) \cup allocated'
    BY <1>3 DEF PmmInit, AccountInv, Untouched
  <2>2. allocated' = {} /\ used_pages' = 0
    BY <1>3 DEF PmmInit, AccountInv, Untouched
  <2>3. total_pages' = Cardinality(UsablePage)
    BY <1>3, CountedOnce, UsableFinite DEF PmmInit, AccountInv, Untouched
  <2> QED
    BY <1>2, <2>1, <2>2, <2>3, FS_EmptySet
       DEF AccountInv, Accounting, CountersExact
<1>4. CASE Allocate
  <2>1. CountersExact'
    BY <1>4 DEF Allocate, AllocatePage, AllocateFound, AllocateFailed,
                pmmVars, AccountInv, CountersExact
  <2>2. CASE AllocateFound
    BY <1>2, <1>4, <2>1, <2>2, AllocateKeepsAccounting DEF AccountInv
  <2>3. CASE AllocateFailed
    BY <1>2, <1>4, <2>1, <2>3
       DEF Allocate, AllocateFailed, pmmVars, AccountInv, Accounting
  <2> QED  BY <1>4, <2>2, <2>3 DEF Allocate, AllocatePage
<1>5. CASE Free
  <2>1. CountersExact'
    BY <1>5 DEF Free, FreePage, HintAfterFree, pmmVars, AccountInv, CountersExact
  <2> QED  BY <1>2, <1>5, <2>1, FreeKeepsAccounting DEF AccountInv
<1>6. CASE UNCHANGED vars
  BY <1>2, <1>6 DEF vars, AccountInv, Accounting, CountersExact
<1> QED  BY <1>3, <1>4, <1>5, <1>6 DEF Next

LEMMA AccountInvariant == Spec => []AccountInv
<1>1. PmmStart => AccountInv
  BY TypeInit
     DEF PmmStart, AccountInv, Untouched, Accounting, CountersExact,
         HintBelowFree, Page
<1> QED  BY <1>1, AccountStep, PTL DEF Spec

\* The bitmap is exactly the reserved pages and those handed out, and
\* "Used pages" is the number of the latter.
THEOREM AccountingCorrect == Spec => []Accounting
<1>1. AccountInv => Accounting
  BY DEF AccountInv
<1> QED  BY AccountInvariant, <1>1, PTL

\* "Free pages" of pmm_stats is the number of clear bits.
THEOREM FreeCountCorrect == Spec => []FreeCountExact
<1>1. AccountInv => FreeCountExact
  <2> SUFFICES ASSUME AccountInv, ready
               PROVE  total_pages - used_pages = Cardinality(Page \ page_bitmap)
    BY DEF FreeCountExact
  <2>1. /\ allocated \subseteq UsablePage
        /\ page_bitmap = (Page \ UsablePage) \cup allocated
        /\ used_pages = Cardinality(allocated)
        /\ total_pages = Cardinality(UsablePage)
    BY DEF AccountInv, Accounting, CountersExact
  <2>2. Page \ page_bitmap = UsablePage \ allocated
    BY <2>1, UsableFinite
  <2>3. UsablePage \cap allocated = allocated
    BY <2>1
  <2>4. Cardinality(UsablePage \ allocated)
          = Cardinality(UsablePage) - Cardinality(UsablePage \cap allocated)
    BY UsableFinite, FS_Difference
  <2> QED  BY <2>1, <2>2, <2>3, <2>4
<1> QED  BY AccountInvariant, <1>1, PTL

\* No page is handed out twice without being freed in between.
THEOREM AllocationIsExclusive == Spec => NoDoubleAllocation
<1>1. AccountInv /\ [Next]_vars
        => [\A p \in Page : AllocatePage /\ ret' = p /\ p # 0
                             => p \notin allocated]_vars
  <2> SUFFICES ASSUME AccountInv, [Next]_vars, ~UNCHANGED vars,
                      NEW p \in Page, AllocatePage, ret' = p, p # 0
               PROVE  p \notin allocated
    OBVIOUS
  <2>1. AllocateFound
    BY DEF AllocatePage, AllocateFailed
  <2>2. PICK i \in Page : IsNextFree(i) /\ ret' = i
    BY <2>1 DEF AllocateFound
  <2>3. CASE ready
    BY <2>2, <2>3, FoundIsFresh
  <2>4. CASE ~ready
    BY <2>4 DEF AccountInv, Untouched
  <2> QED  BY <2>3, <2>4
<1> QED  BY AccountInvariant, <1>1, PTL DEF Spec, NoDoubleAllocation

-----------------------------------------------------------------------------
(* The refinement *)

\* The allocator implements FramePool: pmm_init opens the pool, allocate_page
\* takes a free frame or finds none, free_page gives one back.
THEOREM AllocatorImplementsPool == Spec => ImplementsPool
<1>1. PmmStart => Pool!Init
  BY DEF PmmStart, Pool!Init
<1>2. AccountInv /\ AccountInv' /\ [Next]_vars => [Pool!Next]_(Pool!vars)
  <2> SUFFICES ASSUME AccountInv, AccountInv', [Next]_vars
               PROVE  Pool!Next \/ UNCHANGED Pool!vars
    OBVIOUS
  <2>1. CASE PmmInit
    <3>1. Page \ page_bitmap' = UsablePage
      BY <2>1, UsableFinite DEF PmmInit
    <3> QED  BY <2>1, <3>1 DEF PmmInit, Pool!Next, Pool!Open
  <2>2. CASE Allocate
    <3>1. ready /\ ready'
      BY <2>2 DEF Allocate
    <3>2. CASE AllocateFound
      <4>1. PICK i \in Page : /\ IsNextFree(i)
                              /\ page_bitmap' = page_bitmap \cup {i}
                              /\ ret' = i
        BY <3>2 DEF AllocateFound
      <4>2. i \in Page \ page_bitmap
        BY <4>1 DEF IsNextFree
      <4>3. Page \ page_bitmap' = (Page \ page_bitmap) \ {i}
        BY <4>1
      <4> QED  BY <3>1, <4>1, <4>2, <4>3 DEF Pool!Next, Pool!Take
    <3>3. CASE AllocateFailed
      <4>1. page_bitmap = Page
        BY <3>3, ScanMissesNothing DEF AccountInv
      <4> QED
        BY <3>1, <3>3, <4>1
           DEF AllocateFailed, pmmVars, Pool!Next, Pool!Exhausted
    <3> QED  BY <2>2, <3>2, <3>3 DEF Allocate, AllocatePage
  <2>3. CASE Free
    <3>1. PICK p \in allocated : FreePage(p)
      BY <2>3 DEF Free
    <3>2. ready /\ ready'
      BY <2>3 DEF Free
    <3>3. p \in Page /\ p \in page_bitmap /\ p \in UsablePage /\ ~(p >= NumPages)
      BY <3>2, SizesAssumption
         DEF AccountInv, Accounting, PmmTypeOK, Page
    <3>4. page_bitmap' = page_bitmap \ {p} /\ ret' = ret
      BY <3>1, <3>3 DEF FreePage, HintAfterFree
    <3>5. Page \ page_bitmap' = (Page \ page_bitmap) \cup {p}
      BY <3>3, <3>4
    <3>6. p \in UsablePage \ (Page \ page_bitmap)
      BY <3>3
    <3> QED  BY <3>2, <3>4, <3>5, <3>6 DEF Pool!Next, Pool!Give
  <2>4. CASE UNCHANGED vars
    BY <2>4 DEF vars, Pool!vars
  <2> QED  BY <2>1, <2>2, <2>3, <2>4 DEF Next
<1> QED  BY <1>1, <1>2, AccountInvariant, PTL DEF Spec, ImplementsPool, Pool!Spec

=============================================================================

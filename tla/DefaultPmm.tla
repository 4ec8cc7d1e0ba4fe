----------------------------- MODULE DefaultPmm -----------------------------
(***************************************************************************)
(* The first-fit physical memory manager, kern/mm/default_pmm.c.           *)
(*                                                                         *)
(* Pages are numbered by their index in the array `pages`.  free_list is   *)
(* the list of block heads from list_next(&free_list) on; property and     *)
(* flags are the fields of struct Page (memlayout.h).  alloc_pages and     *)
(* free_pages in pmm.c call the manager between local_intr_save and        *)
(* local_intr_restore, so each call is one step.  `ref` is set by these    *)
(* functions but never read by them: it belongs to module Paging.          *)
(***************************************************************************)
EXTENDS Integers, FiniteSets, Sequences, SequencesExt

CONSTANTS
    NPage,          \* pages of physical memory (npage)
    Zones,          \* regions [base, n] in the order page_init hands them over
    NULL

Page == 0..(NPage - 1)

Run(base, n) == base..(base + n - 1)

ASSUME NPageAssumption == NPage \in Nat

(* page_init rounds the regions to pages, cuts them off at npage and skips *)
(* the empty ones; the BIOS reports disjoint regions.                      *)
ASSUME ZonesAssumption ==
    /\ Zones \in Seq([base : Nat, n : Nat \ {0}])
    /\ \A k \in 1..Len(Zones) : Run(Zones[k].base, Zones[k].n) \subseteq Page
    /\ \A j, k \in 1..Len(Zones) : j # k =>
          Run(Zones[j].base, Zones[j].n) \cap Run(Zones[k].base, Zones[k].n) = {}

ASSUME NULLAssumption == NULL \notin Int

VARIABLES
    free_list,      \* heads of the free blocks, in list order
    nr_free,        \* free_area.nr_free
    property,       \* Page.property: size of the free block a head page starts
    flags,          \* Page.flags: subset of {"PG_reserved", "PG_property"}
    zone,           \* how many regions init_memmap has received
    held,           \* pages given to callers and not returned (the callers' view)
    ret             \* result of the last alloc_pages; for NULL, what was refused

vars == <<free_list, nr_free, property, flags, zone, held, ret>>

Result == [page : Page \cup {NULL}, refused : 0..(NPage + 1)]

Flag == {"PG_reserved", "PG_property"}

(* Pages of the regions received so far. *)
Managed == UNION {Run(Zones[k].base, Zones[k].n) : k \in 1..zone}

(* The free block at position i of the list, and all free pages. *)
Block(i) == Run(free_list[i], property[free_list[i]])
FreePages == UNION {Block(i) : i \in 1..Len(free_list)}

-----------------------------------------------------------------------------
(* default_init, after page_init has reserved every page.  property is not *)
(* written before init_memmap and is not read before it either.            *)
Init ==
    /\ free_list = <<>>
    /\ nr_free = 0
    /\ property = [p \in Page |-> 0]
    /\ flags = [p \in Page |-> {"PG_reserved"}]
    /\ zone = 0
    /\ held = {}
    /\ ret = [page |-> NULL, refused |-> 0]

(* default_init_memmap(base, n): list_add puts the block at the head. *)
InitMemmap(base, n) ==
    /\ \A p \in Run(base, n) : "PG_reserved" \in flags[p]
    /\ flags' = [p \in Page |-> IF p = base THEN {"PG_property"}
                                ELSE IF p \in Run(base, n) THEN {} ELSE flags[p]]
    /\ property' = [p \in Page |-> IF p = base THEN n
                                   ELSE IF p \in Run(base, n) THEN 0 ELSE property[p]]
    /\ nr_free' = nr_free + n
    /\ free_list' = <<base>> \o free_list

NextZone ==
    /\ zone < Len(Zones)
    /\ InitMemmap(Zones[zone + 1].base, Zones[zone + 1].n)
    /\ zone' = zone + 1
    /\ UNCHANGED <<held, ret>>

-----------------------------------------------------------------------------
(* alloc_pages                                                             *)

Fits(i, n) == property[free_list[i]] >= n

LastFit(i, n) ==
    /\ i \in 1..Len(free_list)
    /\ Fits(i, n)
    /\ \A j \in (i + 1)..Len(free_list) : ~Fits(j, n)

(* The search stops at the first block in list order that is large enough. *)
FirstFit(i, n) ==
    /\ i \in 1..Len(free_list)
    /\ Fits(i, n)
    /\ \A j \in 1..(i - 1) : ~Fits(j, n)

AllocFailAtLimit(n) ==
    /\ n >= nr_free \/ \A i \in 1..Len(free_list) : ~Fits(i, n)
    /\ ret' = [page |-> NULL, refused |-> n]
    /\ UNCHANGED <<free_list, nr_free, property, flags, held>>

(* NULL: more than nr_free pages asked for, or no block large enough. *)
AllocFail(n) ==
    /\ n > nr_free \/ \A i \in 1..Len(free_list) : ~Fits(i, n)
    /\ ret' = [page |-> NULL, refused |-> n]
    /\ UNCHANGED <<free_list, nr_free, property, flags, held>>

(* What the two successful cases have in common. *)
Take(page, n) ==
    /\ n <= nr_free
    /\ nr_free' = nr_free - n
    /\ held' = held \cup Run(page, n)
    /\ ret' = [page |-> page, refused |-> 0]

(* The block has exactly n pages: it leaves the list. *)
AllocWhole(i, n) ==
    LET page == free_list[i] IN
        /\ property[page] = n
        /\ Take(page, n)
        /\ free_list' = RemoveAt(free_list, i)
        /\ flags' = [flags EXCEPT ![page] = @ \ {"PG_property"}]
        /\ UNCHANGED property

(* The remainder keeps the size of the whole block. *)
AllocSplitOversized(i, n) ==
    LET page == free_list[i]
        p == page + n IN
        /\ property[page] > n
        /\ Take(page, n)
        /\ property' = [property EXCEPT ![p] = property[page]]
        /\ flags' = [flags EXCEPT ![page] = @ \ {"PG_property"}, ![p] = @ \cup {"PG_property"}]
        /\ free_list' = ReplaceAt(free_list, i, p)

(* A larger block: its remainder p takes its place in the list (list_add   *)
(* after page, then list_del of page).  page.property keeps its old value. *)
AllocSplit(i, n) ==
    LET page == free_list[i]
        p == page + n IN
        /\ property[page] > n
        /\ Take(page, n)
        /\ property' = [property EXCEPT ![p] = property[page] - n]
        /\ flags' = [flags EXCEPT ![page] = @ \ {"PG_property"}, ![p] = @ \cup {"PG_property"}]
        /\ free_list' = ReplaceAt(free_list, i, p)

Alloc(n) ==
    \/ AllocFail(n)
    \/ \E i \in 1..Len(free_list) : FirstFit(i, n) /\ (AllocWhole(i, n) \/ AllocSplit(i, n))

-----------------------------------------------------------------------------
(* free_pages                                                              *)

(* The scan without the clause for the end of the list. *)
AcceptsInside(base, i) ==
    /\ i <= Len(free_list)
    /\ i > 1 => free_list[i - 1] < base
    /\ base < free_list[i]

(* The test of the scan with cur_page = position i and pre_page = i - 1,   *)
(* either of which may be the list head itself.  An empty list, which the  *)
(* code handles before the scan, accepts at position 1.                    *)
Accepts(base, i) ==
    /\ i > 1 => free_list[i - 1] < base
    /\ i <= Len(free_list) => base < free_list[i]

(* The scan stops at the first position it accepts. *)
InsertionPoint(base, i) ==
    /\ i \in 1..(Len(free_list) + 1)
    /\ Accepts(base, i)
    /\ \A j \in 1..(i - 1) : ~Accepts(base, j)

MergesPrevBySize(base, n, i) == i > 1 /\ free_list[i - 1] + n = base

(* pre_page ends where base begins; base + n is where cur_page begins. *)
MergesPrev(base, n, i) == i > 1 /\ free_list[i - 1] + property[free_list[i - 1]] = base
MergesNext(base, n, i) == i <= Len(free_list) /\ base + n = free_list[i]

(* flags after the first loop, which resets every page of the run. *)
Cleared(base, n) == [p \in Page |-> IF p \in Run(base, n) THEN {} ELSE flags[p]]

(* pre_page absorbs base and cur_page. *)
MergeBoth(base, n, i) ==
    LET pre == free_list[i - 1]
        cur == free_list[i] IN
        /\ MergesPrev(base, n, i)
        /\ MergesNext(base, n, i)
        /\ flags' = [Cleared(base, n) EXCEPT ![cur] = @ \ {"PG_property"}]
        /\ property' = [property EXCEPT ![base] = n, ![pre] = @ + n + property[cur]]
        /\ free_list' = RemoveAt(free_list, i)
        /\ nr_free' = nr_free + n

(* pre_page absorbs base. *)
MergePrev(base, n, i) ==
    LET pre == free_list[i - 1] IN
        /\ MergesPrev(base, n, i)
        /\ ~MergesNext(base, n, i)
        /\ flags' = Cleared(base, n)
        /\ property' = [property EXCEPT ![base] = n, ![pre] = @ + n]
        /\ nr_free' = nr_free + n
        /\ UNCHANGED free_list

(* base absorbs cur_page but the flag of cur_page stays. *)
MergeNextKeepsFlag(base, n, i) ==
    LET cur == free_list[i] IN
        /\ MergesNext(base, n, i)
        /\ ~MergesPrev(base, n, i)
        /\ flags' = [Cleared(base, n) EXCEPT ![base] = {"PG_property"}]
        /\ property' = [property EXCEPT ![base] = n + property[cur]]
        /\ free_list' = ReplaceAt(free_list, i, base)
        /\ nr_free' = nr_free + n

(* base absorbs cur_page and takes its place in the list. *)
MergeNext(base, n, i) ==
    LET cur == free_list[i] IN
        /\ MergesNext(base, n, i)
        /\ ~MergesPrev(base, n, i)
        /\ flags' = [Cleared(base, n) EXCEPT ![base] = {"PG_property"},
                                             ![cur] = @ \ {"PG_property"}]
        /\ property' = [property EXCEPT ![base] = n + property[cur]]
        /\ free_list' = ReplaceAt(free_list, i, base)
        /\ nr_free' = nr_free + n

(* No neighbour is adjacent, or the list is empty. *)
InsertAlone(base, n, i) ==
    /\ ~MergesPrev(base, n, i)
    /\ ~MergesNext(base, n, i)
    /\ flags' = [Cleared(base, n) EXCEPT ![base] = {"PG_property"}]
    /\ property' = [property EXCEPT ![base] = n]
    /\ free_list' = InsertAt(free_list, i, base)
    /\ nr_free' = nr_free + n

(* default_free_pages(base, n) on pages the caller holds; a caller may     *)
(* return a part of what it got (default_check frees p0 + 2 of 5 pages).   *)
Free(base, n) ==
    /\ n > 0
    /\ Run(base, n) \subseteq held
    /\ \A p \in Run(base, n) : flags[p] = {}
    /\ \E i \in 1..(Len(free_list) + 1) :
          /\ InsertionPoint(base, i)
          /\ \/ MergeBoth(base, n, i)
             \/ MergePrev(base, n, i)
             \/ MergeNext(base, n, i)
             \/ InsertAlone(base, n, i)
    /\ held' = held \ Run(base, n)
    /\ UNCHANGED ret

-----------------------------------------------------------------------------
(* pmm_init hands over every region before anyone allocates.  Requests of  *)
(* more than NPage + 1 pages behave like one of NPage + 1.                 *)
Next ==
    \/ NextZone
    \/ /\ zone = Len(Zones)
       /\ UNCHANGED zone
       /\ \/ \E n \in 1..(NPage + 1) : Alloc(n)
          \/ \E base \in Page, n \in 1..NPage : Free(base, n)

Spec == Init /\ [][Next]_vars

-----------------------------------------------------------------------------
(* Properties                                                              *)

(* Every variable has its type. *)
TypeOK ==
    /\ free_list \in Seq(Page)
    /\ nr_free \in 0..NPage
    /\ property \in [Page -> 0..NPage]
    /\ flags \in [Page -> SUBSET Flag]
    /\ zone \in 0..Len(Zones)
    /\ held \subseteq Page
    /\ ret \in Result

(* No page is lost or in two places: blocks on the list do not overlap,    *)
(* every managed page is either in one of them or held by a caller, and    *)
(* nr_free is their number.  Whatever the order of the regions.            *)
Conservation ==
    /\ \A i, j \in 1..Len(free_list) : i # j => Block(i) \cap Block(j) = {}
    /\ FreePages \cap held = {}
    /\ FreePages \cup held = Managed
    /\ nr_free = Cardinality(FreePages)

(* PG_property marks exactly the heads of the blocks on the list, so the   *)
(* assertion of free_pages on every page of a run cannot be raised by      *)
(* pages a caller really holds.                                            *)
HeadFlags ==
    \A p \in Page : "PG_property" \in flags[p] <=> p \in ToSet(free_list)

(* The assertions of init_memmap (pages of a region still reserved) and of *)
(* free_pages (pages held neither reserved nor a block head) never fail.   *)
AssertionsHold ==
    /\ \A k \in (zone + 1)..Len(Zones) : \A p \in Run(Zones[k].base, Zones[k].n) :
          flags[p] = {"PG_reserved"}
    /\ \A p \in held : flags[p] = {}

(* The scan of free_pages, a while (1), ends for every page a caller may   *)
(* still free, in whatever order the list is.                              *)
FreeScanEnds ==
    \A base \in held : \E i \in 1..(Len(free_list) + 1) : InsertionPoint(base, i)

(* The list is sorted by address and fully merged: a block ends strictly   *)
(* before the next one begins, so two adjacent blocks never coexist.       *)
SortedAndMerged ==
    \A i, j \in 1..Len(free_list) : i < j =>
        free_list[i] + property[free_list[i]] < free_list[j]

(* First fit in the sense of the comment of default_pmm.c: an allocation   *)
(* takes the lowest run of pages that is long enough.                      *)
LowestFit ==
    [][\A n \in 1..NPage : \A base \in Page :
          (held' \ held = Run(base, n)) =>
              \A b \in 0..(base - 1) : ~(Run(b, n) \subseteq FreePages)]_vars

(* Every behaviour keeps the promise of pmm_manager: an allocation returns *)
(* n free pages in a row, and NULL only if there are none.                 *)
Promise == INSTANCE PageAllocator WITH
    managed <- Managed,
    free <- FreePages,
    Request <- 1..(NPage + 1),
    Places <- LAMBDA n : [base : Page, size : {n}]
PromiseKept == Promise!Spec
=============================================================================

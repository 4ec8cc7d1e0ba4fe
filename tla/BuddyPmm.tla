------------------------------ MODULE BuddyPmm ------------------------------
(***************************************************************************)
(* The buddy system, kern/mm/buddy_pmm.c: the manager pmm.c installs.      *)
(*                                                                         *)
(* Each region of memory gets a struct buddy: a complete binary tree over  *)
(* size pages (a power of two) from begin_page on, kept as the array       *)
(* longest, whose node i has the children 2i + 1 and 2i + 2.  longest[i]   *)
(* is the size of the largest block free below node i; it is 0 at the node *)
(* of an allocated block, and stale below it.  The array itself occupies   *)
(* the first pages of the region; the tree is larger than what is left of  *)
(* it, so init_memmap marks a block at its right end as allocated for      *)
(* ever.  As in DefaultPmm pages are numbers and each call is one step.    *)
(***************************************************************************)
EXTENDS Integers, FiniteSets, Sequences, FiniteSetsExt

CONSTANTS
    NPage,          \* pages of physical memory (npage)
    Zones,          \* regions [base, n] in the order page_init hands them over
    PerPage,        \* size of the tree whose array fills a page: 128 in the code
    NULL

Page == 0..(NPage - 1)
Run(base, n) == base..(base + n - 1)

ASSUME BuddyAssumption == NPage \in Nat /\ PerPage \in Nat \ {0} /\ NULL \notin Int

(* As in DefaultPmm the regions are disjoint and lie inside memory; here   *)
(* they also come in ascending order: a tree is larger than its region,    *)
(* and frees find the right tree only because the trees of higher regions  *)
(* are asked later.                                                        *)
ASSUME ZonesAssumption ==
    /\ Zones \in Seq([base : Nat, n : Nat \ {0}])
    /\ \A k \in 1..Len(Zones) : Run(Zones[k].base, Zones[k].n) \subseteq Page
    /\ \A k \in 1..(Len(Zones) - 1) : Zones[k].base + Zones[k].n <= Zones[k + 1].base

VARIABLES
    mem_buddy,      \* the struct buddy of each region received so far
    reserved,       \* pages with the flag PG_reserved
    panicked,       \* an assertion failed
    held,           \* blocks [base, size] given to callers and not returned
    ret             \* result of the last alloc_pages; for NULL, what was refused

vars == <<mem_buddy, reserved, panicked, held, ret>>

-----------------------------------------------------------------------------
(* Arithmetic                                                              *)

(* The powers of two up to one that no request exceeds. *)
Power[k \in 0..NPage] == IF k = 0 THEN 1 ELSE 2 * Power[k - 1]
Powers == {Power[k] : k \in 0..NPage}
IS_POWER_OF_2(x) == x \in Powers

(* Strictly greater than size, also when size is a power of two itself.    *)
next_power_of_2(size) == CHOOSE p \in Powers : p > size /\ (p = 1 \/ p <= 2 * size)

(* The size of the block that answers a request for n pages. *)
Rounded(n) == IF IS_POWER_OF_2(n) THEN n ELSE next_power_of_2(n)

LEFT_LEAF(index) == 2 * index + 1
RIGHT_LEAF(index) == 2 * index + 2
MAX(a, b) == IF a > b THEN a ELSE b

-----------------------------------------------------------------------------
(* The tree                                                                *)

Nodes(size) == 0..(2 * size - 2)

(* The node i of a tree of the given size stands for NodeSize pages, from  *)
(* NodeOffset on.                                                          *)
NodeSize(size, i) == CHOOSE s \in Powers : size <= (i + 1) * s /\ (i + 1) * s < 2 * size
NodeOffset(size, i) == (i + 1) * NodeSize(size, i) - size

(* PARENT applied once or more. *)
Ancestors(size, i) == {(i + 1) \div p - 1 : p \in {q \in Powers : q > 1 /\ q <= i + 1}}

(* The node i is taken, and the nodes above it hold the larger of their    *)
(* children again, bottom up.                                              *)
Taken(size, longest, i) ==
    LET new[j \in Nodes(size)] ==
            IF j = i THEN 0
            ELSE IF j \in Ancestors(size, i) THEN MAX(new[LEFT_LEAF(j)], new[RIGHT_LEAF(j)])
            ELSE longest[j]
    IN  new

(* Two free halves stay two blocks. *)
MergedNever(size, j, left, right) == MAX(left, right)

(* A node whose halves are free is one free block. *)
Merged(size, j, left, right) ==
    IF left + right = NodeSize(size, j) THEN NodeSize(size, j) ELSE MAX(left, right)

(* The node i is given back, and the nodes above it are merged bottom up. *)
Given(size, longest, i) ==
    LET new[j \in Nodes(size)] ==
            IF j = i THEN NodeSize(size, i)
            ELSE IF j \in Ancestors(size, i)
                 THEN Merged(size, j, new[LEFT_LEAF(j)], new[RIGHT_LEAF(j)])
            ELSE longest[j]
    IN  new

-----------------------------------------------------------------------------
(* init_memmap                                                             *)

(* The cut-off end rounded down instead of up. *)
LayoutRoundedDown(z) ==
    LET v_size == next_power_of_2(z.n)
        array == (v_size + PerPage - 1) \div PerPage
        v_alloced_size == next_power_of_2(v_size - z.n) \div 2
    IN  [size |-> v_size, begin_page |-> z.base + array,
         free_size |-> v_size - v_alloced_size, v_alloced_size |-> v_alloced_size]

(* Where the tree of the region z lies: it begins after the pages of the   *)
(* array, and its last v_alloced_size pages are never given away.          *)
Layout(z) ==
    LET v_size == next_power_of_2(z.n)
        array == (v_size + PerPage - 1) \div PerPage
        v_alloced_size == next_power_of_2(v_size - z.n)
    IN  [size |-> v_size, begin_page |-> z.base + array,
         free_size |-> v_size - v_alloced_size, v_alloced_size |-> v_alloced_size]

(* A tree that is free but for the rightmost node of v_alloced_size pages. *)
InitialTree(l) ==
    Taken(l.size, [i \in Nodes(l.size) |-> NodeSize(l.size, i)],
          2 * (l.size \div l.v_alloced_size) - 2)

Init ==
    /\ mem_buddy = <<>>
    /\ reserved = Page
    /\ panicked = FALSE
    /\ held = {}
    /\ ret = [page |-> NULL, refused |-> 0]

(* buddy_init_memmap(base, n).  The last loop clears the flags of the      *)
(* pages from begin_page up to base + free_size; if it starts beyond that  *)
(* page it runs on until PageReserved(p) fails.                            *)
InitMemmap(z) ==
    LET l == Layout(z)
        end == z.base + l.free_size IN
        /\ mem_buddy' = Append(mem_buddy, [size |-> l.size, begin_page |-> l.begin_page,
                                           free_size |-> l.free_size, longest |-> InitialTree(l)])
        /\ \/ /\ l.begin_page <= end
              /\ reserved' = reserved \ (l.begin_page..(end - 1))
              /\ UNCHANGED panicked
           \/ /\ l.begin_page > end
              /\ panicked' = TRUE
              /\ UNCHANGED reserved

NextZone ==
    /\ ~panicked
    /\ Len(mem_buddy) < Len(Zones)
    /\ InitMemmap(Zones[Len(mem_buddy) + 1])
    /\ UNCHANGED <<held, ret>>

-----------------------------------------------------------------------------
(* alloc_pages                                                             *)

(* The first region whose tree holds a large enough block. *)
FirstZone(k, size) ==
    /\ k \in 1..Len(mem_buddy)
    /\ mem_buddy[k].longest[0] >= size
    /\ \A j \in 1..(k - 1) : mem_buddy[j].longest[0] < size

(* The node of the given size that the walk down from the root ends at. *)
Found(b, size) ==
    LET walk[i \in {j \in Nodes(b.size) : NodeSize(b.size, j) >= size}] ==
            IF NodeSize(b.size, i) = size THEN i
            ELSE IF b.longest[LEFT_LEAF(i)] >= size THEN walk[LEFT_LEAF(i)]
            ELSE walk[RIGHT_LEAF(i)]
    IN  walk[0]

(* Only regions with a block to spare are considered. *)
AllocFailEarly(n) ==
    /\ \A k \in 1..Len(mem_buddy) : mem_buddy[k].longest[0] <= Rounded(n)
    /\ ret' = [page |-> NULL, refused |-> n]
    /\ UNCHANGED <<mem_buddy, held>>

AllocFail(n) ==
    /\ \A k \in 1..Len(mem_buddy) : mem_buddy[k].longest[0] < Rounded(n)
    /\ ret' = [page |-> NULL, refused |-> n]
    /\ UNCHANGED <<mem_buddy, held>>

AllocOk(n) ==
    \E k \in 1..Len(mem_buddy) :
        LET b == mem_buddy[k]
            size == Rounded(n)
            index == Found(b, size)
            page == b.begin_page + NodeOffset(b.size, index) IN
            /\ FirstZone(k, size)
            /\ mem_buddy' = [mem_buddy EXCEPT
                   ![k].longest = Taken(b.size, @, index), ![k].free_size = @ - size]
            /\ held' = held \cup {[base |-> page, size |-> size]}
            /\ ret' = [page |-> page, refused |-> 0]

Alloc(n) == AllocOk(n) \/ AllocFail(n)

-----------------------------------------------------------------------------
(* free_pages                                                              *)

Covers(b, page) == page \in Run(b.begin_page, b.size)

(* The first region whose tree covers the page. *)
OwnerFirst(k, page) ==
    /\ k \in 1..Len(mem_buddy)
    /\ Covers(mem_buddy[k], page)
    /\ \A j \in 1..(k - 1) : ~Covers(mem_buddy[j], page)

(* The search has no break: the last region whose tree covers the page. *)
Owner(k, page) ==
    /\ k \in 1..Len(mem_buddy)
    /\ Covers(mem_buddy[k], page)
    /\ \A j \in (k + 1)..Len(mem_buddy) : ~Covers(mem_buddy[j], page)

(* The nodes marked as allocated on the way from a leaf to the root. *)
Allocated(b, leaf) ==
    {i \in {leaf} \cup Ancestors(b.size, leaf) : b.longest[i] = 0}

(* buddy_free_pages(base, n) does not look at n: it frees the block of the *)
(* first allocated node above base.                                        *)
FreeBlock(base) ==
    \/ /\ \A k \in 1..Len(mem_buddy) : ~Covers(mem_buddy[k], base)
       /\ UNCHANGED mem_buddy
    \/ \E k \in 1..Len(mem_buddy) :
          LET b == mem_buddy[k]
              nodes == Allocated(b, base - b.begin_page + b.size - 1) IN
              /\ Owner(k, base)
              /\ \/ /\ nodes = {}
                    /\ UNCHANGED mem_buddy
                 \/ /\ nodes # {}
                    /\ LET index == Max(nodes) IN
                       mem_buddy' = [mem_buddy EXCEPT
                           ![k].longest = Given(b.size, @, index),
                           ![k].free_size = @ + NodeSize(b.size, index)]

(* A caller gives back a block it got. *)
Free(block) ==
    /\ FreeBlock(block.base)
    /\ held' = held \ {block}
    /\ UNCHANGED ret

NrFreePages ==
    LET total_free_pages[k \in 0..Len(mem_buddy)] ==
            IF k = 0 THEN 0 ELSE total_free_pages[k - 1] + mem_buddy[k].free_size
    IN  total_free_pages[Len(mem_buddy)]

-----------------------------------------------------------------------------
(* pmm_init hands over every region before anyone allocates.  Requests of  *)
(* more than NPage pages behave like one of NPage + 1.                     *)
Next ==
    \/ NextZone
    \/ /\ ~panicked
       /\ Len(mem_buddy) = Len(Zones)
       /\ UNCHANGED <<reserved, panicked>>
       /\ \/ \E n \in 1..(NPage + 1) : Alloc(n)
          \/ \E block \in held : Free(block)

Spec == Init /\ [][Next]_vars

-----------------------------------------------------------------------------
(* Properties                                                              *)

Layouts == [k \in 1..Len(Zones) |-> Layout(Zones[k])]
Managed == UNION {Run(Layouts[k].begin_page, Layouts[k].free_size) : k \in DOMAIN mem_buddy}
Owned == UNION {Run(block.base, block.size) : block \in held}

(* The pages of a tree with no allocated node above them. *)
FreeIn(b) ==
    {page \in Run(b.begin_page, b.size) : Allocated(b, page - b.begin_page + b.size - 1) = {}}
FreePages == UNION {FreeIn(mem_buddy[k]) : k \in DOMAIN mem_buddy}

(* The blocks that can answer a request for n pages: the nodes of a tree   *)
(* that lie in the pages it gives away.  The rest of a tree may reach over *)
(* the next region, whose own tree is aligned differently.                 *)
Places ==
    [n \in 1..(NPage + 1) |->
        UNION {LET l == Layouts[k] IN
               {[base |-> l.begin_page + NodeOffset(l.size, i), size |-> Rounded(n)] :
                   i \in {j \in Nodes(l.size) :
                             /\ NodeSize(l.size, j) = Rounded(n)
                             /\ NodeOffset(l.size, j) + NodeSize(l.size, j) <= l.free_size}} :
               k \in 1..Len(Zones)}]

(* Every variable has its type. *)
TypeOK ==
    /\ Len(mem_buddy) <= Len(Zones)
    /\ \A k \in DOMAIN mem_buddy :
          /\ mem_buddy[k].size \in Powers
          /\ mem_buddy[k].free_size \in 0..mem_buddy[k].size
          /\ mem_buddy[k].longest \in [Nodes(mem_buddy[k].size) -> Powers \cup {0}]
    /\ reserved \subseteq Page
    /\ \A block \in held : block.size \in Powers

(* No page is lost or in two places: blocks held by callers do not overlap *)
(* one another nor the free pages, together they are all the pages the     *)
(* trees started with, and nr_free_pages is the number of free ones.       *)
Conservation ==
    /\ \A x, y \in held : x # y => Run(x.base, x.size) \cap Run(y.base, y.size) = {}
    /\ FreePages \cap Owned = {}
    /\ FreePages \cup Owned = Managed
    /\ NrFreePages = Cardinality(FreePages)

(* "Each node records the largest number of pages that can be allocated    *)
(* among the pages it manages" (report_ex4): at every node that is not     *)
(* inside an allocated block, longest is the size of the largest node      *)
(* below it whose pages nobody holds.                                      *)
TreeExact ==
    \A k \in DOMAIN mem_buddy :
        LET b == mem_buddy[k]
            Pages(j) == Run(b.begin_page + NodeOffset(b.size, j), NodeSize(b.size, j))
            Own == Run(b.begin_page, Layouts[k].free_size)
            Vacant == {j \in Nodes(b.size) : Pages(j) \subseteq Own \ Owned}
        IN  \A i \in Nodes(b.size) :
               (\A a \in Ancestors(b.size, i) : b.longest[a] # 0) =>
                   b.longest[i] =
                       Max({0} \cup {NodeSize(b.size, j) : j \in
                              {v \in Vacant : v = i \/ i \in Ancestors(b.size, v)}})

(* Pages given to callers lie inside one region, behind its array. *)
InsideRegion ==
    \A block \in held : \E k \in DOMAIN mem_buddy :
        Run(block.base, block.size) \subseteq
            Layouts[k].begin_page..(Zones[k].base + Zones[k].n - 1)

(* Every behaviour keeps the promise of pmm_manager: an allocation returns *)
(* a free block of the rounded size at a node of some tree, and NULL only  *)
(* if there is none.                                                       *)
Promise == INSTANCE PageAllocator WITH
    managed <- Managed,
    free <- FreePages,
    Request <- 1..(NPage + 1),
    Places <- LAMBDA n : Places[n]
PromiseKept == Promise!Spec
=============================================================================

--------------------------- MODULE PageAllocator ---------------------------
(***************************************************************************)
(* What a pmm_manager promises its callers (kern/mm/pmm.h, struct          *)
(* pmm_manager): a set of page frames it manages, a subset of them free,   *)
(* and three operations on them.  How blocks are found, split and merged   *)
(* is left to the two implementations, DefaultPmm (first fit) and BuddyPmm *)
(* (buddy system), each of which is shown to implement this module.        *)
(***************************************************************************)
EXTENDS Integers

CONSTANTS
    Page,           \* the page frames of the machine
    Request,        \* the numbers of pages callers ask for or hand over
    Places(_),      \* Places(n): the [base, size] blocks that answer a request for n
    NULL            \* the result of an allocation that fails

VARIABLES
    managed,        \* page frames handed to the manager
    free,           \* those that an allocation may still return
    ret             \* result of the last alloc_pages; for NULL, what was refused

vars == <<managed, free, ret>>

(* The page frames base .. base + n - 1. *)
Run(base, n) == base..(base + n - 1)

Init ==
    /\ managed = {}
    /\ free = {}
    /\ ret = [page |-> NULL, refused |-> 0]

(* init_memmap: a region of usable memory joins the managed pages. *)
AddZone(zone) ==
    /\ zone \cap managed = {}
    /\ managed' = managed \cup zone
    /\ free' = free \cup zone
    /\ UNCHANGED ret

(* alloc_pages(n) takes a suitable block out of the free pages ... *)
AllocOk(n) ==
    \E block \in Places(n) :
        LET taken == Run(block.base, block.size) IN
            /\ taken \subseteq free
            /\ free' = free \ taken
            /\ ret' = [page |-> block.base, refused |-> 0]
            /\ UNCHANGED managed

(* ... and returns NULL only when no suitable block is free. *)
AllocFail(n) ==
    /\ \A block \in Places(n) : ~(Run(block.base, block.size) \subseteq free)
    /\ ret' = [page |-> NULL, refused |-> n]
    /\ UNCHANGED <<managed, free>>

(* free_pages: pages in use become free. *)
Free(pages) ==
    /\ pages # {}
    /\ pages \subseteq managed \ free
    /\ free' = free \cup pages
    /\ UNCHANGED <<managed, ret>>

Next ==
    \/ \E n \in Request : AllocOk(n) \/ AllocFail(n)
    \/ \E base \in Page, n \in Request : AddZone(Run(base, n)) \/ Free(Run(base, n))

Spec == Init /\ [][Next]_vars
=============================================================================

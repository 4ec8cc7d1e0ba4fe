---------------------------- MODULE AddressSpace ----------------------------
(***************************************************************************)
(* What page_insert and page_remove promise their callers (the comments    *)
(* before them in kern/mm/pmm.c): an address space is a function from      *)
(* pages of linear addresses to page frames, and a frame lives until its   *)
(* last mapping goes.  Page tables, reference counts and the TLB are means *)
(* to that end and do not appear; Paging implements this module.           *)
(***************************************************************************)
CONSTANTS Frame, Linear, NULL

VARIABLES
    space,          \* the frame each linear page is mapped to, or NULL
    live            \* frames the callers of alloc_page still own

vars == <<space, live>>

Mapped(s) == {s[la] : la \in Linear} \ {NULL}

Init ==
    /\ space = [la \in Linear |-> NULL]
    /\ live = {}

(* alloc_page: a frame nobody owns. *)
Alloc ==
    \E page \in Frame \ live :
        /\ live' = live \cup {page}
        /\ UNCHANGED space

(* The mapping of la is replaced; a frame that thereby loses its last      *)
(* mapping dies.                                                           *)
Replace(la, page) ==
    /\ space' = [space EXCEPT ![la] = page]
    /\ live' = live \ (Mapped(space) \ Mapped(space'))

Insert(la, page) == page \in live /\ Replace(la, page)
Remove(la) == space[la] # NULL /\ Replace(la, NULL)

(* free_page by an owner who has not mapped the frame. *)
Release(page) ==
    /\ page \in live \ Mapped(space)
    /\ live' = live \ {page}
    /\ UNCHANGED space

Next ==
    \/ Alloc
    \/ \E la \in Linear : Remove(la) \/ \E page \in Frame : Insert(la, page)
    \/ \E page \in Frame : Release(page)

Spec == Init /\ [][Next]_vars
=============================================================================

------------------------------- MODULE Paging -------------------------------
(***************************************************************************)
(* The page tables of kern/mm/pmm.c: get_pte, page_insert, page_remove,    *)
(* tlb_invalidate, and the way check_boot_pgdir takes its mappings down.   *)
(*                                                                         *)
(* Linear addresses are pairs of a page directory index and a page table   *)
(* index.  The physical memory manager appears through what it promises    *)
(* (PageAllocator with one-page requests): alloc_page returns any free     *)
(* frame.  The TLB is the processor's: it may load a translation from the  *)
(* tables, or drop one, at any time.  boot_pgdir is the directory in use.  *)
(***************************************************************************)
EXTENDS Integers, FiniteSets

CONSTANTS
    Frame,          \* page frames the manager hands out one at a time
    Dir,            \* indices of the page directory (PDX)
    Slot,           \* indices of a page table (PTX)
    Perm,           \* permissions of a mapping
    ResetsRef,      \* does free_pages of the manager set ref to 0?
    NULL

Linear == Dir \X Slot

(* A present entry; an absent one is NULL. *)
Entry == [page : Frame, perm : Perm]

ASSUME ResetsRefAssumption == ResetsRef \in BOOLEAN
ASSUME IndexAssumption == IsFiniteSet(Dir) /\ IsFiniteSet(Slot) /\ Perm # {}
ASSUME NULLAssumption == NULL \notin Frame /\ NULL \notin Entry

VARIABLES
    free,           \* frames the manager may hand out
    ref,            \* Page.ref
    pgdir,          \* boot_pgdir: the frame of the page table, or NULL
    table,          \* contents of each frame as a page table
    tlb,            \* translations the processor has cached
    held,           \* frames from alloc_page whose owner may still use them
    panicked        \* a panic, or an access through a NULL page

vars == <<free, ref, pgdir, table, tlb, held, panicked>>

(* What the tables say of the linear page la. *)
Walk(la) == IF pgdir[la[1]] = NULL THEN NULL ELSE table[pgdir[la[1]]][la[2]]

(* What a frame that is not a page table holds: an entry to anywhere.      *)
Junk == CHOOSE e \in Entry : TRUE

Mappings(f) == {la \in Linear : Walk(la) # NULL /\ Walk(la).page = f}

Init ==
    /\ free = Frame
    /\ ref = [f \in Frame |-> 0]
    /\ pgdir = [d \in Dir |-> NULL]
    /\ table = [f \in Frame |-> [s \in Slot |-> Junk]]
    /\ tlb = [la \in Linear |-> NULL]
    /\ held = {}
    /\ panicked = FALSE

-----------------------------------------------------------------------------
(* Callers of the manager                                                  *)

(* ref after frames are handed back: the first-fit manager clears it, the  *)
(* buddy system does not touch it.                                         *)
Released(r, frames) ==
    IF ResetsRef THEN [f \in Frame |-> IF f \in frames THEN 0 ELSE r[f]] ELSE r

(* alloc_page; the owner writes something into the frame. *)
AllocPage ==
    \E page \in free :
        /\ free' = free \ {page}
        /\ held' = held \cup {page}
        /\ table' = [table EXCEPT ![page] = [s \in Slot |-> Junk]]
        /\ UNCHANGED <<ref, pgdir, tlb, panicked>>

(* An owner gives back a frame that is not mapped. *)
FreePage ==
    \E page \in held :
        /\ Mappings(page) = {}
        /\ free' = free \cup {page}
        /\ ref' = Released(ref, {page})
        /\ held' = held \ {page}
        /\ UNCHANGED <<pgdir, table, tlb, panicked>>

-----------------------------------------------------------------------------
(* page_insert and page_remove                                             *)

(* The memory the functions change. *)
Memory == [free |-> free, ref |-> ref, pgdir |-> pgdir, table |-> table, tlb |-> tlb]

(* get_pte(pgdir, la, 1) with a new, cleared page table in frame t. *)
WithTable(m, d, t) ==
    [m EXCEPT !.free = @ \ {t}, !.ref[t] = 1, !.pgdir[d] = t,
              !.table[t] = [s \in Slot |-> NULL]]

(* The entry is cleared but its translation stays in the TLB. *)
RemovePteNoFlush(m, la) ==
    LET t == m.pgdir[la[1]]
        page == m.table[t][la[2]].page
        less == [m.ref EXCEPT ![page] = @ - 1]
        gone == IF m.ref[page] = 1 THEN {page} ELSE {} IN
    [m EXCEPT !.ref = Released(less, gone),
              !.free = @ \cup gone,
              !.table[t][la[2]] = NULL]

(* The page is freed with its first lost reference. *)
RemovePteEarlyFree(m, la) ==
    LET t == m.pgdir[la[1]]
        page == m.table[t][la[2]].page
        less == [m.ref EXCEPT ![page] = @ - 1] IN
    [m EXCEPT !.ref = Released(less, {page}),
              !.free = @ \cup {page},
              !.table[t][la[2]] = NULL,
              !.tlb[la] = NULL]

(* page_remove_pte on a present entry (page_remove does nothing without a  *)
(* table, and an absent entry makes pte2page panic): the page loses a      *)
(* reference, with the last one it is freed; the entry and its translation *)
(* are cleared.                                                            *)
RemovePte(m, la) ==
    LET t == m.pgdir[la[1]]
        page == m.table[t][la[2]].page
        less == [m.ref EXCEPT ![page] = @ - 1]
        gone == IF m.ref[page] = 1 THEN {page} ELSE {} IN
    [m EXCEPT !.ref = Released(less, gone),
              !.free = @ \cup gone,
              !.table[t][la[2]] = NULL,
              !.tlb[la] = NULL]

(* The old mapping goes before the new one is counted. *)
InsertPteLate(m, la, page, perm) ==
    LET t == m.pgdir[la[1]]
        old == m.table[t][la[2]]
        n == IF old = NULL THEN m ELSE RemovePte(m, la) IN
    [n EXCEPT !.ref[page] = @ + 1,
              !.table[t][la[2]] = [page |-> page, perm |-> perm], !.tlb[la] = NULL]

(* page_insert once the table exists: the page is counted first, so that   *)
(* mapping it again where it already is does not free it.                  *)
InsertPte(m, la, page, perm) ==
    LET t == m.pgdir[la[1]]
        old == m.table[t][la[2]]
        counted == [m EXCEPT !.ref[page] = @ + 1]
        n == IF old = NULL THEN counted
             ELSE IF old.page = page THEN m
             ELSE RemovePte(counted, la) IN
    [n EXCEPT !.table[t][la[2]] = [page |-> page, perm |-> perm], !.tlb[la] = NULL]

(* The state becomes m; a page freed on the way has no owner any more. *)
Becomes(m) ==
    /\ free' = m.free /\ ref' = m.ref /\ pgdir' = m.pgdir
    /\ table' = m.table /\ tlb' = m.tlb
    /\ held' = held \ m.free

PageInsert(page, la, perm) ==
    /\ pgdir[la[1]] # NULL
    /\ Becomes(InsertPte(Memory, la, page, perm))
    /\ UNCHANGED panicked

PageInsertNewTable(page, la, perm) ==
    /\ pgdir[la[1]] = NULL
    /\ \E t \in free : Becomes(InsertPte(WithTable(Memory, la[1], t), la, page, perm))
    /\ UNCHANGED panicked

(* alloc_page returned NULL, which get_pte does not check. *)
PageInsertNoMemory(la) ==
    /\ pgdir[la[1]] = NULL
    /\ free = {}
    /\ panicked' = TRUE
    /\ UNCHANGED <<free, ref, pgdir, table, tlb, held>>

PageRemove(la) ==
    /\ Walk(la) # NULL
    /\ Becomes(RemovePte(Memory, la))
    /\ UNCHANGED panicked

-----------------------------------------------------------------------------
(* The processor loads a translation, or drops one. *)
TlbLoad(la) ==
    /\ Walk(la) # NULL
    /\ tlb[la] = NULL
    /\ tlb' = [tlb EXCEPT ![la] = Walk(la)]
    /\ UNCHANGED <<free, ref, pgdir, table, held, panicked>>

TlbEvict(la) ==
    /\ tlb[la] # NULL
    /\ tlb' = [tlb EXCEPT ![la] = NULL]
    /\ UNCHANGED <<free, ref, pgdir, table, held, panicked>>

-----------------------------------------------------------------------------
(* check_pgdir takes down a table whose entries it has removed, without    *)
(* giving back its reference.                                              *)
FreeEmptyTable(d) ==
    /\ pgdir[d] # NULL
    /\ \A s \in Slot : table[pgdir[d]][s] = NULL
    /\ free' = free \cup {pgdir[d]}
    /\ ref' = Released(ref, {pgdir[d]})
    /\ pgdir' = [pgdir EXCEPT ![d] = NULL]
    /\ UNCHANGED <<table, tlb, held, panicked>>

(* The end of check_boot_pgdir: the page mapped through d is freed, then   *)
(* the table, and the directory entry is cleared, with no invalidation.    *)
FreeMappedTable(d) ==
    /\ pgdir[d] # NULL
    /\ \E page \in held :
          /\ {Walk(<<d, s>>) : s \in Slot} \ {NULL} # {}
          /\ \A s \in Slot : Walk(<<d, s>>) # NULL => Walk(<<d, s>>).page = page
          /\ Mappings(page) \subseteq {d} \X Slot
          /\ free' = free \cup {page, pgdir[d]}
          /\ ref' = Released(ref, {page, pgdir[d]})
          /\ held' = held \ {page}
    /\ pgdir' = [pgdir EXCEPT ![d] = NULL]
    /\ UNCHANGED <<table, tlb, panicked>>

-----------------------------------------------------------------------------
(* Callers that insert only while a frame is left for the table, remove    *)
(* only what is mapped, and take down only empty tables ...                *)
Careful ==
    \/ AllocPage
    \/ FreePage
    \/ \E la \in Linear :
          \/ \E page \in held, perm \in Perm :
                PageInsert(page, la, perm) \/ PageInsertNewTable(page, la, perm)
          \/ PageRemove(la)
          \/ TlbLoad(la)
          \/ TlbEvict(la)
    \/ \E d \in Dir : FreeEmptyTable(d)

Spec == Init /\ [][Careful]_vars

(* ... callers that do not know how much memory is left ...                *)
AnyInsert == ~panicked /\ (Careful \/ \E la \in Linear : held # {} /\ PageInsertNoMemory(la))

SpecAnyInsert == Init /\ [][AnyInsert]_vars

(* ... and the self-test of the boot sequence. *)
SelfTest == Careful \/ \E d \in Dir : FreeMappedTable(d)

SpecSelfTest == Init /\ [][SelfTest]_vars

-----------------------------------------------------------------------------
(* Properties                                                              *)

Tables == {pgdir[d] : d \in Dir} \ {NULL}

(* Every variable has its type. *)
TypeOK ==
    /\ free \subseteq Frame
    /\ ref \in [Frame -> Nat]
    /\ pgdir \in [Dir -> Frame \cup {NULL}]
    /\ table \in [Frame -> [Slot -> Entry \cup {NULL}]]
    /\ tlb \in [Linear -> Entry \cup {NULL}]
    /\ held \subseteq Frame
    /\ panicked \in BOOLEAN

(* ref counts the references of the page tables to a frame in use: one for *)
(* each mapping of it, or one if it is a page table itself.                *)
RefCount ==
    \A f \in Frame \ free :
        ref[f] = Cardinality(Mappings(f)) + Cardinality({d \in Dir : pgdir[d] = f})

(* Every frame is free, a page table, or owned by a caller, and never two  *)
(* of these; only owned frames are mapped, and no table serves two entries *)
(* of the directory: nothing leaks, and no mapping outlives its frame.     *)
FramesAccounted ==
    /\ Frame = free \cup Tables \cup held
    /\ free \cap Tables = {} /\ free \cap held = {} /\ Tables \cap held = {}
    /\ \A la \in Linear : Walk(la) # NULL => Walk(la).page \in held
    /\ \A d, e \in Dir : pgdir[d] = pgdir[e] /\ pgdir[d] # NULL => d = e

(* "PT is changed, so the TLB need to be invalidate" (page_remove_pte,     *)
(* page_insert): a cached translation is always the one in the tables, so  *)
(* the processor cannot reach a frame that was unmapped or freed.          *)
TlbCoherent ==
    \A la \in Linear : tlb[la] # NULL => tlb[la] = Walk(la)

(* No call of page_insert or page_remove ends in a panic or a fault. *)
NoPanic == ~panicked

(* "free this page when page reference reachs 0" (page_remove_pte): an     *)
(* owned frame that loses its last mapping is free after the step.         *)
FreedWithLastMapping ==
    [][\A f \in held : Mappings(f) # {} /\ Mappings(f)' = {} => f \in free']_vars

(* Callers see an address space: a function from linear pages to frames,   *)
(* of which page_insert and page_remove change one point at a time, and    *)
(* a frame dies exactly with its last mapping.                             *)
Space == INSTANCE AddressSpace WITH
    space <- [la \in Linear |-> IF Walk(la) = NULL THEN NULL ELSE Walk(la).page],
    live <- held
SpaceKept == Space!Spec
=============================================================================

---------------------------- MODULE DefaultCheck ----------------------------
(***************************************************************************)
(* The first-fit manager on the real list, and its self-test.              *)
(*                                                                         *)
(* ring is the heap of the links: free_list of DefaultPmm is what it       *)
(* stands for (RingIsList).  Before anyone else allocates, pmm_init runs   *)
(* default_check, which twice puts the head of the list and nr_free aside, *)
(* tests on a list of its own and puts them back.                          *)
(***************************************************************************)
EXTENDS DefaultPmm, FreeList

CONSTANTS
    Tested,     \* FALSE: start behind the self-test, which leaves no trace
    MaxUses     \* bound: calls after the self-test, 0 for any number

VARIABLES
    ring,
    pc,         \* the next row of Script, or how many calls came after it
    ptr,        \* the test's variables
    saved,      \* free_list_store and nr_free_store
    counted     \* count and total

(* The list head free_area.free_list, a node that is no page. *)
Head_ == -1
Node == Page \cup {Head_}

-----------------------------------------------------------------------------
(* What the manager's operations do to the links.                          *)

(* page leaves before its remainder is linked behind it. *)
RingAllocLate(page, n) ==
    LET h == list_del(ring, page)
    IN  IF property[page] > n THEN list_add(h, page, page + n) ELSE h

RingAlloc(page, n) ==
    list_del(IF property[page] > n THEN list_add(ring, page, page + n) ELSE ring, page)

(* cur_le is position i; the ring's head stands behind the last block. *)
RingFree(base, n, i) ==
    LET cur == IF i <= Len(free_list) THEN free_list[i] ELSE Head_ IN
    CASE list_empty(ring, Head_) -> list_add(ring, Head_, base)
      [] MergesPrev(base, n, i) /\ MergesNext(base, n, i) -> list_del(ring, cur)
      [] MergesPrev(base, n, i) /\ ~MergesNext(base, n, i) -> ring
      [] ~MergesPrev(base, n, i) /\ MergesNext(base, n, i) ->
            list_del(list_add_before(ring, cur, base), cur)
      [] OTHER -> list_add_before(ring, cur, base)

ListInitMemmap ==
    /\ NextZone
    /\ ring' = list_add(ring, Head_, Zones[zone + 1].base)
    /\ UNCHANGED <<pc, ptr, saved, counted>>

ListAlloc(n) ==
    \/ AllocFail(n) /\ UNCHANGED ring
    \/ \E i \in 1..Len(free_list) :
          /\ FirstFit(i, n)
          /\ AllocWhole(i, n) \/ AllocSplit(i, n)
          /\ ring' = RingAlloc(free_list[i], n)

ListFree(base, n) ==
    /\ Free(base, n)
    /\ \E i \in 1..(Len(free_list) + 1) : InsertionPoint(base, i) /\ ring' = RingFree(base, n, i)

-----------------------------------------------------------------------------
(* The self-test: one row for each call.                                   *)

Get(v, n) == [op |-> "get", v |-> v, n |-> n]
None(n) == [op |-> "none", n |-> n]
Put(v, off, n) == [op |-> "put", v |-> v, off |-> off, n |-> n]
Do(op) == [op |-> op]

basic_check ==
    <<Get("p0", 1), Get("p1", 1), Get("p2", 1), Do("store list"), Do("store nr_free"), None(1),
      Put("p0", 0, 1), Put("p1", 0, 1), Put("p2", 0, 1),
      Get("p0", 1), Get("p1", 1), Get("p2", 1), None(1), Put("p0", 0, 1),
      Get("p", 1), None(1), Do("restore list"), Do("restore nr_free"),
      Put("p", 0, 1), Put("p1", 0, 1), Put("p2", 0, 1)>>

Script ==
    <<Do("count")>> \o basic_check \o
    <<Get("p0", 5), Do("store list"), None(1), Do("store nr_free"), Put("p0", 2, 3), None(4),
      Get("p1", 3), None(1), Do("p2 = p0 + 1"), Put("p0", 0, 1), Put("p1", 0, 3),
      Get("p0", 1), Put("p0", 0, 1), Get("p0", 2), Put("p0", 0, 2), Put("p2", 0, 1),
      Get("p0", 5), None(1), Do("restore nr_free"), Do("restore list"),
      Put("p0", 0, 5), Do("recount"), Do("return")>>

Total == FoldLeft(LAMBDA sum, page : sum + property[page], 0, free_list)

(* The head by value; the blocks' own links were not touched. *)
RestoreHead(h) == [h EXCEPT !.prev[Head_] = saved.prev, !.next[Head_] = saved.next]

Bookkeeping(op) ==
    /\ op = "count" => counted' = [count |-> Len(free_list), total |-> Total]
    /\ op # "count" => UNCHANGED counted
    /\ op = "p2 = p0 + 1" => ptr' = [ptr EXCEPT !["p2"] = ptr["p0"] + 1]
    /\ op # "p2 = p0 + 1" => UNCHANGED ptr
    /\ CASE op = "store list" ->
              /\ saved' = [list |-> free_list, next |-> ring.next[Head_],
                           prev |-> ring.prev[Head_], nr_free |-> nr_free]
              /\ free_list' = <<>> /\ ring' = list_init(ring, Head_)
              /\ UNCHANGED nr_free
         [] op = "store nr_free" -> nr_free' = 0 /\ UNCHANGED <<saved, free_list, ring>>
         [] op = "restore list" ->
              /\ free_list' = saved.list /\ ring' = RestoreHead(ring)
              /\ UNCHANGED <<saved, nr_free>>
         [] op = "restore nr_free" ->
              nr_free' = saved.nr_free /\ UNCHANGED <<saved, free_list, ring>>
         [] op = "return" -> saved' = NULL /\ UNCHANGED <<nr_free, free_list, ring>>
         [] OTHER -> UNCHANGED <<saved, nr_free, free_list, ring>>
    /\ UNCHANGED <<property, flags, held, ret>>

ListInit ==
    /\ Init
    /\ ring = list_init([prev |-> [e \in Node |-> NULL], next |-> [e \in Node |-> NULL]], Head_)
    /\ pc = IF Tested THEN 1 ELSE Len(Script) + 1
    /\ ptr = [v \in {"p0", "p1", "p2", "p"} |-> NULL]
    /\ saved = NULL /\ counted = NULL

CheckStep ==
    /\ zone = Len(Zones) /\ pc <= Len(Script)
    /\ LET row == Script[pc] IN
       CASE row.op = "get" ->
              ListAlloc(row.n) /\ ptr' = [ptr EXCEPT ![row.v] = ret'.page] /\ UNCHANGED <<saved, counted>>
         [] row.op = "none" -> ListAlloc(row.n) /\ UNCHANGED <<ptr, saved, counted>>
         [] row.op = "put" ->
              ListFree(ptr[row.v] + row.off, row.n) /\ UNCHANGED <<ptr, saved, counted>>
         [] OTHER -> Bookkeeping(row.op)
    /\ pc' = pc + 1
    /\ UNCHANGED zone

(* pmm_init goes on when check_alloc_page has returned. *)
Use ==
    /\ pc > Len(Script)
    /\ pc' = IF MaxUses = 0 THEN pc ELSE pc + 1
    /\ MaxUses > 0 => pc' <= Len(Script) + 1 + MaxUses
    /\ zone = Len(Zones)
    /\ \/ \E n \in 1..(NPage + 1) : ListAlloc(n)
       \/ \E base \in Page, n \in 1..NPage : ListFree(base, n)
    /\ UNCHANGED <<zone, ptr, saved, counted>>

CheckNext == ListInitMemmap \/ CheckStep \/ Use

ListSpec == ListInit /\ [][CheckNext]_<<vars, ring, pc, ptr, saved, counted>>

-----------------------------------------------------------------------------
(* Properties                                                              *)

PageProperty(p) == "PG_property" \in flags[p]

(* What default_check asserts after its k-th call, but for page_ref, which *)
(* this module does not keep.                                              *)
Asserted(k) ==
    /\ Script[k].op = "get" => ret.page # NULL
    /\ Script[k].op = "none" => ret.page = NULL
    /\ Script[k].op = "store list" => list_empty(ring, Head_)
    /\ CASE k = 1 -> (\A i \in 1..Len(free_list) : PageProperty(free_list[i])) /\ Total = nr_free
         [] k = 4 -> /\ Cardinality({ptr["p0"], ptr["p1"], ptr["p2"]}) = 3
                     /\ {ptr["p0"], ptr["p1"], ptr["p2"]} \subseteq Page
         [] k = 10 -> nr_free = 3
         [] k = 15 -> ~list_empty(ring, Head_)
         [] k = 16 -> ptr["p"] = ptr["p0"]
         [] k = 17 -> nr_free = 0
         [] k = 23 -> ~PageProperty(ptr["p0"])
         [] k = 28 -> PageProperty(ptr["p0"] + 2) /\ property[ptr["p0"] + 2] = 3
         [] k = 30 -> ptr["p0"] + 2 = ptr["p1"]
         [] k = 33 -> /\ PageProperty(ptr["p0"]) /\ property[ptr["p0"]] = 1
                      /\ PageProperty(ptr["p1"]) /\ property[ptr["p1"]] = 3
         [] k = 34 -> ptr["p0"] = ptr["p2"] - 1
         [] k = 36 -> ptr["p0"] = ptr["p2"] + 1
         [] k = 40 -> nr_free = 0
         [] k = 44 -> Len(free_list) = counted.count /\ Total = counted.total
         [] OTHER -> TRUE

(* default_check: its assertions hold, whatever the order of the list it   *)
(* starts from, and when it returns the links it put aside and back still  *)
(* make up the list of before.                                             *)
SelfTestPasses == pc \in 2..(Len(Script) + 1) /\ Script[pc - 1].op # "return" => Asserted(pc - 1)

(* list.h under default_pmm.c: read from the head in either direction, the *)
(* links are the list of free blocks, also while a part of it is put aside.*)
RingIsList ==
    IsRing(ring, <<Head_>> \o free_list) /\ (list_empty(ring, Head_) <=> free_list = <<>>)

(* Whatever the order of the regions: once the self-test is over no page   *)
(* is lost, and at any time the scan of free_pages ends.                   *)
AnyOrder == (pc = 1 \/ pc > Len(Script) => Conservation) /\ FreeScanEnds
=============================================================================

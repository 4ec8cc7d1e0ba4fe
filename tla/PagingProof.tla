------------------------------ MODULE PagingProof ------------------------------
(***************************************************************************)
(* Proofs about Paging, for any number of frames, any directory and any    *)
(* size of a table, with a manager that clears ref when it gets a frame    *)
(* back (ResetsRef).  The functions of pmm.c change a memory record m; the *)
(* callers own the frames h.                                               *)
(***************************************************************************)
EXTENDS Paging, FiniteSetTheorems, TLAPS

EntryOrNull == Entry \cup {NULL}

(* What the memory m says of every linear page, and the pages mapped to f. *)
View(m) ==
    [la \in Linear |-> IF m.pgdir[la[1]] = NULL THEN NULL ELSE m.table[m.pgdir[la[1]]][la[2]]]
MapSet(W, f) == {la \in Linear : W[la] # NULL /\ W[la].page = f}
Count(W, f) == Cardinality(MapSet(W, f))
Put(W, la, e) == [W EXCEPT ![la] = e]
MappedIn(W) == {f \in Frame : MapSet(W, f) # {}}

MemoryType ==
    [free : SUBSET Frame, ref : [Frame -> Nat], pgdir : [Dir -> Frame \cup {NULL}],
     table : [Frame -> [Slot -> EntryOrNull]], tlb : [Linear -> EntryOrNull]]

TableOf(m, f) == \E d \in Dir : m.pgdir[d] = f

(* Every frame has one use; only owned frames are mapped.                  *)
Sorted(m, h) ==
    /\ h \subseteq Frame
    /\ \A f \in Frame : f \in m.free \/ TableOf(m, f) \/ f \in h
    /\ \A f \in Frame : /\ ~(f \in m.free /\ TableOf(m, f))
                        /\ ~(f \in m.free /\ f \in h)
                        /\ ~(TableOf(m, f) /\ f \in h)
    /\ \A la \in Linear : View(m)[la] # NULL => View(m)[la].page \in h
    /\ \A d, e \in Dir : m.pgdir[d] = m.pgdir[e] /\ m.pgdir[d] # NULL => d = e

(* An owned frame counts its mappings and a table counts one.  Where       *)
(* free_pages leaves ref alone, a frame may come with a ref from its last  *)
(* use and count too many, but never too few.                              *)
Counted(m, h) ==
    /\ \A f \in h : m.ref[f] >= Count(View(m), f)
    /\ \A f \in Frame : TableOf(m, f) => m.ref[f] = 1

(* Where it clears ref, a free frame counts none: alloc_page does not      *)
(* write ref.                                                              *)
Exact(m, h) ==
    /\ \A f \in h : m.ref[f] = Count(View(m), f)
    /\ \A f \in m.free : m.ref[f] = 0

Coherent(m) == \A la \in Linear : m.tlb[la] # NULL => m.tlb[la] = View(m)[la]

Good(m, h) ==
    /\ m \in MemoryType
    /\ Sorted(m, h)
    /\ Counted(m, h) /\ (ResetsRef => Exact(m, h))
    /\ Coherent(m)

-----------------------------------------------------------------------------
(* Counting mappings                                                       *)

LEMMA LinearFinite == IsFiniteSet(Linear)
BY IndexAssumption, FS_Product DEF Linear

LEMMA CountType ==
    ASSUME NEW W, NEW f
    PROVE  /\ IsFiniteSet(MapSet(W, f)) /\ Count(W, f) \in Nat
           /\ Count(W, f) = 0 <=> MapSet(W, f) = {}
<1>1. IsFiniteSet(MapSet(W, f))
  <2>1. MapSet(W, f) \in SUBSET Linear
    BY DEF MapSet
  <2>2. QED
    BY <2>1, LinearFinite, FS_Subset
<1>2. QED
  BY <1>1, FS_CardinalityType, FS_EmptySet DEF Count

(* A linear page mapped anew leaves the count of its old frame and enters  *)
(* that of its new one.                                                    *)
LEMMA Remapped ==
    ASSUME NEW W \in [Linear -> EntryOrNull], NEW la \in Linear, NEW e \in EntryOrNull, NEW f,
           NEW W2, W2 = Put(W, la, e)
    PROVE  /\ W[la] # NULL /\ W[la].page = f /\ ~(e # NULL /\ e.page = f) =>
                 MapSet(W2, f) = MapSet(W, f) \ {la} /\ Count(W2, f) = Count(W, f) - 1
           /\ ~(W[la] # NULL /\ W[la].page = f) /\ e # NULL /\ e.page = f =>
                 MapSet(W2, f) = MapSet(W, f) \cup {la} /\ Count(W2, f) = Count(W, f) + 1
           /\ (W[la] # NULL /\ W[la].page = f <=> e # NULL /\ e.page = f) =>
                 MapSet(W2, f) = MapSet(W, f)
<1>1. IsFiniteSet(MapSet(W, f))
  BY CountType
<1>2. \A x \in Linear : W2[x] = IF x = la THEN e ELSE W[x]
  BY DEF Put
<1>3. la \in MapSet(W, f) <=> W[la] # NULL /\ W[la].page = f
  BY DEF MapSet
<1>4. ASSUME W[la] # NULL /\ W[la].page = f /\ ~(e # NULL /\ e.page = f)
      PROVE  MapSet(W2, f) = MapSet(W, f) \ {la} /\ Count(W2, f) = Count(W, f) - 1
  <2>1. MapSet(W2, f) = MapSet(W, f) \ {la}
    BY <1>2, <1>4 DEF MapSet
  <2>2. la \in MapSet(W, f)
    BY <1>3, <1>4
  <2>3. Cardinality(MapSet(W, f) \ {la}) = Cardinality(MapSet(W, f)) - 1
    BY ONLY <1>1, <2>2, FS_RemoveElement
  <2>4. QED
    BY ONLY <2>1, <2>3 DEF Count
<1>5. ASSUME ~(W[la] # NULL /\ W[la].page = f) /\ e # NULL /\ e.page = f
      PROVE  MapSet(W2, f) = MapSet(W, f) \cup {la} /\ Count(W2, f) = Count(W, f) + 1
  <2>1. MapSet(W2, f) = MapSet(W, f) \cup {la}
    BY <1>2, <1>5 DEF MapSet
  <2>2. la \notin MapSet(W, f)
    BY <1>3, <1>5
  <2>3. Cardinality(MapSet(W, f) \cup {la}) = Cardinality(MapSet(W, f)) + 1
    BY ONLY <1>1, <2>2, FS_AddElement
  <2>4. QED
    BY ONLY <2>1, <2>3 DEF Count
<1>6. ASSUME W[la] # NULL /\ W[la].page = f <=> e # NULL /\ e.page = f
      PROVE  MapSet(W2, f) = MapSet(W, f)
  BY <1>2, <1>6 DEF MapSet
<1>7. QED
  BY ONLY <1>4, <1>5, <1>6

LEMMA ViewType ==
    ASSUME NEW m \in MemoryType
    PROVE  /\ View(m) \in [Linear -> EntryOrNull]
           /\ \A la \in Linear : la[1] \in Dir /\ la[2] \in Slot
           /\ \A la, x \in Linear : la[1] = x[1] /\ la[2] = x[2] => la = x
BY NULLAssumption DEF View, MemoryType, Linear, EntryOrNull

(* The entry for la is written: nothing else of the view changes, since no *)
(* table serves two directory entries.                                     *)
LEMMA Written ==
    ASSUME NEW m \in MemoryType, NEW h, Sorted(m, h), NEW la \in Linear, m.pgdir[la[1]] # NULL,
           NEW e \in EntryOrNull, NEW n \in MemoryType,
           n.pgdir = m.pgdir,
           \A f \in Frame, s \in Slot :
               n.table[f][s] = IF f = m.pgdir[la[1]] /\ s = la[2] THEN e ELSE m.table[f][s]
    PROVE  View(n) = Put(View(m), la, e)
<1> DEFINE t == m.pgdir[la[1]]
<1>1. /\ m.pgdir \in [Dir -> Frame \cup {NULL}] /\ m.table \in [Frame -> [Slot -> EntryOrNull]]
      /\ t \in Frame
  BY ViewType DEF MemoryType
<1>2. ASSUME NEW x \in Linear
      PROVE  View(n)[x] = Put(View(m), la, e)[x]
  <2>1. x[1] \in Dir /\ x[2] \in Slot /\ la[1] \in Dir /\ la[2] \in Slot
    BY ViewType
  <2>2. CASE x = la
    BY <1>1, <2>1, <2>2, NULLAssumption DEF View, Put
  <2>3. CASE x # la /\ x[1] = la[1]
    <3>1. x[2] # la[2]
      BY <2>3, ViewType
    <3>2. QED
      BY <1>1, <2>1, <2>3, <3>1, NULLAssumption DEF View, Put
  <2>4. CASE x[1] # la[1]
    <3>1. m.pgdir[x[1]] # NULL => m.pgdir[x[1]] # t /\ m.pgdir[x[1]] \in Frame
      BY <1>1, <2>1, <2>4 DEF Sorted
    <3>2. QED
      BY <1>1, <2>1, <2>4, <3>1, NULLAssumption DEF View, Put
  <2>5. QED
    BY <2>2, <2>3, <2>4
<1>3. View(n) \in [Linear -> EntryOrNull] /\ View(m) \in [Linear -> EntryOrNull]
  BY ViewType
<1>4. QED
  BY <1>2, <1>3 DEF Put

-----------------------------------------------------------------------------
(* The functions of pmm.c                                                  *)

(* The frames that lose their last mapping when the entry for la is e.     *)
Gone(W, la, e) == MappedIn(W) \ MappedIn(Put(W, la, e))

(* m becomes n: the entry for la is e, its translation is dropped, ref     *)
(* follows the mappings of the owned frames, and of the frames in Gone     *)
(* those whose ref is 0 are freed.                                         *)
Changes(m, h, la, e, n) ==
    /\ m.free \subseteq n.free
    /\ \A f \in n.free : f \in m.free \/ (f \in Gone(View(m), la, e) /\ n.ref[f] = 0)
    /\ ResetsRef => Gone(View(m), la, e) \subseteq n.free
    /\ \A f \in h : n.ref[f] - m.ref[f] = Count(Put(View(m), la, e), f) - Count(View(m), f)
    /\ \A f \in Frame \ h : n.ref[f] = m.ref[f]
    /\ n.pgdir = m.pgdir
    /\ \A f \in Frame, s \in Slot :
           n.table[f][s] = IF f = m.pgdir[la[1]] /\ s = la[2] THEN e ELSE m.table[f][s]
    /\ \A x \in Linear : n.tlb[x] = IF x = la THEN NULL ELSE m.tlb[x]

(* What that does to the address space and its owners.                     *)
Maps(m, h, la, e, n) ==
    /\ Good(n, h \ n.free)
    /\ View(n) = Put(View(m), la, e)
    /\ ResetsRef => h \ n.free = h \ Gone(View(m), la, e)

LEMMA Change ==
    ASSUME NEW m, NEW h, Good(m, h), NEW la \in Linear, m.pgdir[la[1]] # NULL,
           NEW e \in EntryOrNull, e # NULL => e.page \in h,
           NEW n \in MemoryType, Changes(m, h, la, e, n)
    PROVE  Maps(m, h, la, e, n)
<1>1. PICK W2, gone : W2 = Put(View(m), la, e) /\ gone = Gone(View(m), la, e)
  OBVIOUS
<1>2. /\ m \in MemoryType /\ Sorted(m, h) /\ Counted(m, h) /\ Coherent(m)
      /\ ResetsRef => Exact(m, h)
      /\ View(m) \in [Linear -> EntryOrNull]
      /\ m.free \in SUBSET Frame /\ m.ref \in [Frame -> Nat] /\ m.pgdir \in [Dir -> Frame \cup {NULL}]
      /\ m.table \in [Frame -> [Slot -> EntryOrNull]] /\ m.tlb \in [Linear -> EntryOrNull]
  BY ViewType DEF Good, MemoryType
<1>3. gone = MappedIn(View(m)) \ MappedIn(W2) /\ gone \subseteq h
  BY <1>1, <1>2 DEF Gone, MappedIn, MapSet, Sorted
<1>4. /\ \A f \in Frame : f \in m.free => f \in n.free
      /\ \A f \in Frame : f \in n.free => f \in m.free \/ (f \in gone /\ n.ref[f] = 0)
      /\ ResetsRef => \A f \in Frame : f \in gone => f \in n.free
      /\ \A f \in h : n.ref[f] - m.ref[f] = Count(W2, f) - Count(View(m), f)
      /\ \A f \in Frame \ h : n.ref[f] = m.ref[f]
      /\ n.pgdir = m.pgdir
      /\ \A f \in Frame, s \in Slot :
             n.table[f][s] = IF f = m.pgdir[la[1]] /\ s = la[2] THEN e ELSE m.table[f][s]
      /\ \A x \in Linear : n.tlb[x] = IF x = la THEN NULL ELSE m.tlb[x]
  BY <1>1 DEF Changes
<1>5. View(n) = W2
  BY ONLY Written, <1>1, <1>2, <1>4, la \in Linear, m.pgdir[la[1]] # NULL, e \in EntryOrNull,
          n \in MemoryType
<1>6. ResetsRef => h \ n.free = h \ gone
  BY <1>2, <1>4 DEF Sorted
<1>7. n.free \in SUBSET Frame /\ n.ref \in [Frame -> Nat]
  BY DEF MemoryType
<1>8. \A f \in Frame : TableOf(n, f) <=> TableOf(m, f)
  BY <1>4 DEF TableOf
<1>9. ASSUME NEW x \in Linear, W2[x] # NULL
      PROVE  W2[x].page \in h \ n.free
  <2>1. W2[x].page \in h
    BY <1>1, <1>2, <1>9 DEF Sorted, Put
  <2>2. W2[x].page \in MappedIn(W2)
    BY <1>2, <1>9, <2>1 DEF MappedIn, MapSet, Sorted
  <2>3. QED
    BY <1>2, <1>3, <1>4, <2>1, <2>2 DEF Sorted
<1>10. Sorted(n, h \ n.free)
  <2>1. \A f \in Frame : f \in n.free \/ TableOf(n, f) \/ f \in h \ n.free
    BY <1>2, <1>4, <1>8 DEF Sorted
  <2>2. \A f \in Frame : /\ ~(f \in n.free /\ TableOf(n, f))
                         /\ ~(f \in n.free /\ f \in h \ n.free)
                         /\ ~(TableOf(n, f) /\ f \in h \ n.free)
    BY <1>2, <1>3, <1>4, <1>8 DEF Sorted
  <2>3. \A x \in Linear : View(n)[x] # NULL => View(n)[x].page \in h \ n.free
    BY <1>5, <1>9
  <2>4. h \ n.free \subseteq Frame
    BY <1>2 DEF Sorted
  <2>5. \A b, c \in Dir : n.pgdir[b] = n.pgdir[c] /\ n.pgdir[b] # NULL => b = c
    BY <1>2, <1>4 DEF Sorted
  <2>6. QED
    BY <2>1, <2>2, <2>3, <2>4, <2>5 DEF Sorted
<1>11. \A f \in h : /\ Count(View(m), f) \in Nat /\ Count(W2, f) \in Nat
                     /\ m.ref[f] \in Nat /\ n.ref[f] \in Nat
  BY <1>2, <1>7, CountType DEF Sorted
<1>12. Counted(n, h \ n.free)
  <2>1. ASSUME NEW f \in h \ n.free
        PROVE  n.ref[f] >= Count(W2, f)
    <3>1. m.ref[f] >= Count(View(m), f)
      BY <1>2 DEF Counted
    <3>2. QED
      BY ONLY <1>4, <1>11, <3>1, f \in h \ n.free
  <2>2. ASSUME NEW f \in Frame, TableOf(n, f)
        PROVE  n.ref[f] = 1
    BY <1>2, <1>4, <1>8, <2>2 DEF Sorted, Counted
  <2>3. QED
    BY <1>5, <2>1, <2>2 DEF Counted
<1>13. ASSUME ResetsRef PROVE Exact(n, h \ n.free)
  <2>1. ASSUME NEW f \in h \ n.free
        PROVE  n.ref[f] = Count(W2, f)
    <3>1. m.ref[f] = Count(View(m), f)
      BY <1>2, <1>13 DEF Exact
    <3>2. QED
      BY ONLY <1>4, <1>11, <3>1, f \in h \ n.free
  <2>2. ASSUME NEW f \in n.free
        PROVE  n.ref[f] = 0
    BY <1>2, <1>4, <1>7, <1>13, <2>2 DEF Sorted, Exact
  <2>3. QED
    BY <1>5, <2>1, <2>2 DEF Exact
<1>14. Coherent(n)
  BY <1>1, <1>2, <1>4, <1>5 DEF Coherent, Put
<1>15. QED
  BY <1>1, <1>5, <1>6, <1>10, <1>12, <1>13, <1>14 DEF Good, Maps

(* get_pte creates a table: a free frame that counts one reference.        *)
LEMMA NewTable ==
    ASSUME NEW m, NEW h, Good(m, h), NEW d \in Dir, m.pgdir[d] = NULL, NEW t \in m.free
    PROVE  /\ Good(WithTable(m, d, t), h) /\ View(WithTable(m, d, t)) = View(m)
           /\ WithTable(m, d, t).pgdir[d] # NULL
           /\ WithTable(m, d, t).free = m.free \ {t}
<1> DEFINE n == WithTable(m, d, t)
<1>1. /\ m \in MemoryType /\ Sorted(m, h) /\ Counted(m, h) /\ Coherent(m)
      /\ ResetsRef => Exact(m, h)
      /\ View(m) \in [Linear -> EntryOrNull]
      /\ m.free \in SUBSET Frame /\ m.ref \in [Frame -> Nat] /\ m.pgdir \in [Dir -> Frame \cup {NULL}]
      /\ m.table \in [Frame -> [Slot -> EntryOrNull]] /\ m.tlb \in [Linear -> EntryOrNull]
      /\ t \in Frame /\ t # NULL
  BY ViewType, NULLAssumption DEF Good, MemoryType
<1>2. /\ n.free = m.free \ {t} /\ n.ref = [m.ref EXCEPT ![t] = 1] /\ n.pgdir = [m.pgdir EXCEPT ![d] = t]
      /\ n.table = [m.table EXCEPT ![t] = [s \in Slot |-> NULL]] /\ n.tlb = m.tlb
  BY <1>1 DEF WithTable, MemoryType
<1>3. n \in MemoryType
  <2>1. [s \in Slot |-> NULL] \in [Slot -> EntryOrNull]
    BY DEF EntryOrNull
  <2>2. QED
    BY <1>1, <2>1 DEF WithTable, MemoryType
<1>4. \A c \in Dir : c # d => m.pgdir[c] # t
  BY <1>1 DEF Sorted, TableOf
<1>5. View(n) = View(m)
  <2>1. \A x \in Linear : View(n)[x] = View(m)[x]
    BY <1>1, <1>2, <1>4, ViewType DEF View
  <2>2. QED
    BY <1>1, <1>3, <2>1, ViewType
<1>6. \A f \in Frame : TableOf(n, f) <=> f = t \/ TableOf(m, f)
  <2>1. \A c \in Dir : n.pgdir[c] = IF c = d THEN t ELSE m.pgdir[c]
    BY <1>1, <1>2
  <2>2. QED
    BY <2>1, <1>1, NULLAssumption DEF TableOf
<1>7. Sorted(n, h)
  <2>1. \A f \in Frame : f \in n.free \/ TableOf(n, f) \/ f \in h
    BY <1>1, <1>2, <1>6 DEF Sorted
  <2>2. \A f \in Frame : /\ ~(f \in n.free /\ TableOf(n, f))
                         /\ ~(f \in n.free /\ f \in h)
                         /\ ~(TableOf(n, f) /\ f \in h)
    BY <1>1, <1>2, <1>6 DEF Sorted
  <2>3. \A b, c \in Dir : n.pgdir[b] = n.pgdir[c] /\ n.pgdir[b] # NULL => b = c
    BY <1>1, <1>2, <1>4 DEF Sorted
  <2>4. QED
    BY <1>1, <1>5, <2>1, <2>2, <2>3 DEF Sorted
<1>8. Counted(n, h)
  BY <1>1, <1>2, <1>5, <1>6 DEF Counted, Sorted
<1>9. ResetsRef => Exact(n, h)
  BY <1>1, <1>2, <1>5 DEF Exact, Sorted
<1>10. Coherent(n)
  BY <1>1, <1>2, <1>5 DEF Coherent
<1>11. QED
  BY <1>1, <1>2, <1>3, <1>5, <1>7, <1>8, <1>9, <1>10 DEF Good

(* The frames that lose their last mapping when la is mapped anew: its old *)
(* frame, if that was mapped once and is not the new one.                  *)
LEMMA Lost ==
    ASSUME NEW W \in [Linear -> EntryOrNull], NEW la \in Linear, NEW e \in EntryOrNull
    PROVE  /\ W[la] # NULL /\ ~(e # NULL /\ e.page = W[la].page) =>
                 Gone(W, la, e) = IF Count(W, W[la].page) = 1 THEN {W[la].page} ELSE {}
           /\ W[la] = NULL \/ (e # NULL /\ e.page = W[la].page) => Gone(W, la, e) = {}
<1>0. PICK W2 : W2 = Put(W, la, e)
  OBVIOUS
<1>1. \A f \in Frame : ~(W[la] # NULL /\ W[la].page = f) => MapSet(W, f) \subseteq MapSet(W2, f)
  <2> SUFFICES ASSUME NEW f \in Frame, ~(W[la] # NULL /\ W[la].page = f)
               PROVE  MapSet(W, f) \subseteq MapSet(W2, f)
    OBVIOUS
  <2>1. \A x \in Linear : W2[x] = IF x = la THEN e ELSE W[x]
    BY <1>0 DEF Put
  <2>2. QED
    BY <2>1 DEF MapSet
<1>2. CASE W[la] # NULL /\ ~(e # NULL /\ e.page = W[la].page)
  <2>1. PICK p \in Frame : p = W[la].page
    BY <1>2 DEF EntryOrNull, Entry
  <2>2. Count(W2, p) = Count(W, p) - 1
    BY <1>0, <1>2, <2>1, Remapped
  <2>3. Count(W, p) \in Nat /\ (Count(W2, p) = 0 <=> MapSet(W2, p) = {})
    BY CountType
  <2>4. la \in MapSet(W, p)
    BY <1>2, <2>1 DEF MapSet
  <2>5. p \in MappedIn(W) /\ (p \in MappedIn(W2) <=> Count(W, p) # 1)
    BY <2>2, <2>3, <2>4 DEF MappedIn
  <2>6. \A f \in Frame : f # p /\ f \in MappedIn(W) => f \in MappedIn(W2)
    BY <1>1, <2>1 DEF MappedIn
  <2>7. MappedIn(W) \ MappedIn(W2) = IF Count(W, p) = 1 THEN {p} ELSE {}
    BY <2>5, <2>6 DEF MappedIn
  <2>8. QED
    BY <1>0, <1>2, <2>1, <2>7 DEF Gone
<1>3. CASE W[la] = NULL \/ (e # NULL /\ e.page = W[la].page)
  <2>1. ASSUME NEW f \in Frame, MapSet(W, f) # {}
        PROVE  MapSet(W2, f) # {}
    <3>1. CASE W[la] # NULL /\ W[la].page = f
      BY <1>0, <1>3, <3>1 DEF MapSet, Put
    <3>2. CASE ~(W[la] # NULL /\ W[la].page = f)
      BY <1>1, <2>1, <3>2
    <3>3. QED
      BY <3>1, <3>2
  <2>2. QED
    BY <1>0, <1>3, <2>1 DEF MappedIn, Gone
<1>4. QED
  BY <1>2, <1>3

(* m becomes n: the frame p loses a reference, the entry for la in the     *)
(* table t and its translation go.                                         *)
Removes(m, la, t, p, n) ==
    /\ n \in MemoryType
    /\ n.free = m.free \cup (IF m.ref[p] = 1 THEN {p} ELSE {})
    /\ \A f \in Frame : n.ref[f] = IF f = p THEN m.ref[p] - 1 ELSE m.ref[f]
    /\ n.pgdir = m.pgdir
    /\ \A f \in Frame, s \in Slot :
           n.table[f][s] = IF f = t /\ s = la[2] THEN NULL ELSE m.table[f][s]
    /\ \A x \in Linear : n.tlb[x] = IF x = la THEN NULL ELSE m.tlb[x]

(* What page_remove_pte writes, on any memory whose old page is counted.    *)
LEMMA RemoveParts ==
    ASSUME NEW m \in MemoryType, NEW la \in Linear,
           NEW t \in Frame, t = m.pgdir[la[1]],
           NEW p \in Frame, p = m.table[t][la[2]].page, m.ref[p] # 0,
           NEW n, n = RemovePte(m, la)
    PROVE  Removes(m, la, t, p, n)
<1> DEFINE gone == IF m.ref[p] = 1 THEN {p} ELSE {}
           less == [m.ref EXCEPT ![p] = @ - 1]
<1>1. /\ m.free \in SUBSET Frame /\ m.ref \in [Frame -> Nat] /\ m.pgdir \in [Dir -> Frame \cup {NULL}]
      /\ m.table \in [Frame -> [Slot -> EntryOrNull]] /\ m.tlb \in [Linear -> EntryOrNull]
      /\ la[2] \in Slot
  BY ViewType DEF MemoryType
<1>2. n.ref = Released(less, gone)
  <2> DEFINE q == m.table[m.pgdir[la[1]]][la[2]].page
  <2>1. n.ref = Released([m.ref EXCEPT ![q] = @ - 1], IF m.ref[q] = 1 THEN {q} ELSE {})
    BY DEF RemovePte, MemoryType
  <2>2. q = p
    OBVIOUS
  <2> HIDE DEF q
  <2>3. QED
    BY <2>1, <2>2, Zenon
<1>3. n.free = m.free \cup gone /\ n.pgdir = m.pgdir
  BY DEF RemovePte, MemoryType
<1>4. n.table = [m.table EXCEPT ![t] = [@ EXCEPT ![la[2]] = NULL]]
  BY DEF RemovePte, MemoryType
<1>5. n.tlb = [m.tlb EXCEPT ![la] = NULL]
  BY DEF RemovePte, MemoryType
<1>6. n = [free |-> n.free, ref |-> n.ref, pgdir |-> n.pgdir, table |-> n.table, tlb |-> n.tlb]
  BY DEF RemovePte, MemoryType
<1>7. m.ref[p] - 1 \in Nat
  BY ONLY <1>1, m.ref[p] # 0, p \in Frame
<1>8. /\ ResetsRef => n.ref = [f \in Frame |-> IF f \in gone THEN 0 ELSE less[f]]
      /\ ~ResetsRef => n.ref = less
  BY <1>2 DEF Released
<1>9. \A f \in Frame : n.ref[f] = IF f = p THEN m.ref[p] - 1 ELSE m.ref[f]
  <2> SUFFICES ASSUME NEW f \in Frame
               PROVE  n.ref[f] = IF f = p THEN m.ref[p] - 1 ELSE m.ref[f]
    OBVIOUS
  <2>1. less[f] = IF f = p THEN m.ref[p] - 1 ELSE m.ref[f]
    BY ONLY <1>1, f \in Frame DEF less
  <2>2. CASE ResetsRef /\ f \in gone
    <3>1. f = p /\ m.ref[p] = 1 /\ n.ref[f] = 0
      BY <1>8, <2>2
    <3>2. QED
      BY ONLY <3>1
  <2>3. CASE ~(ResetsRef /\ f \in gone)
    BY <1>8, <2>1, <2>3
  <2>4. QED
    BY <2>2, <2>3
<1>10. n.ref \in [Frame -> Nat]
  <2>1. \A f \in Frame : n.ref[f] \in Nat
    BY ONLY <1>1, <1>7, <1>9
  <2>2. n.ref = [f \in Frame |-> n.ref[f]]
    BY <1>1, <1>8
  <2>3. QED
    BY ONLY <2>1, <2>2
<1>11. [m.table[t] EXCEPT ![la[2]] = NULL] \in [Slot -> EntryOrNull]
  BY <1>1 DEF EntryOrNull
<1>12. n.table \in [Frame -> [Slot -> EntryOrNull]]
  BY <1>1, <1>4, <1>11
<1>13. n.tlb \in [Linear -> EntryOrNull]
  BY <1>1, <1>5 DEF EntryOrNull
<1>14. n \in MemoryType
  BY <1>1, <1>3, <1>6, <1>10, <1>12, <1>13 DEF MemoryType
<1>15. \A f \in Frame, s \in Slot :
           n.table[f][s] = IF f = t /\ s = la[2] THEN NULL ELSE m.table[f][s]
  BY ONLY <1>1, <1>4, t \in Frame
<1>16. \A x \in Linear : n.tlb[x] = IF x = la THEN NULL ELSE m.tlb[x]
  BY ONLY <1>1, <1>5
<1>17. QED
  BY <1>3, <1>9, <1>14, <1>15, <1>16 DEF Removes

(* page_remove_pte: a frame is freed exactly with its last mapping.        *)
LEMMA Remove ==
    ASSUME NEW m, NEW h, Good(m, h), NEW la \in Linear, View(m)[la] # NULL,
           NEW n, n = RemovePte(m, la)
    PROVE  Maps(m, h, la, NULL, n)
<1>1. PICK W2, gone : W2 = Put(View(m), la, NULL) /\ gone = Gone(View(m), la, NULL)
  OBVIOUS
<1>2. /\ m \in MemoryType /\ Sorted(m, h) /\ Counted(m, h) /\ (ResetsRef => Exact(m, h))
      /\ View(m) \in [Linear -> EntryOrNull]
      /\ m.free \in SUBSET Frame /\ m.ref \in [Frame -> Nat] /\ m.pgdir \in [Dir -> Frame \cup {NULL}]
      /\ m.table \in [Frame -> [Slot -> EntryOrNull]] /\ m.tlb \in [Linear -> EntryOrNull]
  BY ViewType DEF Good, MemoryType
<1>3. NULL \in EntryOrNull
  BY DEF EntryOrNull
<1>4. m.pgdir[la[1]] # NULL /\ View(m)[la] = m.table[m.pgdir[la[1]]][la[2]]
  BY DEF View
<1>5. PICK t \in Frame : t = m.pgdir[la[1]]
  BY <1>2, <1>4, ViewType
<1>6. PICK p \in h : p = View(m)[la].page
  BY <1>2 DEF Sorted
<1>7. p \in Frame
  BY <1>2 DEF Sorted
<1>8. PICK c \in Nat, r \in Nat : c = Count(View(m), p) /\ r = m.ref[p]
  BY <1>2, <1>7, CountType
<1>9. c # 0 /\ r >= c /\ (ResetsRef => r = c)
  <2>1. la \in MapSet(View(m), p)
    BY <1>6 DEF MapSet
  <2>2. c # 0
    BY <1>8, <2>1, CountType
  <2>3. r >= c /\ (ResetsRef => r = c)
    BY <1>2, <1>8 DEF Counted, Exact
  <2>4. QED
    BY <2>2, <2>3
<1>10. gone = IF c = 1 THEN {p} ELSE {}
  BY <1>1, <1>2, <1>3, <1>6, <1>8, Lost
<1>11. Removes(m, la, t, p, n)
  <2>1. p = m.table[t][la[2]].page
    BY <1>4, <1>5, <1>6
  <2>2. m.ref[p] # 0
    BY ONLY <1>8, <1>9
  <2>3. QED
    BY ONLY RemoveParts, <1>2, <1>5, <1>7, <2>1, <2>2, la \in Linear, n = RemovePte(m, la)
<1>12. n.ref[p] = r - 1 /\ \A f \in Frame : f # p => n.ref[f] = m.ref[f]
  BY <1>7, <1>8, <1>11 DEF Removes
<1>13. \A f \in h : n.ref[f] - m.ref[f] = Count(W2, f) - Count(View(m), f)
  <2> SUFFICES ASSUME NEW f \in h
               PROVE  n.ref[f] - m.ref[f] = Count(W2, f) - Count(View(m), f)
    OBVIOUS
  <2>1. CASE f = p
    <3>1. Count(W2, p) = Count(View(m), p) - 1
      BY <1>1, <1>2, <1>3, <1>6, Remapped
    <3>2. QED
      BY ONLY <1>8, <1>12, <2>1, <3>1
  <2>2. CASE f # p
    <3>1. MapSet(W2, f) = MapSet(View(m), f)
      BY <1>1, <1>2, <1>3, <1>6, <2>2, Remapped
    <3>2. f \in Frame /\ m.ref[f] \in Nat /\ Count(View(m), f) \in Nat
      BY <1>2, CountType DEF Sorted
    <3>3. Count(W2, f) = Count(View(m), f) /\ n.ref[f] = m.ref[f]
      BY <1>12, <2>2, <3>1, <3>2 DEF Count
    <3>4. QED
      BY ONLY <3>2, <3>3
  <2>3. QED
    BY <2>1, <2>2
<1>14. /\ m.free \subseteq n.free
       /\ \A f \in n.free : f \in m.free \/ (f \in gone /\ n.ref[f] = 0)
       /\ ResetsRef => gone \subseteq n.free
  <2>1. n.free = m.free \cup (IF r = 1 THEN {p} ELSE {})
    BY <1>8, <1>11 DEF Removes
  <2>2. r = 1 => c = 1 /\ n.ref[p] = 0
    BY ONLY <1>8, <1>9, <1>12
  <2>3. QED
    BY <1>9, <1>10, <2>1, <2>2
<1>15. n \in MemoryType /\ Changes(m, h, la, NULL, n)
  BY <1>1, <1>2, <1>5, <1>6, <1>11, <1>12, <1>13, <1>14 DEF Changes, Removes
<1>16. QED
  BY <1>3, <1>4, <1>15, Change

(* page_insert writes the entry and drops its translation.                 *)
Entered(m, t, la, e) == [m EXCEPT !.table[t][la[2]] = e, !.tlb[la] = NULL]

Enters(m, t, la, e, n) ==
    /\ n \in MemoryType
    /\ n.free = m.free /\ n.ref = m.ref /\ n.pgdir = m.pgdir
    /\ \A f \in Frame, s \in Slot :
           n.table[f][s] = IF f = t /\ s = la[2] THEN e ELSE m.table[f][s]
    /\ \A x \in Linear : n.tlb[x] = IF x = la THEN NULL ELSE m.tlb[x]

LEMMA EnteredParts ==
    ASSUME NEW m \in MemoryType, NEW la \in Linear, NEW t \in Frame, NEW e \in EntryOrNull,
           NEW n, n = Entered(m, t, la, e)
    PROVE  Enters(m, t, la, e, n)
<1>1. /\ m.free \in SUBSET Frame /\ m.ref \in [Frame -> Nat] /\ m.pgdir \in [Dir -> Frame \cup {NULL}]
      /\ m.table \in [Frame -> [Slot -> EntryOrNull]] /\ m.tlb \in [Linear -> EntryOrNull]
      /\ la[2] \in Slot
  BY ViewType DEF MemoryType
<1>2. n.free = m.free /\ n.ref = m.ref /\ n.pgdir = m.pgdir
  BY DEF Entered, MemoryType
<1>3. n.table = [m.table EXCEPT ![t] = [@ EXCEPT ![la[2]] = e]]
  BY DEF Entered, MemoryType
<1>4. n.tlb = [m.tlb EXCEPT ![la] = NULL]
  BY DEF Entered, MemoryType
<1>5. n = [free |-> n.free, ref |-> n.ref, pgdir |-> n.pgdir, table |-> n.table, tlb |-> n.tlb]
  BY DEF Entered, MemoryType
<1>6. [m.table[t] EXCEPT ![la[2]] = e] \in [Slot -> EntryOrNull]
  BY <1>1
<1>7. n.table \in [Frame -> [Slot -> EntryOrNull]] /\ n.tlb \in [Linear -> EntryOrNull]
  BY <1>1, <1>3, <1>4, <1>6 DEF EntryOrNull
<1>8. n \in MemoryType
  BY <1>1, <1>2, <1>5, <1>7 DEF MemoryType
<1>9. \A f \in Frame, s \in Slot :
          n.table[f][s] = IF f = t /\ s = la[2] THEN e ELSE m.table[f][s]
  BY ONLY <1>1, <1>3, t \in Frame
<1>10. \A x \in Linear : n.tlb[x] = IF x = la THEN NULL ELSE m.tlb[x]
  BY ONLY <1>1, <1>4
<1>11. QED
  BY <1>2, <1>8, <1>9, <1>10 DEF Enters

(* page_insert counts the new page first.                                  *)
CountedOnce(m, page) == [m EXCEPT !.ref[page] = @ + 1]

Counts(m, page, n) ==
    /\ n \in MemoryType
    /\ n.free = m.free /\ n.pgdir = m.pgdir /\ n.table = m.table /\ n.tlb = m.tlb
    /\ \A f \in Frame : n.ref[f] = IF f = page THEN m.ref[f] + 1 ELSE m.ref[f]

LEMMA CountedOnceParts ==
    ASSUME NEW m \in MemoryType, NEW page \in Frame, NEW n, n = CountedOnce(m, page)
    PROVE  Counts(m, page, n)
<1>1. n.free = m.free /\ n.pgdir = m.pgdir /\ n.table = m.table /\ n.tlb = m.tlb
  BY DEF CountedOnce, MemoryType
<1>2. n.ref = [m.ref EXCEPT ![page] = @ + 1] /\ m.ref \in [Frame -> Nat]
  BY DEF CountedOnce, MemoryType
<1>3. n = [free |-> n.free, ref |-> n.ref, pgdir |-> n.pgdir, table |-> n.table, tlb |-> n.tlb]
  BY DEF CountedOnce, MemoryType
<1>4. n.ref \in [Frame -> Nat]
  BY ONLY <1>2, page \in Frame
<1>5. n \in MemoryType
  BY <1>1, <1>3, <1>4 DEF MemoryType
<1>6. \A f \in Frame : n.ref[f] = IF f = page THEN m.ref[f] + 1 ELSE m.ref[f]
  BY ONLY <1>2, page \in Frame
<1>7. QED
  BY <1>1, <1>5, <1>6 DEF Counts

(* page_insert: an owned page is mapped at la, in place of what was there. *)
LEMMA Insert ==
    ASSUME NEW m, NEW h, Good(m, h), NEW la \in Linear, m.pgdir[la[1]] # NULL,
           NEW page \in h, NEW perm \in Perm,
           NEW e, e = [page |-> page, perm |-> perm],
           NEW n, n = InsertPte(m, la, page, perm)
    PROVE  Maps(m, h, la, e, n)
<1>1. PICK W, W2, gone : W = View(m) /\ W2 = Put(W, la, e) /\ gone = Gone(W, la, e)
  OBVIOUS
<1>2. /\ m \in MemoryType /\ Sorted(m, h) /\ Counted(m, h)
      /\ W \in [Linear -> EntryOrNull]
      /\ m.free \in SUBSET Frame /\ m.ref \in [Frame -> Nat] /\ m.pgdir \in [Dir -> Frame \cup {NULL}]
      /\ m.table \in [Frame -> [Slot -> EntryOrNull]] /\ m.tlb \in [Linear -> EntryOrNull]
  BY <1>1, ViewType DEF Good, MemoryType
<1>3. page \in Frame /\ \A f \in h : f \in Frame /\ m.ref[f] \in Nat /\ Count(W, f) \in Nat
  BY <1>2, CountType DEF Sorted
<1>4. e \in EntryOrNull /\ e # NULL /\ e.page = page
  BY <1>3, NULLAssumption DEF EntryOrNull, Entry
<1>5. PICK t \in Frame : t = m.pgdir[la[1]]
  BY <1>2, ViewType
<1>6. PICK old \in EntryOrNull : old = W[la]
  BY <1>2
<1>7. old = m.table[t][la[2]]
  BY <1>1, <1>5, <1>6 DEF View
<1>8. n = Entered(IF old = NULL THEN CountedOnce(m, page)
                  ELSE IF old.page = page THEN m
                  ELSE RemovePte(CountedOnce(m, page), la), t, la, e)
  BY <1>5, <1>7 DEF InsertPte, Entered, CountedOnce
<1>9. SUFFICES n \in MemoryType /\ Changes(m, h, la, e, n)
  BY <1>4, <1>9, Change
<1>10. PICK k : k = CountedOnce(m, page)
  OBVIOUS
<1>11. /\ k \in MemoryType
       /\ k.free = m.free /\ k.pgdir = m.pgdir /\ k.table = m.table /\ k.tlb = m.tlb
       /\ \A f \in Frame : k.ref[f] = IF f = page THEN m.ref[f] + 1 ELSE m.ref[f]
  <2>1. Counts(m, page, k)
    BY <1>2, <1>3, <1>10, CountedOnceParts
  <2>2. QED
    BY <2>1 DEF Counts
<1>12. \A f \in h : f # page /\ ~(old # NULL /\ old.page = f) => Count(W2, f) = Count(W, f)
  <2> SUFFICES ASSUME NEW f \in h, f # page, ~(old # NULL /\ old.page = f)
               PROVE  Count(W2, f) = Count(W, f)
    OBVIOUS
  <2>1. MapSet(W2, f) = MapSet(W, f)
    BY <1>1, <1>2, <1>4, <1>6, Remapped
  <2>2. QED
    BY <2>1 DEF Count
<1>13. CASE old = NULL
  <2>1. W[la] = NULL
    BY <1>6, <1>13
  <2>2. Count(W2, page) = Count(W, page) + 1
    BY ONLY Remapped, <1>1, <1>2, <1>4, <2>1, la \in Linear
  <2>3. gone = {}
    BY ONLY Lost, <1>1, <1>2, <1>4, <2>1, la \in Linear
  <2>4. Enters(k, t, la, e, n)
    <3>1. n = Entered(k, t, la, e)
      BY <1>8, <1>10, <1>13
    <3>2. QED
      BY <1>4, <1>11, <3>1, EnteredParts
  <2>5. \A f \in Frame : n.ref[f] = IF f = page THEN m.ref[f] + 1 ELSE m.ref[f]
    BY <1>11, <2>4 DEF Enters
  <2>6. \A f \in h : n.ref[f] - m.ref[f] = Count(W2, f) - Count(W, f)
    <3> SUFFICES ASSUME NEW f \in h PROVE n.ref[f] - m.ref[f] = Count(W2, f) - Count(W, f)
      OBVIOUS
    <3>1. CASE f = page
      BY ONLY <1>3, <2>2, <2>5, <3>1, f \in h
    <3>2. CASE f # page
      <4>1. Count(W2, f) = Count(W, f)
        BY <1>12, <1>13, <3>2
      <4>2. QED
        BY ONLY <1>3, <2>5, <3>2, <4>1, f \in h
    <3>3. QED
      BY <3>1, <3>2
  <2>7. QED
    BY <1>1, <1>5, <1>11, <2>3, <2>4, <2>5, <2>6 DEF Enters, Changes
<1>14. CASE old # NULL /\ old.page = page
  <2>1. W[la] # NULL /\ W[la].page = page
    BY <1>6, <1>14
  <2>2. Count(W2, page) = Count(W, page)
    <3>1. MapSet(W2, page) = MapSet(W, page)
      BY ONLY Remapped, <1>1, <1>2, <1>4, <2>1, la \in Linear
    <3>2. QED
      BY <3>1 DEF Count
  <2>3. gone = {}
    BY ONLY Lost, <1>1, <1>2, <1>4, <2>1, la \in Linear
  <2>4. Enters(m, t, la, e, n)
    <3>1. n = Entered(m, t, la, e)
      BY <1>8, <1>14
    <3>2. QED
      BY <1>2, <1>4, <3>1, EnteredParts
  <2>5. \A f \in h : n.ref[f] = m.ref[f] /\ Count(W2, f) = Count(W, f)
    BY <1>12, <1>14, <2>2, <2>4 DEF Enters
  <2>6. \A f \in h : n.ref[f] - m.ref[f] = Count(W2, f) - Count(W, f)
    BY ONLY <1>3, <2>5
  <2>7. QED
    BY <1>1, <1>5, <2>3, <2>4, <2>6 DEF Enters, Changes
<1>15. CASE old # NULL /\ old.page # page
  <2>1. W[la] # NULL
    BY <1>6, <1>15
  <2>2. PICK p \in h : p = W[la].page
    BY <1>1, <1>2, <2>1 DEF Sorted
  <2>3. p # page /\ p \in Frame
    BY <1>3, <1>6, <1>15, <2>2
  <2>4. PICK c \in Nat, r \in Nat : c = Count(W, p) /\ r = m.ref[p]
    BY <1>3
  <2>5. c # 0 /\ r >= c /\ (ResetsRef => r = c)
    <3>1. la \in MapSet(W, p)
      BY <2>1, <2>2 DEF MapSet
    <3>2. c # 0
      BY <2>4, <3>1, CountType
    <3>3. r >= c /\ (ResetsRef => r = c)
      BY <1>1, <1>2, <2>4 DEF Good, Counted, Exact
    <3>4. QED
      BY <3>2, <3>3
  <2>6. Count(W2, page) = Count(W, page) + 1
    BY <1>1, <1>2, <1>4, <1>6, <1>15, Remapped
  <2>7. Count(W2, p) = c - 1
    BY <1>1, <1>2, <1>4, <1>6, <1>15, <2>2, <2>3, <2>4, Remapped
  <2>8. gone = IF c = 1 THEN {p} ELSE {}
    <3>1. ~(e # NULL /\ e.page = W[la].page)
      BY <1>4, <2>2, <2>3
    <3>2. gone = IF Count(W, W[la].page) = 1 THEN {W[la].page} ELSE {}
      BY ONLY Lost, <1>1, <1>2, <1>4, <2>1, <3>1, la \in Linear
    <3>3. QED
      BY <2>2, <2>4, <3>2
  <2>9. PICK j : j = RemovePte(k, la)
    OBVIOUS
  <2>10. Removes(k, la, t, p, j) /\ k.ref[p] = r
    <3>1. t = k.pgdir[la[1]] /\ p = k.table[t][la[2]].page
      BY <1>5, <1>6, <1>7, <1>11, <2>2
    <3>2. k.ref[p] = r
      BY <1>11, <2>3, <2>4
    <3>3. k.ref[p] # 0
      BY ONLY <2>4, <2>5, <3>2
    <3>4. Removes(k, la, t, p, j)
      BY ONLY RemoveParts, <1>11, <2>3, <2>9, <3>1, <3>3, la \in Linear, t \in Frame
    <3>5. QED
      BY <3>2, <3>4
  <2>11. Enters(j, t, la, e, n)
    <3>1. n = Entered(j, t, la, e)
      BY <1>8, <1>10, <1>15, <2>9
    <3>2. j \in MemoryType
      BY <2>10 DEF Removes
    <3>3. QED
      BY <1>4, <3>1, <3>2, EnteredParts
  <2>12. \A f \in Frame : n.ref[f] = IF f = p THEN r - 1 ELSE IF f = page THEN m.ref[f] + 1 ELSE m.ref[f]
    BY <1>11, <2>3, <2>10, <2>11 DEF Removes, Enters
  <2>13. \A f \in h : n.ref[f] - m.ref[f] = Count(W2, f) - Count(W, f)
    <3> SUFFICES ASSUME NEW f \in h PROVE n.ref[f] - m.ref[f] = Count(W2, f) - Count(W, f)
      OBVIOUS
    <3>1. CASE f = p
      BY ONLY <1>3, <2>4, <2>7, <2>12, <3>1, f \in h
    <3>2. CASE f = page
      BY ONLY <1>3, <2>3, <2>6, <2>12, <3>2, f \in h
    <3>3. CASE f # p /\ f # page
      <4>1. Count(W2, f) = Count(W, f)
        BY <1>6, <1>12, <2>2, <3>3
      <4>2. QED
        BY ONLY <1>3, <2>12, <3>3, <4>1, f \in h
    <3>4. QED
      BY <3>1, <3>2, <3>3
  <2>14. /\ m.free \subseteq n.free
         /\ \A f \in n.free : f \in m.free \/ (f \in gone /\ n.ref[f] = 0)
         /\ ResetsRef => gone \subseteq n.free
    <3>1. n.free = m.free \cup (IF r = 1 THEN {p} ELSE {})
      BY <1>11, <2>10, <2>11 DEF Removes, Enters
    <3>2. r = 1 => c = 1 /\ n.ref[p] = 0
      BY ONLY <2>3, <2>4, <2>5, <2>12
    <3>3. QED
      BY <2>5, <2>8, <3>1, <3>2
  <2>15. \A f \in Frame \ h : n.ref[f] = m.ref[f]
    BY <2>12
  <2>16. QED
    BY <1>1, <1>5, <1>11, <2>10, <2>11, <2>13, <2>14, <2>15 DEF Removes, Enters, Changes
<1>16. QED
  BY <1>13, <1>14, <1>15

-----------------------------------------------------------------------------
(* The invariant                                                           *)

Inv == Good(Memory, held) /\ panicked = FALSE

LEMMA MemoryFields ==
    /\ Memory.free = free /\ Memory.ref = ref /\ Memory.pgdir = pgdir
    /\ Memory.table = table /\ Memory.tlb = tlb
BY DEF Memory

LEMMA TypeFacts ==
    ASSUME Good(Memory, held)
    PROVE  /\ free \in SUBSET Frame /\ ref \in [Frame -> Nat]
           /\ pgdir \in [Dir -> Frame \cup {NULL}] /\ table \in [Frame -> [Slot -> EntryOrNull]]
           /\ tlb \in [Linear -> EntryOrNull] /\ held \in SUBSET Frame
           /\ View(Memory) \in [Linear -> EntryOrNull]
           /\ \A la \in Linear : View(Memory)[la] = Walk(la)
<1>1. Memory \in MemoryType /\ held \in SUBSET Frame
  BY DEF Good, Sorted
<1>2. \A la \in Linear : View(Memory)[la] = Walk(la)
  BY MemoryFields DEF View, Walk
<1>3. QED
  BY <1>1, <1>2, MemoryFields, ViewType DEF MemoryType

LEMMA BecomesMemory ==
    ASSUME NEW n \in MemoryType, Becomes(n)
    PROVE  Memory' = n
BY DEF Becomes, Memory, MemoryType

LEMMA InitGood == Init => Inv
<1> SUFFICES ASSUME Init PROVE Good(Memory, held)
  BY DEF Init, Inv
<1>1. /\ Memory.free = Frame /\ Memory.ref = [f \in Frame |-> 0] /\ Memory.pgdir = [d \in Dir |-> NULL]
      /\ Memory.table = [f \in Frame |-> [s \in Slot |-> Junk]]
      /\ Memory.tlb = [la \in Linear |-> NULL] /\ held = {}
  BY MemoryFields DEF Init
<1>2. Memory \in MemoryType
  <2>1. \A f \in Frame : Junk \in Entry
    <3> SUFFICES ASSUME NEW f \in Frame PROVE Junk \in Entry
      OBVIOUS
    <3>1. PICK perm \in Perm : TRUE
      BY IndexAssumption
    <3>2. [page |-> f, perm |-> perm] \in Entry
      BY DEF Entry
    <3>3. QED
      BY <3>2 DEF Junk
  <2>2. QED
    BY <2>1 DEF Init, Memory, MemoryType, EntryOrNull
<1>3. \A la \in Linear : View(Memory)[la] = NULL
  BY <1>1, <1>2, ViewType DEF View
<1>4. Sorted(Memory, held)
  BY <1>1, <1>3, NULLAssumption DEF Sorted, TableOf
<1>5. Counted(Memory, held)
  BY <1>1, NULLAssumption DEF Counted, TableOf
<1>6. Exact(Memory, held)
  BY <1>1 DEF Exact
<1>7. Coherent(Memory)
  BY <1>1 DEF Coherent
<1>8. QED
  BY <1>2, <1>4, <1>5, <1>6, <1>7 DEF Good

(* A frame from alloc_page: nothing is mapped to it and no reference is    *)
(* counted.                                                                *)
LEMMA AllocPageGood ==
    ASSUME Good(Memory, held), AllocPage
    PROVE  /\ Good(Memory, held)' /\ View(Memory') = View(Memory)
           /\ \E page \in Frame \ held : held' = held \cup {page}
<1>1. PICK page \in free :
         /\ free' = free \ {page}
         /\ held' = held \cup {page}
         /\ table' = [table EXCEPT ![page] = [s \in Slot |-> Junk]]
         /\ UNCHANGED <<ref, pgdir, tlb, panicked>>
  BY DEF AllocPage
<1>2. /\ free \in SUBSET Frame /\ ref \in [Frame -> Nat]
      /\ pgdir \in [Dir -> Frame \cup {NULL}] /\ table \in [Frame -> [Slot -> EntryOrNull]]
      /\ tlb \in [Linear -> EntryOrNull] /\ held \in SUBSET Frame
      /\ Memory \in MemoryType /\ View(Memory) \in [Linear -> EntryOrNull]
      /\ Sorted(Memory, held) /\ Counted(Memory, held) /\ (ResetsRef => Exact(Memory, held))
      /\ Coherent(Memory)
      /\ page \in Frame
  BY TypeFacts DEF Good
<1>3. PICK n : n = Memory'
  OBVIOUS
<1>4. /\ n.free = Memory.free \ {page} /\ n.ref = Memory.ref /\ n.pgdir = Memory.pgdir
      /\ n.table = [Memory.table EXCEPT ![page] = [s \in Slot |-> Junk]] /\ n.tlb = Memory.tlb
  BY <1>1, <1>3 DEF Memory
<1>5. n \in MemoryType
  <2>1. PICK perm \in Perm : TRUE
    BY IndexAssumption
  <2>2. [page |-> page, perm |-> perm] \in Entry
    BY <1>2 DEF Entry
  <2>3. Junk \in Entry
    BY <2>2 DEF Junk
  <2>4. [s \in Slot |-> Junk] \in [Slot -> EntryOrNull]
    BY <2>3 DEF EntryOrNull
  <2>5. free' \in SUBSET Frame /\ table' \in [Frame -> [Slot -> EntryOrNull]]
    BY <1>1, <1>2, <2>4
  <2>6. QED
    BY <1>1, <1>2, <1>3, <2>5 DEF Memory, MemoryType
<1>6. page \in Memory.free /\ ~TableOf(Memory, page) /\ page \notin held
  BY <1>1, <1>2, MemoryFields DEF Sorted
<1>7. View(n) = View(Memory)
  <2>1. \A x \in Linear : View(n)[x] = View(Memory)[x]
    BY <1>2, <1>4, <1>6, ViewType, MemoryFields DEF View, TableOf
  <2>2. QED
    BY <1>2, <1>5, <2>1, ViewType
<1>8. \A f \in Frame : TableOf(n, f) <=> TableOf(Memory, f)
  BY <1>4 DEF TableOf
<1>9. Sorted(n, held \cup {page})
  BY <1>2, <1>4, <1>6, <1>7, <1>8 DEF Sorted
<1>10. Count(View(n), page) = 0
  <2>1. MapSet(View(Memory), page) = {}
    BY <1>2, <1>6 DEF MapSet, Sorted
  <2>2. QED
    BY <1>7, <2>1, CountType
<1>11. Counted(n, held \cup {page})
  <2>1. n.ref[page] >= Count(View(n), page)
    BY <1>2, <1>4, <1>10, MemoryFields
  <2>2. QED
    BY <1>2, <1>4, <1>7, <1>8, <2>1 DEF Counted
<1>12. ResetsRef => Exact(n, held \cup {page})
  BY <1>2, <1>4, <1>6, <1>7, <1>10 DEF Exact
<1>13. Coherent(n)
  BY <1>2, <1>4, <1>7 DEF Coherent
<1>14. Good(n, held \cup {page})
  BY <1>5, <1>9, <1>11, <1>12, <1>13 DEF Good
<1>15. QED
  BY <1>1, <1>2, <1>3, <1>6, <1>7, <1>14

LEMMA FreePageGood ==
    ASSUME Good(Memory, held), FreePage
    PROVE  /\ Good(Memory, held)' /\ View(Memory') = View(Memory)
           /\ \E page \in held \ MappedIn(View(Memory)) : held' = held \ {page}
<1>1. PICK page \in held :
         /\ Mappings(page) = {}
         /\ free' = free \cup {page}
         /\ ref' = Released(ref, {page})
         /\ held' = held \ {page}
         /\ UNCHANGED <<pgdir, table, tlb, panicked>>
  BY DEF FreePage
<1>2. /\ free \in SUBSET Frame /\ ref \in [Frame -> Nat]
      /\ pgdir \in [Dir -> Frame \cup {NULL}] /\ table \in [Frame -> [Slot -> EntryOrNull]]
      /\ tlb \in [Linear -> EntryOrNull] /\ held \in SUBSET Frame
      /\ Memory \in MemoryType /\ View(Memory) \in [Linear -> EntryOrNull]
      /\ \A la \in Linear : View(Memory)[la] = Walk(la)
      /\ Sorted(Memory, held) /\ Counted(Memory, held) /\ (ResetsRef => Exact(Memory, held))
      /\ Coherent(Memory)
      /\ page \in Frame
  BY TypeFacts DEF Good
<1>3. PICK n : n = Memory'
  OBVIOUS
<1>4. /\ ref' \in [Frame -> Nat] /\ \A f \in Frame : f # page => ref'[f] = ref[f]
      /\ ResetsRef => ref'[page] = 0
  BY <1>1, <1>2 DEF Released
<1>5. /\ n.free = Memory.free \cup {page} /\ n.pgdir = Memory.pgdir
      /\ \A f \in Frame : f # page => n.ref[f] = Memory.ref[f]
      /\ ResetsRef => n.ref[page] = 0
      /\ n.table = Memory.table /\ n.tlb = Memory.tlb
  BY <1>1, <1>3, <1>4 DEF Memory
<1>6. n \in MemoryType
  BY <1>1, <1>2, <1>3, <1>4 DEF Memory, MemoryType
<1>7. View(n) = View(Memory)
  BY <1>5 DEF View
<1>8. MapSet(View(Memory), page) = {}
  BY <1>1, <1>2 DEF Mappings, MapSet
<1>9. page \notin MappedIn(View(Memory))
  BY <1>8 DEF MappedIn
<1>10. \A f \in Frame : TableOf(n, f) <=> TableOf(Memory, f)
  BY <1>5 DEF TableOf
<1>11. Sorted(n, held \ {page})
  <2>1. \A la \in Linear : View(n)[la] # NULL => View(n)[la].page \in held \ {page}
    BY <1>2, <1>7, <1>8 DEF Sorted, MapSet
  <2>2. \A f \in Frame : f \in n.free <=> f \in Memory.free \/ f = page
    BY <1>5
  <2>3. QED
    BY <1>2, <1>5, <1>10, <2>1, <2>2 DEF Sorted
<1>12. Counted(n, held \ {page})
  <2>1. ~TableOf(Memory, page)
    BY <1>2 DEF Sorted
  <2>2. QED
    BY <1>2, <1>5, <1>7, <1>10, <2>1 DEF Counted
<1>13. ResetsRef => Exact(n, held \ {page})
  BY <1>2, <1>5, <1>7, MemoryFields DEF Exact
<1>14. Coherent(n)
  BY <1>2, <1>5, <1>7 DEF Coherent
<1>15. Good(n, held \ {page})
  BY <1>6, <1>11, <1>12, <1>13, <1>14 DEF Good
<1>16. QED
  BY <1>1, <1>3, <1>7, <1>9, <1>15

(* A step that maps or unmaps la.                                          *)
Remaps(la, e) ==
    /\ Good(Memory, held)' /\ View(Memory') = Put(View(Memory), la, e)
    /\ ResetsRef => held' = held \ Gone(View(Memory), la, e)

LEMMA PageRemoveGood ==
    ASSUME Good(Memory, held), NEW la \in Linear, PageRemove(la)
    PROVE  View(Memory)[la] # NULL /\ Remaps(la, NULL)
<1>1. PICK n : n = RemovePte(Memory, la)
  OBVIOUS
<1>2. View(Memory)[la] # NULL /\ Becomes(n) /\ held' = held \ n.free
  BY <1>1, TypeFacts DEF PageRemove, Becomes
<1>3. Maps(Memory, held, la, NULL, n)
  BY <1>1, <1>2, Remove
<1>4. Memory' = n
  BY <1>2, <1>3, BecomesMemory DEF Good, Maps
<1>5. QED
  BY <1>2, <1>3, <1>4 DEF Maps, Remaps

LEMMA PageInsertGood ==
    ASSUME Good(Memory, held), NEW la \in Linear, NEW page \in held, NEW perm \in Perm,
           PageInsert(page, la, perm)
    PROVE  Remaps(la, [page |-> page, perm |-> perm])
<1>1. PICK n : n = InsertPte(Memory, la, page, perm)
  OBVIOUS
<1>2. Memory.pgdir[la[1]] # NULL /\ Becomes(n) /\ held' = held \ n.free
  BY <1>1, MemoryFields DEF PageInsert, Becomes
<1>3. PICK e : e = [page |-> page, perm |-> perm]
  OBVIOUS
<1>4. Maps(Memory, held, la, e, n)
  BY <1>1, <1>2, <1>3, Insert
<1>5. Memory' = n
  BY <1>2, <1>4, BecomesMemory DEF Good, Maps
<1>6. QED
  BY <1>2, <1>3, <1>4, <1>5 DEF Maps, Remaps

LEMMA PageInsertNewTableGood ==
    ASSUME Good(Memory, held), NEW la \in Linear, NEW page \in held, NEW perm \in Perm,
           PageInsertNewTable(page, la, perm)
    PROVE  Remaps(la, [page |-> page, perm |-> perm])
<1>1. PICK t \in free : Becomes(InsertPte(WithTable(Memory, la[1], t), la, page, perm))
  BY DEF PageInsertNewTable
<1>2. PICK m : m = WithTable(Memory, la[1], t)
  OBVIOUS
<1>3. PICK n : n = InsertPte(m, la, page, perm)
  OBVIOUS
<1>4. Becomes(n) /\ held' = held \ n.free
  BY <1>1, <1>2, <1>3 DEF Becomes
<1>5. Good(m, held) /\ View(m) = View(Memory) /\ m.pgdir[la[1]] # NULL
  <2>1. la[1] \in Dir /\ Memory.pgdir[la[1]] = NULL /\ t \in Memory.free
    BY MemoryFields, ViewType DEF PageInsertNewTable, Linear
  <2>2. QED
    BY ONLY NewTable, Good(Memory, held), <1>2, <2>1
<1>6. PICK e : e = [page |-> page, perm |-> perm]
  OBVIOUS
<1>7. Maps(m, held, la, e, n)
  BY <1>3, <1>5, <1>6, Insert
<1>8. Memory' = n
  BY <1>4, <1>7, BecomesMemory DEF Good, Maps
<1>9. QED
  BY <1>4, <1>5, <1>6, <1>7, <1>8 DEF Maps, Remaps

(* The processor's own steps leave the tables alone.                       *)
LEMMA TlbGood ==
    ASSUME Good(Memory, held), NEW la \in Linear, TlbLoad(la) \/ TlbEvict(la)
    PROVE  Good(Memory, held)' /\ View(Memory') = View(Memory) /\ held' = held
<1>1. PICK e \in EntryOrNull :
         /\ e = NULL \/ e = View(Memory)[la]
         /\ tlb' = [tlb EXCEPT ![la] = e]
         /\ UNCHANGED <<free, ref, pgdir, table, held, panicked>>
  BY TypeFacts DEF TlbLoad, TlbEvict, EntryOrNull
<1>2. PICK n : n = Memory'
  OBVIOUS
<1>3. /\ n.free = Memory.free /\ n.ref = Memory.ref /\ n.pgdir = Memory.pgdir
      /\ n.table = Memory.table /\ n.tlb = [Memory.tlb EXCEPT ![la] = e]
  BY <1>1, <1>2 DEF Memory
<1>4. n \in MemoryType
  <2>1. tlb' \in [Linear -> EntryOrNull]
    BY <1>1, TypeFacts
  <2>2. QED
    BY <1>1, <1>2, <2>1, TypeFacts DEF Memory, MemoryType
<1>5. View(n) = View(Memory) /\ \A f \in Frame : TableOf(n, f) <=> TableOf(Memory, f)
  BY <1>3 DEF View, TableOf
<1>6. Sorted(n, held)
  BY <1>3, <1>5 DEF Good, Sorted
<1>7. Counted(n, held)
  BY <1>3, <1>5 DEF Good, Counted
<1>8. ResetsRef => Exact(n, held)
  BY <1>3, <1>5 DEF Good, Exact
<1>9. Coherent(n)
  BY <1>1, <1>3, <1>5, TypeFacts, MemoryFields DEF Good, Coherent
<1>10. QED
  BY <1>1, <1>2, <1>4, <1>5, <1>6, <1>7, <1>8, <1>9 DEF Good

(* A table without entries is nothing to the view.                         *)
LEMMA FreeEmptyTableGood ==
    ASSUME Good(Memory, held), NEW d \in Dir, FreeEmptyTable(d)
    PROVE  Good(Memory, held)' /\ View(Memory') = View(Memory) /\ held' = held
<1>1. /\ free \in SUBSET Frame /\ ref \in [Frame -> Nat]
      /\ pgdir \in [Dir -> Frame \cup {NULL}] /\ table \in [Frame -> [Slot -> EntryOrNull]]
      /\ tlb \in [Linear -> EntryOrNull] /\ held \in SUBSET Frame
      /\ Memory \in MemoryType /\ View(Memory) \in [Linear -> EntryOrNull]
      /\ Sorted(Memory, held) /\ Counted(Memory, held) /\ (ResetsRef => Exact(Memory, held))
      /\ Coherent(Memory)
  BY TypeFacts DEF Good
<1>2. PICK t \in Frame : t = pgdir[d]
  BY <1>1 DEF FreeEmptyTable
<1>3. PICK n : n = Memory'
  OBVIOUS
<1>4. /\ ref' \in [Frame -> Nat] /\ \A f \in Frame : f # t => ref'[f] = ref[f]
      /\ ResetsRef => ref'[t] = 0
  BY <1>1, <1>2 DEF FreeEmptyTable, Released
<1>5. /\ n.free = Memory.free \cup {t} /\ n.pgdir = [Memory.pgdir EXCEPT ![d] = NULL]
      /\ \A f \in Frame : f # t => n.ref[f] = Memory.ref[f]
      /\ ResetsRef => n.ref[t] = 0
      /\ n.table = Memory.table /\ n.tlb = Memory.tlb
      /\ held' = held
  BY <1>2, <1>3, <1>4 DEF Memory, FreeEmptyTable
<1>6. n \in MemoryType
  <2>1. free' \in SUBSET Frame /\ pgdir' \in [Dir -> Frame \cup {NULL}]
    BY <1>1, <1>2 DEF FreeEmptyTable
  <2>2. QED
    BY <1>1, <1>3, <1>4, <2>1 DEF Memory, MemoryType, FreeEmptyTable
<1>7. \A s \in Slot : Memory.table[t][s] = NULL
  BY <1>2, MemoryFields DEF FreeEmptyTable
<1>8. \A c \in Dir : n.pgdir[c] = IF c = d THEN NULL ELSE Memory.pgdir[c]
  BY <1>1, <1>5, MemoryFields
<1>9. View(n) = View(Memory)
  <2>1. \A x \in Linear : View(n)[x] = View(Memory)[x]
    BY <1>1, <1>2, <1>5, <1>7, <1>8, ViewType, MemoryFields DEF View
  <2>2. QED
    BY <1>1, <1>6, <2>1, ViewType
<1>10. Memory.pgdir[d] = t /\ t # NULL
  BY <1>2, MemoryFields, NULLAssumption
<1>11. \A f \in Frame : TableOf(n, f) <=> TableOf(Memory, f) /\ f # t
  BY <1>1, <1>8, <1>10, NULLAssumption DEF TableOf, Sorted
<1>12. Sorted(n, held)
  <2>1. \A f \in Frame : f \in n.free <=> f \in Memory.free \/ f = t
    BY <1>5
  <2>2. TableOf(Memory, t)
    BY <1>10 DEF TableOf
  <2>3. \A b, c \in Dir : n.pgdir[b] = n.pgdir[c] /\ n.pgdir[b] # NULL => b = c
    BY <1>1, <1>8 DEF Sorted
  <2>4. QED
    BY <1>1, <1>9, <1>11, <2>1, <2>2, <2>3 DEF Sorted
<1>13. t \notin held
  BY <1>1, <1>10 DEF Sorted, TableOf
<1>14. Counted(n, held)
  BY <1>1, <1>5, <1>9, <1>11, <1>13 DEF Counted
<1>15. ResetsRef => Exact(n, held)
  BY <1>1, <1>5, <1>9, <1>13, MemoryFields DEF Exact
<1>16. Coherent(n)
  BY <1>1, <1>5, <1>9 DEF Coherent
<1>17. QED
  BY <1>3, <1>5, <1>6, <1>9, <1>12, <1>14, <1>15, <1>16 DEF Good

(* Every step keeps the invariant.                                         *)
LEMMA StepGood == Inv /\ [Careful]_vars => Inv'
<1> SUFFICES ASSUME Inv, [Careful]_vars
             PROVE  Inv'
  OBVIOUS
<1>1. Good(Memory, held) /\ panicked = FALSE
  BY DEF Inv
<1>2. CASE AllocPage
  <2>1. panicked' = panicked
    BY <1>2 DEF AllocPage
  <2>2. QED
    BY <1>1, <1>2, <2>1, AllocPageGood DEF Inv
<1>3. CASE FreePage
  BY <1>1, <1>3, FreePageGood DEF FreePage, Inv
<1>4. ASSUME NEW la \in Linear, NEW page \in held, NEW perm \in Perm, PageInsert(page, la, perm)
      PROVE  Inv'
  BY <1>1, <1>4, PageInsertGood DEF PageInsert, Remaps, Inv
<1>5. ASSUME NEW la \in Linear, NEW page \in held, NEW perm \in Perm,
             PageInsertNewTable(page, la, perm)
      PROVE  Inv'
  BY <1>1, <1>5, PageInsertNewTableGood DEF PageInsertNewTable, Remaps, Inv
<1>6. ASSUME NEW la \in Linear, PageRemove(la)
      PROVE  Inv'
  BY <1>1, <1>6, PageRemoveGood DEF PageRemove, Remaps, Inv
<1>7. ASSUME NEW la \in Linear, TlbLoad(la) \/ TlbEvict(la)
      PROVE  Inv'
  BY <1>1, <1>7, TlbGood DEF TlbLoad, TlbEvict, Inv
<1>8. ASSUME NEW d \in Dir, FreeEmptyTable(d)
      PROVE  Inv'
  BY <1>1, <1>8, FreeEmptyTableGood DEF FreeEmptyTable, Inv
<1>9. CASE UNCHANGED vars
  <2>1. Memory' = Memory /\ held' = held /\ panicked' = panicked
    BY <1>9 DEF vars, Memory
  <2>2. QED
    BY <1>1, <2>1 DEF Inv
<1>10. QED
  BY <1>2, <1>3, <1>4, <1>5, <1>6, <1>7, <1>8, <1>9 DEF Careful

LEMMA InvHolds == Spec => []Inv
BY InitGood, StepGood, PTL DEF Spec

-----------------------------------------------------------------------------
(* The theorems                                                            *)

(* Every variable has its type, and no call of careful callers panics.     *)
THEOREM TypeCorrect == Spec => [](TypeOK /\ NoPanic)
<1>1. Inv => TypeOK /\ NoPanic
  <2> SUFFICES ASSUME Inv PROVE TypeOK /\ NoPanic
    OBVIOUS
  <2>1. Good(Memory, held) /\ panicked = FALSE
    BY DEF Inv
  <2>2. QED
    BY <2>1, TypeFacts DEF TypeOK, NoPanic, EntryOrNull
<1>2. QED
  BY <1>1, InvHolds, PTL

(* A frame is free, a page table, or owned, and never two of these; only   *)
(* owned frames are mapped; no table serves two directory entries.  With   *)
(* either manager.                                                         *)
THEOREM FramesAccountedHolds == Spec => []FramesAccounted
<1>1. Inv => FramesAccounted
  <2> SUFFICES ASSUME Inv PROVE FramesAccounted
    OBVIOUS
  <2>1. Good(Memory, held) /\ Sorted(Memory, held)
    BY DEF Inv, Good
  <2>2. \A f \in Frame : f \in Tables <=> TableOf(Memory, f)
    BY MemoryFields, NULLAssumption DEF Tables, TableOf
  <2>3. free \subseteq Frame /\ Tables \subseteq Frame /\ held \subseteq Frame
    BY <2>1, TypeFacts DEF Tables
  <2>4. \A la \in Linear : Walk(la) # NULL => Walk(la).page \in held
    BY <2>1, TypeFacts DEF Sorted
  <2>5. \A d, e \in Dir : pgdir[d] = pgdir[e] /\ pgdir[d] # NULL => d = e
    BY <2>1, MemoryFields DEF Sorted
  <2>6. Frame = free \cup Tables \cup held
    BY <2>1, <2>2, <2>3, MemoryFields DEF Sorted
  <2>7. free \cap Tables = {} /\ free \cap held = {} /\ Tables \cap held = {}
    BY <2>1, <2>2, <2>3, MemoryFields DEF Sorted
  <2>8. QED
    BY <2>4, <2>5, <2>6, <2>7 DEF FramesAccounted
<1>2. QED
  BY <1>1, InvHolds, PTL

(* What the processor has cached is what the tables say, whenever it loads *)
(* and drops translations.  With either manager.                           *)
THEOREM TlbCoherentHolds == Spec => []TlbCoherent
<1>1. Inv => TlbCoherent
  BY TypeFacts, MemoryFields DEF Inv, Good, Coherent, TlbCoherent
<1>2. QED
  BY <1>1, InvHolds, PTL

(* With a manager that clears ref when it takes a frame back, ref counts   *)
(* the mappings of a frame exactly, and is 1 for a page table.             *)
THEOREM RefCountHolds == ASSUME ResetsRef PROVE Spec => []RefCount
<1>1. Inv => RefCount
  <2> SUFFICES ASSUME Inv, NEW f \in Frame, f \notin free
               PROVE  ref[f] = Cardinality(Mappings(f)) + Cardinality({d \in Dir : pgdir[d] = f})
    BY DEF RefCount
  <2> DEFINE D == {d \in Dir : pgdir[d] = f}
  <2>1. /\ Good(Memory, held) /\ Sorted(Memory, held) /\ Counted(Memory, held) /\ Exact(Memory, held)
    BY DEF Inv, Good
  <2>2. Cardinality(Mappings(f)) = Count(View(Memory), f)
    <3>1. Mappings(f) = MapSet(View(Memory), f)
      BY <2>1, TypeFacts DEF Mappings, MapSet
    <3>2. QED
      BY <3>1 DEF Count
  <2>3. Count(View(Memory), f) \in Nat
    BY CountType
  <2>4. CASE f \in held
    <3>1. D = {}
      BY <2>1, <2>4, MemoryFields DEF Sorted, TableOf
    <3>2. Cardinality(D) = 0
      BY <3>1, FS_EmptySet
    <3>3. ref[f] = Count(View(Memory), f)
      BY <2>1, <2>4, MemoryFields DEF Exact
    <3> HIDE DEF D
    <3>4. ref[f] = Cardinality(Mappings(f)) + Cardinality(D)
      BY ONLY <2>2, <2>3, <3>2, <3>3
    <3>5. QED
      BY <3>4 DEF D
  <2>5. CASE TableOf(Memory, f)
    <3>1. PICK d \in Dir : pgdir[d] = f
      BY <2>5, MemoryFields DEF TableOf
    <3>2. D = {d}
      BY <2>1, <3>1, MemoryFields, NULLAssumption DEF Sorted
    <3>3. Cardinality(D) = 1
      BY <3>2, FS_Singleton
    <3>4. MapSet(View(Memory), f) = {}
      BY <2>1, <2>5 DEF Sorted, MapSet
    <3>5. Count(View(Memory), f) = 0
      BY <3>4, CountType
    <3>6. ref[f] = 1
      BY <2>1, <2>5, MemoryFields DEF Counted
    <3> HIDE DEF D
    <3>7. ref[f] = Cardinality(Mappings(f)) + Cardinality(D)
      BY ONLY <2>2, <3>3, <3>5, <3>6
    <3>8. QED
      BY <3>7 DEF D
  <2>6. QED
    BY <2>1, <2>4, <2>5, MemoryFields DEF Sorted
<1>2. QED
  BY <1>1, InvHolds, PTL

-----------------------------------------------------------------------------
(* The address space                                                       *)

PageOf(W) == [la \in Linear |-> IF W[la] = NULL THEN NULL ELSE W[la].page]

(* The abstract state is the view without permissions.                     *)
Seen == [la \in Linear |-> IF Walk(la) = NULL THEN NULL ELSE Walk(la).page]

LEMMA SpaceIsView == Good(Memory, held) => Seen = PageOf(View(Memory))
BY TypeFacts DEF PageOf, Seen

LEMMA MappedIsMapped ==
    ASSUME NEW W \in [Linear -> EntryOrNull]
    PROVE  {PageOf(W)[la] : la \in Linear} \ {NULL} = MappedIn(W)
<1>1. \A la \in Linear : W[la] # NULL => W[la].page \in Frame
  BY DEF EntryOrNull, Entry
<1>2. \A f \in Frame : f \in MappedIn(W) <=> \E la \in Linear : W[la] # NULL /\ W[la].page = f
  BY DEF MappedIn, MapSet
<1>3. QED
  BY <1>1, <1>2, NULLAssumption DEF PageOf, MappedIn

LEMMA PageOfPut ==
    ASSUME NEW W \in [Linear -> EntryOrNull], NEW la \in Linear, NEW e \in EntryOrNull
    PROVE  PageOf(Put(W, la, e)) = [PageOf(W) EXCEPT ![la] = IF e = NULL THEN NULL ELSE e.page]
BY DEF PageOf, Put

(* A step of an owner, seen through the tables before and after it.        *)
LEMMA StepSeen ==
    ASSUME Inv, Inv', NEW W, W = View(Memory), NEW W2, W2 = View(Memory')
    PROVE  /\ Seen = PageOf(W) /\ Seen' = PageOf(W2)
           /\ W \in [Linear -> EntryOrNull] /\ W2 \in [Linear -> EntryOrNull]
           /\ Space!Mapped(Seen) = MappedIn(W) /\ Space!Mapped(Seen') = MappedIn(W2)
           /\ held \subseteq Frame
<1>1. Seen = PageOf(W) /\ Good(Memory, held) /\ Memory \in MemoryType /\ held \subseteq Frame
  BY SpaceIsView, TypeFacts DEF Inv, Good
<1>2. (Good(Memory, held) => Seen = PageOf(View(Memory)))'
  BY SpaceIsView, PTL
<1>3. Seen' = PageOf(W2) /\ Memory' \in MemoryType
  BY <1>2 DEF Inv, Good
<1>4. W \in [Linear -> EntryOrNull] /\ W2 \in [Linear -> EntryOrNull]
  BY <1>1, <1>3, ViewType
<1>5. \A s : Space!Mapped(s) = {s[la] : la \in Linear} \ {NULL}
  BY DEF Space!Mapped
<1>6. QED
  BY <1>1, <1>3, <1>4, <1>5, MappedIsMapped

LEMMA SpaceStep == ResetsRef /\ Inv /\ Inv' /\ [Careful]_vars => [Space!Next]_(Space!vars)
<1> SUFFICES ASSUME ResetsRef, Inv, Inv', [Careful]_vars
             PROVE  [Space!Next]_(Space!vars)
  OBVIOUS
<1>1. PICK W, W2 : W = View(Memory) /\ W2 = View(Memory')
  OBVIOUS
<1>2. /\ Seen = PageOf(W) /\ Seen' = PageOf(W2)
      /\ W \in [Linear -> EntryOrNull] /\ W2 \in [Linear -> EntryOrNull]
      /\ Space!Mapped(Seen) = MappedIn(W) /\ Space!Mapped(Seen') = MappedIn(W2)
      /\ held \subseteq Frame
  BY <1>1, StepSeen
<1>3. Good(Memory, held)
  BY DEF Inv
<1>4. ASSUME W2 = W, held' = held
      PROVE  UNCHANGED Space!vars
  BY <1>2, <1>4 DEF Space!vars, Seen
<1>5. ASSUME NEW la \in Linear, NEW e \in EntryOrNull, Remaps(la, e)
      PROVE  /\ Seen' = [Seen EXCEPT ![la] = IF e = NULL THEN NULL ELSE e.page]
             /\ held' = held \ (Space!Mapped(Seen) \ Space!Mapped(Seen'))
  <2>1. W2 = Put(W, la, e) /\ held' = held \ Gone(W, la, e)
    BY <1>1, <1>5 DEF Remaps
  <2>2. PageOf(W2) = [PageOf(W) EXCEPT ![la] = IF e = NULL THEN NULL ELSE e.page]
    BY <1>2, <2>1, PageOfPut
  <2>3. QED
    BY <1>2, <2>1, <2>2 DEF Gone
<1>6. CASE AllocPage
  <2>1. W2 = W /\ \E page \in Frame \ held : held' = held \cup {page}
    BY <1>1, <1>3, <1>6, AllocPageGood
  <2>2. Seen' = Seen
    BY <1>2, <2>1
  <2>3. Space!Alloc
    BY <2>1, <2>2 DEF Space!Alloc, Seen
  <2>4. QED
    BY <2>3 DEF Space!Next
<1>7. CASE FreePage
  <2>1. W2 = W /\ \E page \in held \ MappedIn(W) : held' = held \ {page}
    BY <1>1, <1>3, <1>7, FreePageGood
  <2>2. PICK page \in Frame : page \in held \ Space!Mapped(Seen) /\ held' = held \ {page}
    BY <1>2, <2>1
  <2>3. Seen' = Seen
    BY <1>2, <2>1
  <2>4. Space!Release(page)
    BY <2>2, <2>3 DEF Space!Release, Seen
  <2>5. QED
    BY <2>2, <2>4 DEF Space!Next
<1>8. ASSUME NEW la \in Linear, NEW page \in held, NEW perm \in Perm,
             PageInsert(page, la, perm) \/ PageInsertNewTable(page, la, perm)
      PROVE  Space!Next
  <2>1. PICK e : e = [page |-> page, perm |-> perm]
    OBVIOUS
  <2>2. e \in EntryOrNull /\ e # NULL /\ e.page = page /\ page \in Frame
    BY <1>2, <2>1, NULLAssumption DEF EntryOrNull, Entry
  <2>3. Remaps(la, e)
    BY <1>3, <1>8, <2>1, PageInsertGood, PageInsertNewTableGood
  <2>4. /\ Seen' = [Seen EXCEPT ![la] = page]
        /\ held' = held \ (Space!Mapped(Seen) \ Space!Mapped(Seen'))
    BY <1>5, <2>2, <2>3
  <2>5. Space!Replace(la, page)
    BY <2>4 DEF Space!Replace, Seen
  <2>6. QED
    BY <2>2, <2>5 DEF Space!Next, Space!Insert
<1>9. ASSUME NEW la \in Linear, PageRemove(la)
      PROVE  Space!Next
  <2>1. W[la] # NULL /\ Remaps(la, NULL)
    BY <1>1, <1>3, <1>9, PageRemoveGood
  <2>2. Seen[la] # NULL
    BY <1>2, <2>1, NULLAssumption DEF PageOf, EntryOrNull, Entry
  <2>3. /\ Seen' = [Seen EXCEPT ![la] = NULL]
        /\ held' = held \ (Space!Mapped(Seen) \ Space!Mapped(Seen'))
    BY <1>5, <2>1 DEF EntryOrNull
  <2>4. Space!Remove(la)
    BY <2>2, <2>3 DEF Space!Remove, Space!Replace, Seen
  <2>5. QED
    BY <2>4 DEF Space!Next
<1>10. ASSUME NEW la \in Linear, TlbLoad(la) \/ TlbEvict(la)
       PROVE  UNCHANGED Space!vars
  BY <1>1, <1>3, <1>4, <1>10, TlbGood
<1>11. ASSUME NEW d \in Dir, FreeEmptyTable(d)
       PROVE  UNCHANGED Space!vars
  BY <1>1, <1>3, <1>4, <1>11, FreeEmptyTableGood
<1>12. CASE UNCHANGED vars
  <2>1. Memory' = Memory /\ held' = held
    BY <1>12 DEF vars, Memory
  <2>2. QED
    BY <1>1, <1>4, <2>1
<1>13. QED
  BY <1>6, <1>7, <1>8, <1>9, <1>10, <1>11, <1>12 DEF Careful

(* Callers see an address space: every step of the page tables, counts and *)
(* TLB changes at most one point of it, and a frame dies exactly with its  *)
(* last mapping, if the manager clears ref.                                *)
THEOREM SpaceKeptHolds == ASSUME ResetsRef PROVE Spec => SpaceKept
<1>1. Init => Space!Init
  <2> SUFFICES ASSUME Init PROVE Space!Init
    OBVIOUS
  <2>1. \A la \in Linear : Walk(la) = NULL
    BY DEF Init, Walk, Linear
  <2>2. QED
    BY <2>1 DEF Init, Space!Init
<1>2. [][Careful]_vars /\ []Inv => [][Space!Next]_(Space!vars)
  BY SpaceStep, PTL
<1>3. QED
  BY <1>1, <1>2, InvHolds, PTL DEF Spec, SpaceKept, Space!Spec
(* Mappings(f), seen through the tables before and after a step.           *)
LEMMA MappingsAre == Good(Memory, held) => \A f : Mappings(f) = MapSet(View(Memory), f)
BY TypeFacts DEF Mappings, MapSet

LEMMA MappingsSeen ==
    ASSUME Inv, Inv'
    PROVE  \A f : /\ Mappings(f) = MapSet(View(Memory), f)
                  /\ Mappings(f)' = MapSet(View(Memory'), f)
<1>1. (Good(Memory, held) => \A f : Mappings(f) = MapSet(View(Memory), f))'
  BY MappingsAre, PTL
<1>2. Good(Memory, held) /\ Good(Memory, held)'
  BY DEF Inv
<1>3. QED
  BY <1>1, <1>2, MappingsAre

(* If the manager clears ref, the page that page_remove_pte unmaps for the *)
(* last time is freed: the promise that fails in the buddy system.         *)
THEOREM FreedWithLastMappingHolds == ASSUME ResetsRef PROVE Spec => FreedWithLastMapping
<1>1. ASSUME Inv, Inv', [Careful]_vars, NEW f \in held, Mappings(f) # {}, Mappings(f)' = {}
      PROVE  f \in free'
  <2>1. PICK W, W2 : W = View(Memory) /\ W2 = View(Memory')
    OBVIOUS
  <2>2. MapSet(W, f) # {} /\ MapSet(W2, f) = {} /\ f \in Frame /\ Good(Memory, held)
    BY <1>1, <2>1, MappingsSeen, TypeFacts DEF Inv, Good
  <2>3. W2 # W
    BY <2>2
  <2>4. ASSUME NEW la, NEW e, Remaps(la, e), held' = held \ free'
        PROVE  f \in free'
    <3>1. f \in Gone(W, la, e) /\ held' = held \ Gone(W, la, e)
      BY <2>1, <2>2, <2>4 DEF Remaps, Gone, MappedIn
    <3>2. QED
      BY <1>1, <2>4, <3>1
  <2>5. CASE AllocPage
    BY <2>1, <2>2, <2>3, <2>5, AllocPageGood
  <2>6. CASE FreePage
    BY <2>1, <2>2, <2>3, <2>6, FreePageGood
  <2>7. ASSUME NEW la \in Linear, NEW page \in held, NEW perm \in Perm,
               PageInsert(page, la, perm) \/ PageInsertNewTable(page, la, perm)
        PROVE  f \in free'
    <3>1. Remaps(la, [page |-> page, perm |-> perm])
      BY <2>2, <2>7, PageInsertGood, PageInsertNewTableGood
    <3>2. held' = held \ free'
      BY <2>7 DEF PageInsert, PageInsertNewTable, Becomes
    <3>3. QED
      BY <2>4, <3>1, <3>2
  <2>8. ASSUME NEW la \in Linear, PageRemove(la)
        PROVE  f \in free'
    <3>1. Remaps(la, NULL)
      BY <2>2, <2>8, PageRemoveGood
    <3>2. held' = held \ free'
      BY <2>8 DEF PageRemove, Becomes
    <3>3. QED
      BY <2>4, <3>1, <3>2
  <2>9. ASSUME NEW la \in Linear, TlbLoad(la) \/ TlbEvict(la)
        PROVE  W2 = W
    BY <2>1, <2>2, <2>9, TlbGood
  <2>10. ASSUME NEW d \in Dir, FreeEmptyTable(d)
         PROVE  W2 = W
    BY <2>1, <2>2, <2>10, FreeEmptyTableGood
  <2>11. CASE UNCHANGED vars
    BY <2>1, <2>3, <2>11 DEF vars, Memory
  <2>12. CASE Careful
    BY <2>3, <2>5, <2>6, <2>7, <2>8, <2>9, <2>10, <2>12 DEF Careful
  <2>13. QED
    BY <1>1, <2>3, <2>11, <2>12
<1>2. [][Careful]_vars /\ []Inv =>
          [][\A f \in held : Mappings(f) # {} /\ Mappings(f)' = {} => f \in free']_vars
  <2>1. Inv /\ Inv' /\ [Careful]_vars =>
            [\A f \in held : Mappings(f) # {} /\ Mappings(f)' = {} => f \in free']_vars
    BY <1>1
  <2>2. QED
    BY <2>1, PTL
<1>3. QED
  BY <1>2, InvHolds, PTL DEF Spec, FreedWithLastMapping
=============================================================================

-------------------------- MODULE DefaultPmmProof --------------------------
(***************************************************************************)
(* Proofs about the first-fit manager for every number of pages and every  *)
(* set of regions.                                                         *)
(*                                                                         *)
(* The invariant speaks about the set of block heads rather than about     *)
(* positions of the list: an update of the list adds and removes heads     *)
(* (SeqLemmas), and what a step does to the blocks is arithmetic on the    *)
(* intervals they cover.                                                   *)
(***************************************************************************)
EXTENDS FreeMethods, SeqLemmas, FiniteSetTheorems, TLAPS

Heads == ToSet(free_list)

InBlock(h, p) == h <= p /\ p < h + property[h]

TypeInv ==
    /\ free_list \in Seq(Page)
    /\ nr_free \in Nat
    /\ property \in [Page -> 0..NPage]
    /\ flags \in [Page -> SUBSET Flag]
    /\ zone \in 0..Len(Zones)
    /\ held \subseteq Page
    /\ ret \in Result

(* The blocks are non-empty, inside memory and do not overlap. *)
ListInv ==
    /\ IsInjective(free_list)
    /\ \A h \in Heads : property[h] >= 1 /\ h + property[h] <= NPage
    /\ \A g, h \in Heads : g < h => g + property[g] <= h

(* They cover exactly the managed pages that nobody holds. *)
CoverInv ==
    /\ held \subseteq Managed
    /\ \A p \in Page : p \in Managed \ held <=> \E h \in Heads : InBlock(h, p)

FlagInv ==
    \A p \in Page : /\ "PG_property" \in flags[p] <=> p \in Heads
                    /\ "PG_reserved" \in flags[p] <=> p \notin Managed

CountInv == nr_free = Cardinality(Managed \ held)

Inv == TypeInv /\ ListInv /\ CoverInv /\ FlagInv /\ CountInv

-----------------------------------------------------------------------------
LEMMA PageFacts ==
  /\ Page \subseteq Nat
  /\ IsFiniteSet(Page)
  /\ Cardinality(Page) = NPage
  /\ \A base, n \in Int : \A p : p \in Run(base, n) <=> p \in Int /\ base <= p /\ p < base + n
<1>1. \A p : p \in Page <=> p \in Int /\ 0 <= p /\ p < NPage
  BY NPageAssumption DEF Page
<1>2. IsFiniteSet(Page) /\ Cardinality(Page) = IF 0 > NPage - 1 THEN 0 ELSE (NPage - 1) - 0 + 1
  BY NPageAssumption, FS_Interval DEF Page
<1>3. Cardinality(Page) = NPage
  BY <1>2, NPageAssumption
<1> QED  BY <1>1, <1>2, <1>3 DEF Run

LEMMA RunCount ==
  ASSUME NEW base \in Int, NEW n \in Nat
  PROVE  IsFiniteSet(Run(base, n)) /\ Cardinality(Run(base, n)) = n
<1>1. /\ IsFiniteSet(base..(base + n - 1))
      /\ Cardinality(base..(base + n - 1)) =
            IF base > base + n - 1 THEN 0 ELSE (base + n - 1) - base + 1
  BY FS_Interval
<1> QED  BY <1>1 DEF Run

LEMMA ManagedPages ==
  ASSUME zone \in 0..Len(Zones)
  PROVE  Managed \subseteq Page /\ IsFiniteSet(Managed)
<1>1. ASSUME NEW k \in 1..zone PROVE Run(Zones[k].base, Zones[k].n) \subseteq Page
  <2>1. k \in 1..Len(Zones)
    BY ZonesAssumption
  <2> QED  BY <2>1, ZonesAssumption
<1>2. Managed \subseteq Page
  BY <1>1 DEF Managed
<1> QED  BY <1>2, PageFacts, FS_Subset

(* Taking n free pages lowers the number of free pages by n. *)
LEMMA CountTake ==
  ASSUME NEW F, IsFiniteSet(F), NEW base \in Int, NEW n \in Nat, Run(base, n) \subseteq F
  PROVE  Cardinality(F \ Run(base, n)) = Cardinality(F) - n
<1>1. F \cap Run(base, n) = Run(base, n)
  OBVIOUS
<1>2. Cardinality(F \ Run(base, n)) = Cardinality(F) - Cardinality(F \cap Run(base, n))
  BY FS_Difference
<1> QED  BY <1>1, <1>2, RunCount

(* Returning n pages that are not free raises it by n. *)
LEMMA CountGive ==
  ASSUME NEW F, IsFiniteSet(F), NEW base \in Int, NEW n \in Nat, Run(base, n) \cap F = {}
  PROVE  Cardinality(F \cup Run(base, n)) = Cardinality(F) + n
<1>1. Cardinality(F \cap Run(base, n)) = 0
  <2>1. F \cap Run(base, n) = {}
    OBVIOUS
  <2> QED  BY <2>1, FS_EmptySet
<1>2. IsFiniteSet(Run(base, n)) /\ Cardinality(Run(base, n)) = n
  BY RunCount
<1>3. Cardinality(F \cup Run(base, n)) =
         Cardinality(F) + Cardinality(Run(base, n)) - Cardinality(F \cap Run(base, n))
  BY <1>2, FS_Union
<1>4. Cardinality(F) \in Nat
  BY FS_CardinalityType
<1> QED  BY <1>1, <1>2, <1>3, <1>4

-----------------------------------------------------------------------------
(* A page somebody holds, and a page not yet managed, lie in no block.     *)
LEMMA OutsideBlocks ==
  ASSUME Inv, NEW p \in Page, p \in held \/ p \notin Managed
  PROVE  /\ \A h \in Heads : ~InBlock(h, p)
         /\ p \notin Heads
<1>1. \A h \in Heads : ~InBlock(h, p)
  BY DEF Inv, CoverInv
<1>2. ASSUME p \in Heads PROVE InBlock(p, p)
  BY <1>2, PageFacts DEF Inv, ListInv, InBlock, TypeInv
<1> QED  BY <1>1, <1>2

LEMMA HeadFacts ==
  ASSUME Inv
  PROVE  /\ Heads \subseteq Page
         /\ \A i \in 1..Len(free_list) : free_list[i] \in Heads
         /\ \A h \in Heads : \E i \in 1..Len(free_list) : free_list[i] = h
         /\ \A h \in Heads : \A p \in Run(h, property[h]) : p \in Managed \ held
         /\ \A h \in Heads : h \in Nat /\ property[h] \in Nat
<1>1. free_list \in Seq(Page) /\ property \in [Page -> 0..NPage]
  BY DEF Inv, TypeInv
<1>2. /\ Heads \subseteq Page
      /\ \A i \in 1..Len(free_list) : free_list[i] \in Heads
      /\ \A h \in Heads : \E i \in 1..Len(free_list) : free_list[i] = h
  BY <1>1, ToSetIndex DEF Heads
<1>3. \A h \in Heads : h \in Nat /\ property[h] \in Nat
  BY <1>1, <1>2, PageFacts, NPageAssumption
<1>4. ASSUME NEW h \in Heads, NEW p \in Run(h, property[h]) PROVE p \in Managed \ held
  <2>1. InBlock(h, p)
    BY <1>3, PageFacts DEF InBlock
  <2>2. p \in Page
    <3>1. h + property[h] <= NPage
      BY DEF Inv, ListInv
    <3> QED  BY <3>1, <1>3, NPageAssumption DEF Page, Run
  <2> QED  BY <2>1, <2>2 DEF Inv, CoverInv
<1> QED  BY <1>2, <1>3, <1>4

LEMMA BlocksDisjoint ==
  ASSUME Inv, NEW g \in Heads, NEW h \in Heads, NEW p \in Page,
         InBlock(g, p), InBlock(h, p)
  PROVE  g = h
<1>1. /\ g \in Nat /\ property[g] \in Nat /\ h \in Nat /\ property[h] \in Nat /\ p \in Nat
      /\ g <= p /\ p < g + property[g] /\ h <= p /\ p < h + property[h]
  BY HeadFacts, PageFacts DEF InBlock
<1>2. (g < h => g + property[g] <= h) /\ (h < g => h + property[h] <= g)
  BY DEF Inv, ListInv
<1> QED  BY <1>1, <1>2

LEMMA InitInv == Init => Inv
<1> SUFFICES ASSUME Init PROVE Inv
  OBVIOUS
<1>1. Managed = {} /\ Heads = {}
  BY DEF Init, Managed, Heads, ToSet
<1>2. TypeInv
  <2>1. ret \in Result
    BY NPageAssumption DEF Init, Result
  <2> QED  BY <2>1, NPageAssumption, ZonesAssumption DEF Init, TypeInv, Flag
<1>3. ListInv
  BY <1>1 DEF Init, ListInv, IsInjective
<1>4. CoverInv /\ FlagInv
  BY <1>1 DEF Init, CoverInv, FlagInv
<1>5. CountInv
  BY <1>1, FS_EmptySet DEF Init, CountInv
<1> QED  BY <1>2, <1>3, <1>4, <1>5 DEF Inv

-----------------------------------------------------------------------------
(* init_memmap *)
LEMMA NewZone ==
  ASSUME Inv, NextZone
  PROVE  \E base \in Nat, n \in Nat \ {0} :
            /\ base = Zones[zone + 1].base /\ n = Zones[zone + 1].n
            /\ Run(base, n) \subseteq Page
            /\ Run(base, n) \cap Managed = {}
            /\ Managed' = Managed \cup Run(base, n)
<1>0. PICK base, n : base = Zones[zone + 1].base /\ n = Zones[zone + 1].n
  OBVIOUS
<1>1. zone + 1 \in 1..Len(Zones) /\ zone \in Nat
  BY DEF NextZone, Inv, TypeInv
<1>2. base \in Nat /\ n \in Nat \ {0} /\ Run(base, n) \subseteq Page
  <2>1. Zones[zone + 1] \in [base : Nat, n : Nat \ {0}]
    BY <1>1, ZonesAssumption, ElementOfSeq
  <2> QED  BY <2>1, <1>0, <1>1, ZonesAssumption
<1>3. Run(base, n) \cap Managed = {}
  <2>1. ASSUME NEW k \in 1..zone PROVE Run(Zones[k].base, Zones[k].n) \cap Run(base, n) = {}
    <3>1. k \in 1..Len(Zones) /\ k # zone + 1
      BY <1>1
    <3> QED  BY <3>1, <1>0, <1>1, ZonesAssumption
  <2> QED  BY <2>1 DEF Managed
<1>4. Managed' = Managed \cup Run(base, n)
  <2>1. 1..(zone + 1) = (1..zone) \cup {zone + 1}
    BY <1>1
  <2>2. zone' = zone + 1
    BY DEF NextZone
  <2> QED  BY <2>1, <2>2, <1>0 DEF Managed
<1> QED  BY <1>0, <1>2, <1>3, <1>4

LEMMA NextZoneStep ==
  ASSUME Inv, NextZone
  PROVE  Inv'
<1>0. PICK base \in Nat, n \in Nat \ {0} :
         /\ base = Zones[zone + 1].base /\ n = Zones[zone + 1].n
         /\ Run(base, n) \subseteq Page
         /\ Run(base, n) \cap Managed = {}
         /\ Managed' = Managed \cup Run(base, n)
  BY NewZone
<1>1. zone + 1 \in 1..Len(Zones) /\ zone \in Nat
  BY DEF NextZone, Inv, TypeInv
<1>2. base \in Nat /\ n \in Nat \ {0} /\ Run(base, n) \subseteq Page
  BY <1>0
<1>3. Run(base, n) \cap Managed = {}
  BY <1>0
<1>4. Managed' = Managed \cup Run(base, n)
  BY <1>0
<1>5. /\ flags' = [p \in Page |-> IF p = base THEN {"PG_property"}
                                  ELSE IF p \in Run(base, n) THEN {} ELSE flags[p]]
      /\ property' = [p \in Page |-> IF p = base THEN n
                                     ELSE IF p \in Run(base, n) THEN 0 ELSE property[p]]
      /\ nr_free' = nr_free + n
      /\ free_list' = <<base>> \o free_list
      /\ zone' = zone + 1 /\ held' = held /\ ret' = ret
  BY <1>0 DEF NextZone, InitMemmap
<1>6. base \in Run(base, n) /\ base \in Page /\ base + n <= NPage
  <2>1. base \in Run(base, n) /\ base + n - 1 \in Run(base, n)
    BY <1>2 DEF Run
  <2> QED  BY <2>1, <1>2, NPageAssumption DEF Page
<1>7. base \notin Heads
  BY <1>3, <1>6, OutsideBlocks
<1>8. free_list \in Seq(Page) /\ free_list' = InsertAt(free_list, 1, base)
  <2>1. free_list \in Seq(Page)
    BY DEF Inv, TypeInv
  <2>2. SubSeq(free_list, 1, 1 - 1) = <<>>
    BY <2>1, SubSeqEmpty
  <2>3. SubSeq(free_list, 1, Len(free_list)) = free_list
    BY <2>1, SubSeqFull
  <2>4. <<>> \o <<base>> = <<base>>
    BY <1>6
  <2> QED  BY <2>1, <2>2, <2>3, <2>4, <1>5 DEF InsertAt
<1>9. Heads' = Heads \cup {base} /\ IsInjective(free_list') /\ free_list' \in Seq(Page)
  <2>1. 1 \in 1..(Len(free_list) + 1)
    BY <1>8
  <2>2. IsInjective(free_list)
    BY DEF Inv, ListInv
  <2>3. /\ ToSet(free_list') = ToSet(free_list) \cup {base}
        /\ IsInjective(free_list')
    BY <1>6, <1>7, <1>8, <2>1, <2>2, InsertAtSet DEF Heads
  <2>4. free_list' \in Seq(Page)
    BY <1>6, <1>8, <2>1, InsertAtIndex
  <2> QED  BY <2>3, <2>4 DEF Heads
<1>10. /\ property'[base] = n
       /\ \A h \in Heads : property'[h] = property[h] /\ h # base /\ h \notin Run(base, n)
  <2>1. \A h \in Heads : h \in Managed
    <3>1. \A h \in Heads : h \in Run(h, property[h])
      BY HeadFacts DEF Inv, ListInv, Run
    <3> QED  BY <3>1, HeadFacts
  <2> QED  BY <2>1, <1>3, <1>5, <1>6, HeadFacts
<1>11. TypeInv'
  <2>1. flags' \in [Page -> SUBSET Flag]
    BY <1>5 DEF Inv, TypeInv, Flag
  <2>2. property' \in [Page -> 0..NPage]
    BY <1>2, <1>5, <1>6, NPageAssumption DEF Inv, TypeInv
  <2> QED  BY <1>1, <1>2, <1>5, <1>9, <2>1, <2>2 DEF Inv, TypeInv
<1>12. ASSUME NEW h \in Heads PROVE h + property[h] <= base \/ base + n <= h
  <2>1. \A p \in Run(h, property[h]) : p \notin Run(base, n)
    BY HeadFacts, <1>3
  <2>2. h \in Nat /\ property[h] \in Nat
    BY HeadFacts
  <2>3. h \in Run(h, property[h]) /\ property[h] >= 1
    BY <2>2 DEF Inv, ListInv, Run
  <2>4. CASE h < base
    <3>1. ~(base \in Run(h, property[h]))
      BY <2>1, <1>6
    <3> QED  BY <3>1, <2>4, <2>2, <1>2, PageFacts
  <2>5. CASE base <= h
    <3>1. ~(h \in Run(base, n))
      BY <2>1, <2>3
    <3> QED  BY <3>1, <2>5, <2>2, <1>2, PageFacts
  <2> QED  BY <2>2, <2>4, <2>5, <1>2
<1>13. ListInv'
  <2>1. /\ \A h \in Heads : property[h] >= 1 /\ h + property[h] <= NPage
        /\ \A g, h \in Heads : g < h => g + property[g] <= h
        /\ \A h \in Heads : h \in Nat /\ property[h] \in Nat
    BY HeadFacts DEF Inv, ListInv
  <2>2. \A h \in Heads' : property'[h] >= 1 /\ h + property'[h] <= NPage
    BY <1>2, <1>6, <1>9, <1>10, <2>1
  <2>3. ASSUME NEW g \in Heads', NEW h \in Heads', g < h
        PROVE  g + property'[g] <= h
    <3>1. CASE g = base
      BY <1>2, <1>9, <1>10, <1>12, <2>1, <2>3, <3>1
    <3>2. CASE h = base
      BY <1>2, <1>9, <1>10, <1>12, <2>1, <2>3, <3>2
    <3> QED  BY <1>9, <1>10, <2>1, <2>3, <3>1, <3>2
  <2> QED  BY <1>9, <2>2, <2>3 DEF ListInv
<1>14. CoverInv'
  <2>1. held' \subseteq Managed'
    BY <1>4, <1>5 DEF Inv, CoverInv
  <2>2. ASSUME NEW p \in Page
        PROVE  p \in Managed' \ held' <=> \E h \in Heads' : InBlock(h, p)'
    <3>1. InBlock(base, p)' <=> p \in Run(base, n)
      BY <1>2, <1>10, PageFacts DEF InBlock
    <3>2. \A h \in Heads : InBlock(h, p)' <=> InBlock(h, p)
      BY <1>10 DEF InBlock
    <3>3. held \subseteq Managed
      BY DEF Inv, CoverInv
    <3>4. p \in Managed \ held <=> \E h \in Heads : InBlock(h, p)
      BY DEF Inv, CoverInv
    <3> QED  BY <3>1, <3>2, <3>3, <3>4, <1>3, <1>4, <1>5, <1>9
  <2> QED  BY <2>1, <2>2 DEF CoverInv
<1>15. FlagInv'
  BY <1>3, <1>4, <1>5, <1>6, <1>9, <1>10 DEF Inv, FlagInv, TypeInv
<1>16. CountInv'
  <2>1. /\ IsFiniteSet(Managed \ held)
        /\ Run(base, n) \cap (Managed \ held) = {}
    BY <1>3, ManagedPages, FS_Subset DEF Inv, TypeInv
  <2>2. Cardinality((Managed \ held) \cup Run(base, n)) = Cardinality(Managed \ held) + n
    BY <2>1, <1>2, CountGive
  <2>3. Run(base, n) \cap held = {}
    BY <1>3 DEF Inv, CoverInv
  <2>4. Managed' \ held' = (Managed \ held) \cup Run(base, n)
    BY <2>3, <1>4, <1>5
  <2> QED  BY <2>2, <2>4, <1>5 DEF Inv, CountInv
<1> QED  BY <1>11, <1>13, <1>14, <1>15, <1>16 DEF Inv

-----------------------------------------------------------------------------
(* alloc_pages: what both successful cases do to pages and counters.       *)
LEMMA TakeFacts ==
  ASSUME Inv, NEW n \in Nat \ {0}, NEW i \in 1..Len(free_list), Fits(i, n),
         Take(free_list[i], n), UNCHANGED zone
  PROVE  /\ free_list[i] \in Heads
         /\ Run(free_list[i], n) \subseteq Managed \ held
         /\ Managed' = Managed
         /\ held' \subseteq Managed' /\ held' \subseteq Page
         /\ CountInv'
         /\ nr_free' \in Nat
         /\ ret' \in Result
<1>0. PICK page : page = free_list[i]
  OBVIOUS
<1>1. page \in Heads /\ page \in Nat /\ property[page] \in Nat /\ n <= property[page]
  BY <1>0, HeadFacts DEF Fits
<1>2. Run(page, n) \subseteq Managed \ held
  BY <1>1, HeadFacts, PageFacts
<1>3. Managed' = Managed
  BY DEF Managed
<1>4. IsFiniteSet(Managed) /\ Managed \subseteq Page /\ held \subseteq Managed
  BY ManagedPages DEF Inv, TypeInv, CoverInv
<1>5. held' = held \cup Run(page, n) /\ nr_free' = nr_free - n /\ ret' = [page |-> page, refused |-> 0]
  BY <1>0 DEF Take
<1>6. Cardinality((Managed \ held) \ Run(page, n)) = Cardinality(Managed \ held) - n
  <2>1. page \in Int /\ n \in Nat /\ IsFiniteSet(Managed \ held)
    BY <1>1, <1>4, FS_Subset
  <2> QED  BY <2>1, <1>2, CountTake
<1>7. CountInv'
  <2>1. Managed' \ held' = (Managed \ held) \ Run(page, n)
    BY <1>3, <1>5
  <2> QED  BY <2>1, <1>5, <1>6 DEF Inv, CountInv
<1>8. nr_free' \in Nat
  BY <1>5 DEF Inv, TypeInv, Take
<1>9. page \in Page
  BY <1>1, HeadFacts
<1>10. ret' \in Result
  BY <1>5, <1>9, NPageAssumption DEF Result
<1> QED  BY <1>0, <1>1, <1>2, <1>3, <1>4, <1>5, <1>7, <1>8, <1>10

LEMMA AllocWholeStep ==
  ASSUME Inv, NEW n \in Nat \ {0}, NEW i \in 1..Len(free_list), FirstFit(i, n),
         AllocWhole(i, n), UNCHANGED zone
  PROVE  Inv'
<1>0. PICK page : page = free_list[i]
  OBVIOUS
<1>1. /\ property[page] = n /\ Fits(i, n) /\ Take(free_list[i], n)
      /\ free_list' = RemoveAt(free_list, i)
      /\ flags' = [flags EXCEPT ![page] = @ \ {"PG_property"}]
      /\ property' = property /\ zone' = zone
      /\ held' = held \cup Run(page, n)
  BY <1>0 DEF AllocWhole, FirstFit, Take
<1>2. /\ page \in Heads /\ Managed' = Managed /\ Run(page, n) \subseteq Managed \ held
      /\ held' \subseteq Managed' /\ held' \subseteq Page
      /\ CountInv' /\ nr_free' \in Nat /\ ret' \in Result
  BY <1>0, <1>1, TakeFacts
<1>3. Heads' = Heads \ {page} /\ IsInjective(free_list') /\ free_list' \in Seq(Page)
  BY <1>0, <1>1, RemoveAtSet, RemoveAtIndex DEF Inv, ListInv, TypeInv, Heads
<1>4. TypeInv'
  BY <1>1, <1>2, <1>3 DEF Inv, TypeInv, Flag
<1>5. ListInv'
  BY <1>1, <1>3 DEF Inv, ListInv
<1>6. CoverInv'
  <2>1. ASSUME NEW p \in Page
        PROVE  p \in Managed' \ held' <=> \E h \in Heads' : InBlock(h, p)'
    <3>1. InBlock(page, p) <=> p \in Run(page, n)
      BY <1>1, <1>2, HeadFacts, PageFacts DEF InBlock
    <3>2. \A h \in Heads \ {page} : InBlock(h, p) => ~InBlock(page, p)
      BY <1>2, BlocksDisjoint
    <3>3. \A h : InBlock(h, p)' <=> InBlock(h, p)
      BY <1>1 DEF InBlock
    <3>4. p \in Managed \ held <=> \E h \in Heads : InBlock(h, p)
      BY DEF Inv, CoverInv
    <3> QED  BY <3>1, <3>2, <3>3, <3>4, <1>1, <1>2, <1>3
  <2> QED  BY <2>1, <1>2 DEF CoverInv
<1>7. FlagInv'
  BY <1>1, <1>2, <1>3, HeadFacts DEF Inv, FlagInv, TypeInv
<1> QED  BY <1>2, <1>4, <1>5, <1>6, <1>7 DEF Inv

LEMMA AllocSplitStep ==
  ASSUME Inv, NEW n \in Nat \ {0}, NEW i \in 1..Len(free_list), FirstFit(i, n),
         AllocSplit(i, n), UNCHANGED zone
  PROVE  Inv'
<1>0. PICK page, rest : page = free_list[i] /\ rest = page + n
  OBVIOUS
<1>1. /\ property[page] > n /\ Fits(i, n) /\ Take(free_list[i], n)
      /\ free_list' = ReplaceAt(free_list, i, rest)
      /\ flags' = [flags EXCEPT ![page] = @ \ {"PG_property"}, ![rest] = @ \cup {"PG_property"}]
      /\ property' = [property EXCEPT ![rest] = property[page] - n] /\ zone' = zone
      /\ held' = held \cup Run(page, n)
  BY <1>0 DEF AllocSplit, FirstFit, Take
<1>2. /\ page \in Heads /\ Managed' = Managed /\ Run(page, n) \subseteq Managed \ held
      /\ held' \subseteq Managed' /\ held' \subseteq Page
      /\ CountInv' /\ nr_free' \in Nat /\ ret' \in Result
  BY <1>0, <1>1, TakeFacts
<1>3. page \in Nat /\ property[page] \in Nat /\ page \in Page
  BY <1>2, HeadFacts, PageFacts
<1>4. rest \in Nat /\ rest \in Run(page, property[page]) /\ rest # page
  BY <1>0, <1>1, <1>3, PageFacts
<1>5. rest \in Managed \ held /\ rest \in Page
  BY <1>2, <1>4, HeadFacts, ManagedPages DEF Inv, TypeInv
<1>6. rest \notin Heads
  BY <1>0, <1>1, <1>2, <1>3, <1>4 DEF Inv, ListInv
<1>7. /\ Heads' = (Heads \ {page}) \cup {rest}
      /\ IsInjective(free_list') /\ free_list' \in Seq(Page)
  <2>1. free_list \in Seq(Page) /\ IsInjective(free_list)
    BY DEF Inv, ListInv, TypeInv
  <2>2. /\ ToSet(free_list') = (ToSet(free_list) \ {page}) \cup {rest}
        /\ IsInjective(free_list')
    BY <2>1, <1>0, <1>1, <1>5, <1>6, ReplaceAtSet DEF Heads
  <2>3. free_list' \in Seq(Page)
    BY <2>1, <1>1, <1>5, ReplaceAtIndex
  <2> QED  BY <2>2, <2>3 DEF Heads
<1>8. /\ property'[rest] = property[page] - n
      /\ \A h \in Heads : property'[h] = property[h]
  BY <1>1, <1>5, <1>6, HeadFacts DEF Inv, TypeInv
<1>9. TypeInv'
  <2>1. property[page] - n \in 0..NPage
    BY <1>1, <1>3, NPageAssumption DEF Inv, TypeInv
  <2>2. property' \in [Page -> 0..NPage]
    BY <1>1, <1>5, <2>1 DEF Inv, TypeInv
  <2>3. flags' \in [Page -> SUBSET Flag]
    BY <1>1, <1>3, <1>5 DEF Inv, TypeInv, Flag
  <2> QED  BY <1>1, <1>2, <1>7, <2>2, <2>3 DEF Inv, TypeInv
<1>10. ListInv'
  <2>1. property'[rest] >= 1 /\ rest + property'[rest] = page + property[page]
    <3>1. PICK c \in Nat : c = property[page]
      BY <1>3
    <3>2. /\ page \in Nat /\ n \in Nat /\ rest = page + n /\ c > n
      BY <3>1, <1>0, <1>1, <1>3
    <3>3. c - n >= 1 /\ rest + (c - n) = page + c
      BY ONLY <3>1, <3>2
    <3> QED  BY <3>1, <3>3, <1>8
  <2>2. page < rest
    BY <1>0, <1>3
  <2>3. \A h \in Heads' : property'[h] >= 1 /\ h + property'[h] <= NPage
    BY <1>2, <1>7, <1>8, <2>1 DEF Inv, ListInv
  <2>4. ASSUME NEW g \in Heads', NEW h \in Heads', g < h PROVE g + property'[g] <= h
    <3>1. CASE g # rest /\ h # rest
      BY <2>4, <3>1, <1>7, <1>8 DEF Inv, ListInv
    <3>2. CASE g = rest
      <4>1. h \in Heads /\ page < h
        BY <2>4, <3>2, <1>3, <1>4, <1>7, <2>2, HeadFacts
      <4> QED  BY <4>1, <3>2, <2>1, <1>2 DEF Inv, ListInv
    <3>3. CASE h = rest
      <4>1. g \in Heads /\ g # page /\ g \in Nat /\ property'[g] = property[g]
        BY <2>4, <3>3, <1>4, <1>7, <1>8, HeadFacts
      <4>2. g < page
        <5>1. ~(page < g)
          <6>1. page < g => page + property[page] <= g
            BY <4>1, <1>2 DEF Inv, ListInv
          <6> QED  BY <6>1, <4>1, <3>3, <2>4, <1>0, <1>1, <1>3
        <5> QED  BY <5>1, <4>1, <1>3
      <4>3. g + property[g] <= page
        BY <4>1, <4>2, <1>2 DEF Inv, ListInv
      <4> QED  BY <4>1, <4>3, <3>3, <2>2, <1>3, <1>4, HeadFacts
    <3> QED  BY <3>1, <3>2, <3>3
  <2> QED  BY <2>3, <2>4, <1>7 DEF ListInv
<1>11. CoverInv'
  <2>1. ASSUME NEW p \in Page
        PROVE  p \in Managed' \ held' <=> \E h \in Heads' : InBlock(h, p)'
    <3>1. InBlock(page, p) <=> p \in Run(page, n) \/ InBlock(rest, p)'
      <4>1. p \in Nat /\ (p \in Run(page, n) <=> page <= p /\ p < page + n)
        BY <1>3, PageFacts
      <4>2. InBlock(rest, p)' <=> page + n <= p /\ p < page + n + (property[page] - n)
        BY <1>0, <1>8 DEF InBlock
      <4> QED  BY <4>1, <4>2, <1>1, <1>3 DEF InBlock
    <3>2. ~(p \in Run(page, n) /\ InBlock(rest, p)')
      BY <1>0, <1>3, PageFacts DEF InBlock
    <3>3. \A h \in Heads \ {page} : InBlock(h, p) => ~InBlock(page, p)
      BY <1>2, BlocksDisjoint
    <3>4. \A h \in Heads : InBlock(h, p)' <=> InBlock(h, p)
      BY <1>8 DEF InBlock
    <3>5. p \in Managed \ held <=> \E h \in Heads : InBlock(h, p)
      BY DEF Inv, CoverInv
    <3> QED  BY <3>1, <3>2, <3>3, <3>4, <3>5, <1>1, <1>2, <1>7
  <2> QED  BY <2>1, <1>2 DEF CoverInv
<1>12. FlagInv'
  BY <1>1, <1>2, <1>3, <1>4, <1>5, <1>7 DEF Inv, FlagInv, TypeInv
<1> QED  BY <1>2, <1>9, <1>10, <1>11, <1>12 DEF Inv

-----------------------------------------------------------------------------
(* free_pages: what every case does to pages and counters.                 *)
Giving(base, n) ==
    /\ base \in Page /\ n \in Nat \ {0} /\ Run(base, n) \subseteq held
    /\ held' = held \ Run(base, n)
    /\ nr_free' = nr_free + n
    /\ UNCHANGED <<zone, ret>>

LEMMA GiveFacts ==
  ASSUME Inv, NEW base, NEW n, Giving(base, n)
  PROVE  /\ base \in Nat /\ n \in Nat /\ n >= 1 /\ base + n <= NPage
         /\ base \in Page /\ base \in Run(base, n) /\ base \notin Heads
         /\ \A h \in Heads : h + property[h] <= base \/ base + n <= h
         /\ Managed' = Managed
         /\ held' \subseteq Managed' /\ held' \subseteq Page
         /\ CountInv' /\ nr_free' \in Nat /\ ret' \in Result /\ zone' \in 0..Len(Zones)
         /\ \A p \in Page : p \in Managed' \ held' <=>
               p \in Run(base, n) \/ \E h \in Heads : InBlock(h, p)
<1>1. base \in Nat /\ n \in Nat /\ n >= 1 /\ base \in Page
  BY PageFacts DEF Giving
<1>2. base \in Run(base, n) /\ base + n <= NPage
  <2>1. base \in Run(base, n) /\ base + n - 1 \in Run(base, n)
    BY <1>1, PageFacts
  <2>2. base + n - 1 \in Page
    BY <2>1 DEF Giving, Inv, TypeInv
  <2> QED  BY <2>1, <2>2, <1>1, NPageAssumption DEF Page
<1>3. base \notin Heads
  BY <1>1, <1>2, OutsideBlocks DEF Giving
<1>4. Managed' = Managed /\ held \subseteq Managed /\ held' = held \ Run(base, n)
  BY DEF Managed, Giving, Inv, CoverInv
<1>5. ASSUME NEW h \in Heads PROVE h + property[h] <= base \/ base + n <= h
  <2>1. h \in Nat /\ property[h] \in Nat /\ property[h] >= 1 /\ h \in Page
    BY HeadFacts DEF Inv, ListInv
  <2>2. h \notin Run(base, n)
    BY <2>1, OutsideBlocks DEF Giving
  <2>3. base \notin Run(h, property[h])
    BY <1>2, HeadFacts DEF Giving
  <2> QED  BY <2>1, <2>2, <2>3, <1>1, PageFacts
<1>6. /\ Managed' \ held' = (Managed \ held) \cup Run(base, n)
      /\ Run(base, n) \cap (Managed \ held) = {}
  BY <1>4 DEF Giving
<1>7. CountInv'
  <2>1. IsFiniteSet(Managed \ held)
    BY ManagedPages, FS_Subset DEF Inv, TypeInv
  <2>2. Cardinality((Managed \ held) \cup Run(base, n)) = Cardinality(Managed \ held) + n
    BY <2>1, <1>1, <1>6, CountGive
  <2> QED  BY <2>2, <1>6 DEF Giving, Inv, CountInv
<1>8. nr_free' \in Nat /\ ret' \in Result /\ zone' \in 0..Len(Zones)
  BY DEF Giving, Inv, TypeInv
<1>9. held' \subseteq Managed' /\ held' \subseteq Page
  BY <1>4 DEF Inv, TypeInv
<1>10. \A p \in Page : p \in Managed' \ held' <=>
          p \in Run(base, n) \/ \E h \in Heads : InBlock(h, p)
  BY <1>6 DEF Inv, CoverInv
<1> QED  BY <1>1, <1>2, <1>3, <1>4, <1>5, <1>7, <1>8, <1>9, <1>10

(* The run and the blocks S next to it become the one block b .. e - 1. *)
LEMMA Absorbing ==
  ASSUME Inv, NEW base, NEW n, Giving(base, n),
         NEW b \in Page, NEW e \in Nat, b < e, e <= NPage, NEW S \in SUBSET Heads,
         Heads' = (Heads \ S) \cup {b}, IsInjective(free_list'),
         property'[b] = e - b,
         \A h \in Heads \ S : property'[h] = property[h],
         \A h \in Heads \ S : h + property[h] <= b \/ e <= h,
         \A p \in Page : b <= p /\ p < e <=>
            p \in Run(base, n) \/ \E h \in S : InBlock(h, p)
  PROVE  ListInv' /\ CoverInv'
<1>1. b \in Nat /\ b + property'[b] = e /\ property'[b] >= 1
  BY PageFacts
<1>2. \A h \in Heads \ S : /\ h \in Nat /\ property[h] \in Nat /\ property[h] >= 1
                           /\ h + property[h] <= NPage
  BY HeadFacts DEF Inv, ListInv
<1>3. ListInv'
  <2>1. \A h \in Heads' : property'[h] >= 1 /\ h + property'[h] <= NPage
    BY <1>1, <1>2
  <2>2. ASSUME NEW g \in Heads', NEW h \in Heads', g < h PROVE g + property'[g] <= h
    <3>1. CASE g \in Heads \ S /\ h \in Heads \ S
      BY <2>2, <3>1 DEF Inv, ListInv
    <3>2. CASE g = b /\ h \in Heads \ S
      BY <2>2, <3>2, <1>1, <1>2
    <3>3. CASE g \in Heads \ S /\ h = b
      BY <2>2, <3>3, <1>1, <1>2
    <3>4. CASE g = b /\ h = b
      BY <2>2, <3>4, <1>1
    <3> QED  BY <3>1, <3>2, <3>3, <3>4
  <2> QED  BY <2>1, <2>2 DEF ListInv
<1>4. CoverInv'
  <2>1. ASSUME NEW p \in Page
        PROVE  p \in Managed' \ held' <=> \E h \in Heads' : InBlock(h, p)'
    <3>1. InBlock(b, p)' <=> b <= p /\ p < e
      BY <1>1 DEF InBlock
    <3>2. \A h \in Heads \ S : InBlock(h, p)' <=> InBlock(h, p)
      BY DEF InBlock
    <3>3. p \in Managed' \ held' <=> p \in Run(base, n) \/ \E h \in Heads : InBlock(h, p)
      BY GiveFacts
    <3> QED  BY <3>1, <3>2, <3>3
  <2> QED  BY <2>1, GiveFacts DEF CoverInv
<1> QED  BY <1>3, <1>4

LEMMA MergeBothStep ==
  ASSUME Inv, NEW base, NEW n, Giving(base, n), NEW i \in 1..(Len(free_list) + 1),
         InsertionPoint(base, i), MergeBoth(base, n, i)
  PROVE  Inv'
<1>0. PICK pre, cur : pre = free_list[i - 1] /\ cur = free_list[i]
  OBVIOUS
<1>1. /\ i - 1 \in 1..Len(free_list) /\ i \in 1..Len(free_list)
      /\ pre + property[pre] = base /\ base + n = cur
      /\ flags' = [Cleared(base, n) EXCEPT ![cur] = @ \ {"PG_property"}]
      /\ property' = [property EXCEPT ![base] = n, ![pre] = @ + n + property[cur]]
      /\ free_list' = RemoveAt(free_list, i)
  BY <1>0 DEF MergeBoth, MergesPrev, MergesNext, Inv, TypeInv
<1>2. /\ base \in Nat /\ n \in Nat /\ n >= 1 /\ base \in Page /\ base \notin Heads
      /\ \A h \in Heads : h + property[h] <= base \/ base + n <= h
  BY GiveFacts
<1>3. /\ pre \in Heads /\ cur \in Heads /\ pre \in Page /\ cur \in Page
      /\ pre \in Nat /\ cur \in Nat /\ property[pre] \in Nat /\ property[cur] \in Nat
      /\ property[pre] >= 1 /\ property[cur] >= 1 /\ cur + property[cur] <= NPage
  BY <1>0, <1>1, HeadFacts DEF Inv, ListInv
<1>4. pre < base /\ base < cur
  BY <1>1, <1>2, <1>3
<1>5. Heads' = Heads \ {cur} /\ IsInjective(free_list') /\ free_list' \in Seq(Page)
  <2>1. free_list \in Seq(Page) /\ IsInjective(free_list)
    BY DEF Inv, ListInv, TypeInv
  <2>2. /\ ToSet(free_list') = ToSet(free_list) \ {cur}
        /\ IsInjective(free_list')
    BY <2>1, <1>0, <1>1, RemoveAtSet
  <2>3. free_list' \in Seq(Page)
    BY <2>1, <1>1, RemoveAtIndex
  <2> QED  BY <2>2, <2>3 DEF Heads
<1>6. /\ property'[pre] = property[pre] + n + property[cur]
      /\ \A h \in Heads \ {pre} : property'[h] = property[h]
  BY <1>1, <1>2, <1>3, <1>4, HeadFacts DEF Inv, TypeInv
<1>7. TypeInv'
  <2>1. n \in 0..NPage /\ property[pre] + n + property[cur] \in 0..NPage
    <3>1. PICK a \in Nat, c \in Nat : /\ a = property[pre] /\ c = property[cur]
                                      /\ pre + a = base /\ base + n = cur /\ cur + c <= NPage
      BY <1>1, <1>3
    <3>2. /\ base \in Nat /\ n \in Nat /\ pre \in Nat /\ cur \in Nat
          /\ pre + a = base /\ base + n = cur /\ cur + c <= NPage
      BY <3>1, <1>2, <1>3
    <3>3. n \in 0..NPage /\ a + n + c \in 0..NPage
      BY <3>2, NPageAssumption
    <3> QED  BY <3>1, <3>3
  <2>2. property' \in [Page -> 0..NPage]
    BY <1>1, <2>1 DEF Inv, TypeInv
  <2>3. flags' \in [Page -> SUBSET Flag]
    BY <1>1, <1>3 DEF Inv, TypeInv, Cleared
  <2> QED  BY <2>2, <2>3, <1>5, GiveFacts DEF TypeInv
<1>8. ListInv' /\ CoverInv'
  <2>1. PICK e, S : e = cur + property[cur] /\ S = {pre, cur}
    OBVIOUS
  <2>2. e \in Nat /\ pre < e /\ e <= NPage
    BY <2>1, <1>2, <1>3, <1>4
  <2>3. S \in SUBSET Heads /\ Heads' = (Heads \ S) \cup {pre}
    <3>1. pre # cur
      BY <1>2, <1>3, <1>4
    <3> QED  BY <3>1, <2>1, <1>3, <1>5
  <2>4. property'[pre] = e - pre
    <3>1. PICK a \in Nat, c \in Nat : /\ a = property[pre] /\ c = property[cur]
                                      /\ pre + a = base /\ base + n = cur
      BY <1>1, <1>3
    <3>2. /\ base \in Nat /\ n \in Nat /\ pre \in Nat /\ cur \in Nat
          /\ pre + a = base /\ base + n = cur
      BY <3>1, <1>2, <1>3
    <3>3. a + n + c = (cur + c) - pre
      BY <3>2
    <3> QED  BY <3>1, <3>3, <2>1, <1>6
  <2>7. \A h \in Heads \ S : property'[h] = property[h]
    BY <2>1, <1>6
  <2>5. ASSUME NEW h \in Heads \ S PROVE h + property[h] <= pre \/ e <= h
    <3>1. h \in Nat /\ property[h] \in Nat /\ property[h] >= 1 /\ h # pre /\ h # cur
      BY <2>1, HeadFacts DEF Inv, ListInv
    <3>2. (h < pre => h + property[h] <= pre) /\ (cur < h => cur + property[cur] <= h)
      BY <1>3 DEF Inv, ListInv
    <3>3. (pre < h => base <= h) /\ (h + property[h] <= base \/ cur <= h)
      BY <1>1, <1>2, <1>3 DEF Inv, ListInv
    <3> QED  BY <3>1, <3>2, <3>3, <2>1, <1>2, <1>3
  <2>6. ASSUME NEW p \in Page
        PROVE  pre <= p /\ p < e <=> p \in Run(base, n) \/ \E h \in S : InBlock(h, p)
    <3>1. p \in Nat /\ (p \in Run(base, n) <=> base <= p /\ p < base + n)
      BY <1>2, PageFacts
    <3>2. (\E h \in S : InBlock(h, p)) <=>
             (pre <= p /\ p < base) \/ (cur <= p /\ p < e)
      BY <2>1, <1>1, <1>3 DEF InBlock
    <3>3. /\ base \in Nat /\ n \in Nat /\ pre \in Nat /\ cur \in Nat /\ e \in Nat
          /\ base + n = cur /\ pre <= base /\ base < cur /\ cur <= e
      BY <2>1, <2>2, <1>1, <1>2, <1>3, <1>4
    <3> QED  BY ONLY <3>1, <3>2, <3>3
  <2> QED  BY <2>2, <2>3, <2>4, <2>5, <2>6, <2>7, <1>3, <1>5, Absorbing
<1>9. FlagInv'
  BY <1>1, <1>2, <1>3, <1>4, <1>5, GiveFacts, OutsideBlocks
     DEF Inv, FlagInv, TypeInv, Cleared, Giving, CoverInv
<1> QED  BY <1>7, <1>8, <1>9, GiveFacts DEF Inv

LEMMA MergePrevStep ==
  ASSUME Inv, NEW base, NEW n, Giving(base, n), NEW i \in 1..(Len(free_list) + 1),
         InsertionPoint(base, i), MergePrev(base, n, i)
  PROVE  Inv'
<1>0. PICK pre : pre = free_list[i - 1]
  OBVIOUS
<1>1. /\ i - 1 \in 1..Len(free_list)
      /\ pre + property[pre] = base
      /\ flags' = Cleared(base, n)
      /\ property' = [property EXCEPT ![base] = n, ![pre] = @ + n]
      /\ free_list' = free_list
  BY <1>0 DEF MergePrev, MergesPrev, Inv, TypeInv
<1>2. /\ base \in Nat /\ n \in Nat /\ n >= 1 /\ base \in Page /\ base \notin Heads
      /\ base + n <= NPage
      /\ \A h \in Heads : h + property[h] <= base \/ base + n <= h
  BY GiveFacts
<1>3. /\ pre \in Heads /\ pre \in Page /\ pre \in Nat /\ property[pre] \in Nat
      /\ property[pre] >= 1
  BY <1>0, <1>1, HeadFacts DEF Inv, ListInv
<1>4. PICK a \in Nat : property[pre] = a
  BY <1>3
<1>5. /\ pre + a = base /\ a >= 1 /\ pre < base /\ pre < base + n
      /\ a + n = (base + n) - pre /\ n \in 0..NPage /\ a + n \in 0..NPage
  <2>1. pre + a = base /\ a >= 1 /\ base + n <= NPage
    BY <1>1, <1>2, <1>3, <1>4
  <2>2. base \in Nat /\ n \in Nat /\ pre \in Nat
    BY <1>2, <1>3
  <2> QED  BY <2>1, <2>2, NPageAssumption
<1>6. Heads' = Heads /\ IsInjective(free_list') /\ free_list' \in Seq(Page)
  BY <1>1 DEF Inv, ListInv, TypeInv, Heads
<1>7. /\ property'[pre] = a + n
      /\ \A h \in Heads \ {pre} : property'[h] = property[h]
  BY <1>1, <1>2, <1>3, <1>4, HeadFacts DEF Inv, TypeInv
<1>8. TypeInv'
  <2>1. property' \in [Page -> 0..NPage]
    BY <1>1, <1>4, <1>5 DEF Inv, TypeInv
  <2>2. flags' \in [Page -> SUBSET Flag]
    BY <1>1 DEF Inv, TypeInv, Cleared
  <2> QED  BY <2>1, <2>2, <1>6, GiveFacts DEF TypeInv
<1>9. ListInv' /\ CoverInv'
  <2>1. PICK e, S : e = base + n /\ S = {pre}
    OBVIOUS
  <2>2. e \in Nat /\ pre < e /\ e <= NPage
    BY <2>1, <1>2, <1>5
  <2>3. S \in SUBSET Heads /\ Heads' = (Heads \ S) \cup {pre}
    BY <2>1, <1>3, <1>6
  <2>4. property'[pre] = e - pre
    BY <2>1, <1>5, <1>7
  <2>5. \A h \in Heads \ S : property'[h] = property[h]
    BY <2>1, <1>7
  <2>6. ASSUME NEW h \in Heads \ S PROVE h + property[h] <= pre \/ e <= h
    <3>1. h \in Nat /\ property[h] \in Nat /\ property[h] >= 1 /\ h # pre
      BY <2>1, HeadFacts DEF Inv, ListInv
    <3>2. h < pre => h + property[h] <= pre
      BY <1>3 DEF Inv, ListInv
    <3>3. (pre < h => base <= h) /\ (h + property[h] <= base \/ base + n <= h)
      BY <1>1, <1>2, <1>3 DEF Inv, ListInv
    <3> QED  BY <3>1, <3>2, <3>3, <2>1, <1>2, <1>3
  <2>7. ASSUME NEW p \in Page
        PROVE  pre <= p /\ p < e <=> p \in Run(base, n) \/ \E h \in S : InBlock(h, p)
    <3>1. p \in Nat /\ (p \in Run(base, n) <=> base <= p /\ p < base + n)
      BY <1>2, PageFacts
    <3> QED  BY <3>1, <2>1, <1>1, <1>2, <1>3 DEF InBlock
  <2> QED  BY <2>2, <2>3, <2>4, <2>5, <2>6, <2>7, <1>3, <1>6, Absorbing
<1>10. FlagInv'
  BY <1>1, <1>2, <1>6, GiveFacts, OutsideBlocks
     DEF Inv, FlagInv, TypeInv, Cleared, Giving, CoverInv
<1> QED  BY <1>8, <1>9, <1>10, GiveFacts DEF Inv

LEMMA MergeNextStep ==
  ASSUME Inv, NEW base, NEW n, Giving(base, n), NEW i \in 1..(Len(free_list) + 1),
         InsertionPoint(base, i), MergeNext(base, n, i)
  PROVE  Inv'
<1>0. PICK cur : cur = free_list[i]
  OBVIOUS
<1>1. /\ i \in 1..Len(free_list)
      /\ base + n = cur
      /\ flags' = [Cleared(base, n) EXCEPT ![base] = {"PG_property"},
                                           ![cur] = @ \ {"PG_property"}]
      /\ property' = [property EXCEPT ![base] = n + property[cur]]
      /\ free_list' = ReplaceAt(free_list, i, base)
  BY <1>0 DEF MergeNext, MergesNext, Inv, TypeInv
<1>2. /\ base \in Nat /\ n \in Nat /\ n >= 1 /\ base \in Page /\ base \notin Heads
      /\ base \in Run(base, n)
      /\ \A h \in Heads : h + property[h] <= base \/ base + n <= h
  BY GiveFacts
<1>3. /\ cur \in Heads /\ cur \in Page /\ cur \in Nat /\ property[cur] \in Nat
      /\ property[cur] >= 1 /\ cur + property[cur] <= NPage
  BY <1>0, <1>1, HeadFacts DEF Inv, ListInv
<1>4. PICK c \in Nat : property[cur] = c
  BY <1>3
<1>5. /\ base < cur /\ base < cur + c /\ cur + c <= NPage /\ cur + c \in Nat
      /\ n + c = (cur + c) - base /\ n + c \in 0..NPage
  <2>1. base + n = cur /\ c >= 1 /\ cur + c <= NPage
    BY <1>1, <1>3, <1>4
  <2>2. base \in Nat /\ n \in Nat /\ cur \in Nat /\ n >= 1
    BY <1>2, <1>3
  <2> QED  BY <2>1, <2>2, NPageAssumption
<1>6. /\ Heads' = (Heads \ {cur}) \cup {base}
      /\ IsInjective(free_list') /\ free_list' \in Seq(Page)
  <2>1. free_list \in Seq(Page) /\ IsInjective(free_list)
    BY DEF Inv, ListInv, TypeInv
  <2>2. /\ ToSet(free_list') = (ToSet(free_list) \ {cur}) \cup {base}
        /\ IsInjective(free_list')
    BY <2>1, <1>0, <1>1, <1>2, ReplaceAtSet DEF Heads
  <2>3. free_list' \in Seq(Page)
    BY <2>1, <1>1, <1>2, ReplaceAtIndex
  <2> QED  BY <2>2, <2>3 DEF Heads
<1>7. /\ property'[base] = n + c
      /\ \A h \in Heads : property'[h] = property[h]
  BY <1>1, <1>2, <1>4, HeadFacts DEF Inv, TypeInv
<1>8. TypeInv'
  <2>1. property' \in [Page -> 0..NPage]
    BY <1>1, <1>4, <1>5 DEF Inv, TypeInv
  <2>2. flags' \in [Page -> SUBSET Flag]
    BY <1>1, <1>2, <1>3 DEF Inv, TypeInv, Cleared, Flag
  <2> QED  BY <2>1, <2>2, <1>6, GiveFacts DEF TypeInv
<1>9. ListInv' /\ CoverInv'
  <2>1. PICK e, S : e = cur + c /\ S = {cur}
    OBVIOUS
  <2>2. e \in Nat /\ base < e /\ e <= NPage
    BY <2>1, <1>5
  <2>3. S \in SUBSET Heads /\ Heads' = (Heads \ S) \cup {base}
    BY <2>1, <1>3, <1>6
  <2>4. property'[base] = e - base
    BY <2>1, <1>5, <1>7
  <2>5. \A h \in Heads \ S : property'[h] = property[h]
    BY <1>7
  <2>6. ASSUME NEW h \in Heads \ S PROVE h + property[h] <= base \/ e <= h
    <3>1. h \in Nat /\ property[h] \in Nat /\ h # cur
      BY <2>1, HeadFacts
    <3>2. cur < h => cur + c <= h
      BY <1>3, <1>4 DEF Inv, ListInv
    <3>3. h + property[h] <= base \/ cur <= h
      BY <1>1, <1>2
    <3> QED  BY <3>1, <3>2, <3>3, <2>1, <1>3
  <2>7. ASSUME NEW p \in Page
        PROVE  base <= p /\ p < e <=> p \in Run(base, n) \/ \E h \in S : InBlock(h, p)
    <3>1. p \in Nat /\ (p \in Run(base, n) <=> base <= p /\ p < base + n)
      BY <1>2, PageFacts
    <3>2. InBlock(cur, p) <=> cur <= p /\ p < cur + c
      BY <1>4 DEF InBlock
    <3> QED  BY <3>1, <3>2, <2>1, <1>1, <1>2, <1>3
  <2> QED  BY <2>2, <2>3, <2>4, <2>5, <2>6, <2>7, <1>2, <1>6, Absorbing
<1>10. FlagInv'
  BY <1>1, <1>2, <1>3, <1>5, <1>6, GiveFacts, OutsideBlocks
     DEF Inv, FlagInv, TypeInv, Cleared, Giving, CoverInv
<1> QED  BY <1>8, <1>9, <1>10, GiveFacts DEF Inv

LEMMA InsertAloneStep ==
  ASSUME Inv, NEW base, NEW n, Giving(base, n), NEW i \in 1..(Len(free_list) + 1),
         InsertionPoint(base, i), InsertAlone(base, n, i)
  PROVE  Inv'
<1>1. /\ flags' = [Cleared(base, n) EXCEPT ![base] = {"PG_property"}]
      /\ property' = [property EXCEPT ![base] = n]
      /\ free_list' = InsertAt(free_list, i, base)
  BY DEF InsertAlone
<1>2. /\ base \in Nat /\ n \in Nat /\ n >= 1 /\ base \in Page /\ base \notin Heads
      /\ base \in Run(base, n) /\ base + n <= NPage
      /\ \A h \in Heads : h + property[h] <= base \/ base + n <= h
  BY GiveFacts
<1>3. base + n \in Nat /\ base < base + n /\ n = (base + n) - base /\ n \in 0..NPage
  <2>1. base \in Nat /\ n \in Nat /\ n >= 1 /\ base + n <= NPage
    BY <1>2
  <2> QED  BY <2>1, NPageAssumption
<1>4. /\ Heads' = Heads \cup {base}
      /\ IsInjective(free_list') /\ free_list' \in Seq(Page)
  <2>1. free_list \in Seq(Page) /\ IsInjective(free_list)
    BY DEF Inv, ListInv, TypeInv
  <2>2. /\ ToSet(free_list') = ToSet(free_list) \cup {base}
        /\ IsInjective(free_list')
    BY <2>1, <1>1, <1>2, InsertAtSet DEF Heads
  <2>3. free_list' \in Seq(Page)
    BY <2>1, <1>1, <1>2, InsertAtIndex
  <2> QED  BY <2>2, <2>3 DEF Heads
<1>5. /\ property'[base] = n
      /\ \A h \in Heads : property'[h] = property[h]
  BY <1>1, <1>2, HeadFacts DEF Inv, TypeInv
<1>6. TypeInv'
  <2>1. property' \in [Page -> 0..NPage]
    BY <1>1, <1>3 DEF Inv, TypeInv
  <2>2. flags' \in [Page -> SUBSET Flag]
    BY <1>1, <1>2 DEF Inv, TypeInv, Cleared, Flag
  <2> QED  BY <2>1, <2>2, <1>4, GiveFacts DEF TypeInv
<1>7. ListInv' /\ CoverInv'
  <2>1. PICK e, S : e = base + n /\ S = {}
    OBVIOUS
  <2>2. e \in Nat /\ base < e /\ e <= NPage /\ property'[base] = e - base
    BY <2>1, <1>2, <1>3, <1>5
  <2>3. S \in SUBSET Heads /\ Heads' = (Heads \ S) \cup {base}
    BY <2>1, <1>4
  <2>4. \A h \in Heads \ S : property'[h] = property[h]
    BY <1>5
  <2>5. \A h \in Heads \ S : h + property[h] <= base \/ e <= h
    BY <2>1, <1>2
  <2>6. ASSUME NEW p \in Page
        PROVE  base <= p /\ p < e <=> p \in Run(base, n) \/ \E h \in S : InBlock(h, p)
    BY <2>1, <1>2, PageFacts
  <2> QED  BY <2>2, <2>3, <2>4, <2>5, <2>6, <1>2, <1>4, Absorbing
<1>8. FlagInv'
  BY <1>1, <1>2, <1>4, GiveFacts, OutsideBlocks
     DEF Inv, FlagInv, TypeInv, Cleared, Giving, CoverInv
<1> QED  BY <1>6, <1>7, <1>8, GiveFacts DEF Inv

LEMMA FreeStep ==
  ASSUME Inv, NEW base \in Page, NEW n \in 1..NPage, Free(base, n), UNCHANGED zone
  PROVE  Inv'
<1>1. PICK i \in 1..(Len(free_list) + 1) :
         /\ InsertionPoint(base, i)
         /\ \/ MergeBoth(base, n, i) \/ MergePrev(base, n, i)
            \/ MergeNext(base, n, i) \/ InsertAlone(base, n, i)
  BY DEF Free
<1>2. nr_free' = nr_free + n
  BY <1>1 DEF MergeBoth, MergePrev, MergeNext, InsertAlone
<1>3. Giving(base, n)
  BY <1>2 DEF Free, Giving
<1> QED  BY <1>1, <1>3, MergeBothStep, MergePrevStep, MergeNextStep, InsertAloneStep

LEMMA NextInv == Inv /\ [Next]_vars => Inv'
<1> SUFFICES ASSUME Inv, [Next]_vars PROVE Inv'
  OBVIOUS
<1>1. CASE NextZone
  BY <1>1, NextZoneStep
<1>2. ASSUME NEW n \in 1..(NPage + 1), AllocFail(n), UNCHANGED zone PROVE Inv'
  <2>1. ret' \in Result
    BY <1>2 DEF AllocFail, Result
  <2> QED  BY <1>2, <2>1 DEF AllocFail, Inv, TypeInv, ListInv, CoverInv, FlagInv, CountInv,
                             Heads, Managed, InBlock
<1>3. ASSUME NEW n \in 1..(NPage + 1), Alloc(n), ~AllocFail(n), UNCHANGED zone PROVE Inv'
  <2>1. PICK i \in 1..Len(free_list) :
           FirstFit(i, n) /\ (AllocWhole(i, n) \/ AllocSplit(i, n))
    BY <1>3 DEF Alloc
  <2>2. n \in Nat \ {0}
    BY NPageAssumption
  <2> QED  BY <2>1, <2>2, <1>3, AllocWholeStep, AllocSplitStep
<1>4. ASSUME NEW base \in Page, NEW n \in 1..NPage, Free(base, n), UNCHANGED zone PROVE Inv'
  BY <1>4, FreeStep
<1>5. CASE UNCHANGED vars
  BY <1>5 DEF vars, Inv, TypeInv, ListInv, CoverInv, FlagInv, CountInv,
              Heads, Managed, InBlock
<1> QED  BY <1>1, <1>2, <1>3, <1>4, <1>5 DEF Next

(* The invariant holds in every reachable state, for every memory map. *)
THEOREM Invariance == Spec => []Inv
  BY InitInv, NextInv, PTL DEF Spec

-----------------------------------------------------------------------------
(* Consequences of the invariant, for every order of the regions.          *)

LEMMA FreePagesAre == Inv => FreePages = Managed \ held
<1> SUFFICES ASSUME Inv PROVE FreePages = Managed \ held
  OBVIOUS
<1>1. ASSUME NEW p \in FreePages PROVE p \in Managed \ held
  <2>1. PICK i \in 1..Len(free_list) : p \in Run(free_list[i], property[free_list[i]])
    BY DEF FreePages, Block
  <2> QED  BY <2>1, HeadFacts
<1>2. ASSUME NEW p \in Managed \ held PROVE p \in FreePages
  <2>1. p \in Page
    BY ManagedPages DEF Inv, TypeInv
  <2>2. PICK h \in Heads : InBlock(h, p)
    BY <2>1 DEF Inv, CoverInv
  <2>3. PICK i \in 1..Len(free_list) : free_list[i] = h
    BY HeadFacts
  <2>4. p \in Run(h, property[h])
    BY <2>1, <2>2, HeadFacts, PageFacts DEF InBlock
  <2> QED  BY <2>3, <2>4 DEF FreePages, Block
<1> QED  BY <1>1, <1>2

(* The variables keep their types; in particular nr_free never exceeds the *)
(* number of pages.                                                        *)
THEOREM TypeCorrect == Spec => []TypeOK
<1>1. Inv => TypeOK
  <2> SUFFICES ASSUME Inv PROVE TypeOK
    OBVIOUS
  <2>1. Managed \ held \subseteq Page /\ nr_free = Cardinality(Managed \ held)
    BY ManagedPages DEF Inv, TypeInv, CountInv
  <2>2. nr_free <= NPage
    BY <2>1, PageFacts, FS_Subset
  <2> QED  BY <2>2, NPageAssumption DEF Inv, TypeInv, TypeOK
<1> QED  BY <1>1, Invariance, PTL

LEMMA Conserved == Inv => Conservation
<1> SUFFICES ASSUME Inv PROVE Conservation
  OBVIOUS
<1>1. ASSUME NEW i \in 1..Len(free_list), NEW j \in 1..Len(free_list), i # j
      PROVE  Block(i) \cap Block(j) = {}
  <2>1. free_list[i] \in Heads /\ free_list[j] \in Heads /\ free_list[i] # free_list[j]
    <3>1. free_list \in Seq(Page) /\ IsInjective(free_list)
      BY DEF Inv, TypeInv, ListInv
    <3>2. DOMAIN free_list = 1..Len(free_list)
      BY <3>1
    <3>3. free_list[i] # free_list[j]
      BY <1>1, <3>1, <3>2 DEF IsInjective
    <3> QED  BY <3>3, HeadFacts
  <2>2. ASSUME NEW p \in Block(i), p \in Block(j) PROVE FALSE
    <3>1. p \in Page
      BY <2>1, HeadFacts, ManagedPages DEF Block, Inv, TypeInv
    <3>2. InBlock(free_list[i], p) /\ InBlock(free_list[j], p)
      BY <2>1, <2>2, HeadFacts, PageFacts DEF Block, InBlock
    <3> QED  BY <2>1, <3>1, <3>2, BlocksDisjoint
  <2> QED  BY <2>2
<1> QED  BY <1>1, FreePagesAre DEF Conservation, Inv, CoverInv, CountInv

(* No page is ever lost, handed out twice, or counted wrongly, whatever    *)
(* the sizes of the requests and the parts in which memory comes back.     *)
THEOREM PagesConserved == Spec => []Conservation
  BY Conserved, Invariance, PTL

(* PG_property marks the heads of the blocks on the list and nothing else. *)
THEOREM HeadsMarked == Spec => []HeadFlags
<1>1. Inv => HeadFlags
  BY DEF Inv, FlagInv, HeadFlags, Heads
<1> QED  BY <1>1, Invariance, PTL

(* No assertion of init_memmap or free_pages can fail for a caller that    *)
(* returns pages it holds.                                                 *)
THEOREM NoAssertionFails == Spec => []AssertionsHold
<1>1. Inv => AssertionsHold
  <2> SUFFICES ASSUME Inv PROVE AssertionsHold
    OBVIOUS
  <2>1. ASSUME NEW p \in held PROVE flags[p] = {}
    <3>1. p \in Page /\ p \in Managed /\ p \notin Heads
      BY OutsideBlocks DEF Inv, TypeInv, CoverInv
    <3> QED  BY <3>1 DEF Inv, TypeInv, FlagInv, Flag
  <2>2. ASSUME NEW k \in (zone + 1)..Len(Zones), NEW p \in Run(Zones[k].base, Zones[k].n)
        PROVE  flags[p] = {"PG_reserved"}
    <3>1. k \in 1..Len(Zones) /\ \A j \in 1..zone : j \in 1..Len(Zones) /\ j # k
      BY DEF Inv, TypeInv
    <3>2. p \in Page /\ p \notin Managed
      BY <3>1, ZonesAssumption DEF Managed
    <3>3. p \notin Heads
      BY <3>2, OutsideBlocks
    <3> QED  BY <3>2, <3>3 DEF Inv, TypeInv, FlagInv, Flag
  <2> QED  BY <2>1, <2>2 DEF AssertionsHold
<1> QED  BY <1>1, Invariance, PTL

LEMMA ScanEnds == Inv => FreeScanEnds
<1> SUFFICES ASSUME Inv, NEW base \in held
             PROVE  \E i \in 1..(Len(free_list) + 1) : InsertionPoint(base, i)
  BY DEF FreeScanEnds
<1> DEFINE above == {i \in 1..Len(free_list) : base < free_list[i]}
<1>1. /\ Len(free_list) \in Nat /\ base \in Nat
      /\ \A i \in 1..Len(free_list) : free_list[i] \in Nat /\ free_list[i] # base
  <2>1. base \in Page /\ base \notin Heads
    BY OutsideBlocks DEF Inv, TypeInv
  <2> QED  BY <2>1, HeadFacts, PageFacts DEF Inv, TypeInv
<1>3. CASE above = {}
  <2>1. \A i \in 1..Len(free_list) : free_list[i] < base
    BY <1>1, <1>3
  <2>2. PICK e \in Nat : e = Len(free_list) + 1
    BY <1>1
  <2>3. Accepts(base, e) /\ \A j \in 1..(e - 1) : j < e => (Accepts(base, j) => FALSE)
    BY <2>1, <2>2, <1>1 DEF Accepts
  <2> QED  BY <2>2, <2>3, <1>1 DEF InsertionPoint
<1>4. CASE above # {}
  <2>0. above \in SUBSET Nat
    OBVIOUS
  <2> HIDE DEF above
  <2>1. PICK m \in above : \A k \in above : m <= k
    BY <1>4, <2>0, LeastNatural
  <2> USE DEF above
  <2>2. m \in 1..Len(free_list) /\ base < free_list[m]
    OBVIOUS
  <2>3. \A i \in 1..(m - 1) : free_list[i] < base
    BY <2>1, <2>2, <1>1
  <2> QED  BY <2>2, <2>3, <1>1 DEF InsertionPoint, Accepts
<1> QED  BY <1>3, <1>4

(* The while (1) of free_pages ends, even when the list is not sorted: the *)
(* first position whose block lies above base accepts it, and the end of   *)
(* the list does if there is none.                                         *)
THEOREM ScanTerminates == Spec => []FreeScanEnds
  BY ScanEnds, Invariance, PTL

-----------------------------------------------------------------------------
(***************************************************************************)
(* Regions from the top down: what the first-fit manager guarantees when   *)
(* its regions arrive in descending order of address, with a hole below    *)
(* each (in particular when there is a single region, which is what the    *)
(* emulator reports).  The list stays sorted and merged, allocation is     *)
(* first fit in address order, and the manager keeps the promise of        *)
(* PageAllocator.  With regions in ascending order the first of these      *)
(* already fails.                                                          *)
(***************************************************************************)

ZonesDescending ==
    \A j, k \in 1..Len(Zones) : j < k => Zones[k].base + Zones[k].n < Zones[j].base

-----------------------------------------------------------------------------
LEMMA Positions ==
  ASSUME Inv
  PROVE  /\ Len(free_list) \in Nat /\ free_list \in Seq(Page)
         /\ \A j \in 1..Len(free_list) :
               /\ free_list[j] \in Heads /\ free_list[j] \in Page /\ free_list[j] \in Nat
               /\ property[free_list[j]] \in Nat /\ property[free_list[j]] >= 1
         /\ \A j, k \in 1..Len(free_list) : j # k => free_list[j] # free_list[k]
<1>1. Len(free_list) \in Nat /\ free_list \in Seq(Page) /\ DOMAIN free_list = 1..Len(free_list)
  BY DEF Inv, TypeInv
<1>2. \A j, k \in 1..Len(free_list) : j # k => free_list[j] # free_list[k]
  BY <1>1 DEF Inv, ListInv, IsInjective
<1> QED  BY <1>1, <1>2, HeadFacts DEF Inv, ListInv

LEMMA NextZoneSorted ==
  ASSUME Inv, Inv', SortedAndMerged, ZonesDescending, NextZone
  PROVE  SortedAndMerged'
<1>0. PICK base, n : base = Zones[zone + 1].base /\ n = Zones[zone + 1].n
  OBVIOUS
<1>1. zone + 1 \in 1..Len(Zones) /\ zone \in Nat
  BY DEF NextZone, Inv, TypeInv
<1>2. base \in Nat /\ n \in Nat
  <2>1. Zones[zone + 1] \in [base : Nat, n : Nat \ {0}]
    BY <1>1, ZonesAssumption, ElementOfSeq
  <2> QED  BY <2>1, <1>0
<1>3. ASSUME NEW p \in Managed PROVE base + n < p /\ p \notin Run(base, n)
  <2>1. PICK k \in 1..zone : p \in Run(Zones[k].base, Zones[k].n)
    BY DEF Managed
  <2>2. k \in 1..Len(Zones) /\ k < zone + 1
    BY <1>1
  <2>3. Zones[k] \in [base : Nat, n : Nat \ {0}]
    BY ONLY <2>2, ZonesAssumption, ElementOfSeq
  <2>4. base + n < Zones[k].base
    BY <2>2, <1>0, <1>1 DEF ZonesDescending
  <2>5. p \in Int /\ Zones[k].base <= p
    BY <2>1, <2>3, PageFacts
  <2> QED  BY <2>3, <2>4, <2>5, <1>2, PageFacts
<1>4. /\ free_list' = <<base>> \o free_list
      /\ property' = [p \in Page |-> IF p = base THEN n
                                     ELSE IF p \in Run(base, n) THEN 0 ELSE property[p]]
  BY <1>0 DEF NextZone, InitMemmap
<1>5. ASSUME NEW j \in 1..Len(free_list)
      PROVE  free_list[j] \in Page /\ base + n < free_list[j]
             /\ free_list[j] # base /\ property'[free_list[j]] = property[free_list[j]]
  <2>1. free_list[j] \in Heads /\ free_list[j] \in Page
    BY Positions
  <2>2. free_list[j] \in Managed
    BY <2>1, OutsideBlocks
  <2>3. base + n < free_list[j] /\ free_list[j] \notin Run(base, n) /\ free_list[j] \in Nat
    BY <2>2, <1>3, Positions
  <2> QED  BY <2>1, <2>3, <1>2, <1>4
<1>6. base \in Page
  <2>1. n \in Nat \ {0} /\ Run(base, n) \subseteq Page
    <3>1. Zones[zone + 1] \in [base : Nat, n : Nat \ {0}]
      BY <1>1, ZonesAssumption, ElementOfSeq
    <3> QED  BY <3>1, <1>0, <1>1, ZonesAssumption
  <2> QED  BY <2>1, <1>2, PageFacts
<1>7. /\ Len(free_list') = Len(free_list) + 1
      /\ free_list'[1] = base
      /\ \A j \in 2..Len(free_list') : j - 1 \in 1..Len(free_list) /\ free_list'[j] = free_list[j - 1]
  BY <1>4, <1>6, Positions
<1>8. property'[base] = n
  BY <1>4, <1>6
<1>9. ASSUME NEW j \in 1..Len(free_list'), NEW k \in 1..Len(free_list'), j < k
      PROVE  free_list'[j] + property'[free_list'[j]] < free_list'[k]
  <2>1. CASE j = 1
    BY <2>1, <1>5, <1>7, <1>8, <1>9, Positions
  <2>2. CASE j > 1
    <3>1. /\ j - 1 \in 1..Len(free_list) /\ k - 1 \in 1..Len(free_list) /\ j - 1 < k - 1
          /\ free_list'[j] = free_list[j - 1] /\ free_list'[k] = free_list[k - 1]
      BY <2>2, <1>7, <1>9, Positions
    <3>2. free_list[j - 1] + property[free_list[j - 1]] < free_list[k - 1]
      BY <3>1 DEF SortedAndMerged
    <3> QED  BY <3>1, <3>2, <1>5
  <2> QED  BY <2>1, <2>2, <1>7, Positions
<1> QED  BY <1>9 DEF SortedAndMerged

(* Elements of the list keep their order when one is removed. *)
LEMMA OrderAfterRemoval ==
  ASSUME Inv, NEW i \in 1..Len(free_list)
  PROVE  \A j, k \in 1..Len(RemoveAt(free_list, i)) : j < k =>
            \E l, m \in 1..Len(free_list) :
               /\ l < m /\ l # i /\ m # i
               /\ RemoveAt(free_list, i)[j] = free_list[l]
               /\ RemoveAt(free_list, i)[k] = free_list[m]
<1>1. free_list \in Seq(Page)
  BY Positions
<1> QED  BY ONLY <1>1, i \in 1..Len(free_list), RemoveAtOrder

LEMMA AllocWholeSorted ==
  ASSUME Inv, SortedAndMerged, NEW n, NEW i \in 1..Len(free_list), AllocWhole(i, n)
  PROVE  SortedAndMerged'
<1>1. free_list' = RemoveAt(free_list, i) /\ property' = property
  BY DEF AllocWhole
<1>3. ASSUME NEW j \in 1..Len(free_list'), NEW k \in 1..Len(free_list'), j < k
      PROVE  free_list'[j] + property'[free_list'[j]] < free_list'[k]
  <2>1. PICK l \in 1..Len(free_list), m \in 1..Len(free_list) :
           l < m /\ free_list'[j] = free_list[l] /\ free_list'[k] = free_list[m]
    BY <1>1, <1>3, OrderAfterRemoval
  <2> QED  BY <2>1, <1>1 DEF SortedAndMerged
<1> QED  BY <1>3 DEF SortedAndMerged

LEMMA AllocSplitSorted ==
  ASSUME Inv, SortedAndMerged, NEW n \in Nat \ {0}, NEW i \in 1..Len(free_list),
         FirstFit(i, n), AllocSplit(i, n)
  PROVE  SortedAndMerged'
<1>0. PICK page, rest : page = free_list[i] /\ rest = page + n
  OBVIOUS
<1>1. /\ property[page] > n
      /\ free_list' = ReplaceAt(free_list, i, rest)
      /\ property' = [property EXCEPT ![rest] = property[page] - n]
  BY <1>0 DEF AllocSplit
<1>2. page \in Heads /\ page \in Nat /\ property[page] \in Nat
  BY <1>0, Positions
<1>3. rest \in Run(page, property[page]) /\ rest \in Nat
  BY <1>0, <1>1, <1>2, PageFacts
<1>4. rest \in Page
  BY <1>2, <1>3, HeadFacts, ManagedPages DEF Inv, TypeInv
<1>5. ASSUME NEW j \in 1..Len(free_list) PROVE free_list[j] # rest
  <2>1. CASE j = i
    BY <2>1, <1>0, <1>2
  <2>2. CASE j # i
    <3>1. free_list[j] \in Heads /\ free_list[j] # page /\ free_list[j] \in Nat
      BY <2>2, <1>0, Positions
    <3>2. page < free_list[j] => page + property[page] <= free_list[j]
      BY <3>1, <1>2 DEF Inv, ListInv
    <3>3. page < rest /\ rest < page + property[page]
      BY <1>0, <1>2, <1>3, PageFacts
    <3> QED  BY <3>1, <3>2, <3>3, <1>2, <1>3
  <2> QED  BY <2>1, <2>2
<1>6. /\ Len(free_list') = Len(free_list)
      /\ \A j \in 1..Len(free_list) :
            free_list'[j] = IF j = i THEN rest ELSE free_list[j]
  <2>1. free_list \in Seq(Page)
    BY Positions
  <2>2. /\ Len(ReplaceAt(free_list, i, rest)) = Len(free_list)
        /\ \A j \in 1..Len(free_list) :
              ReplaceAt(free_list, i, rest)[j] = IF j = i THEN rest ELSE free_list[j]
    BY ONLY <2>1, <1>4, i \in 1..Len(free_list), ReplaceAtIndex
  <2> QED  BY <2>2, <1>1
<1>7. /\ property'[rest] = property[page] - n
      /\ \A j \in 1..Len(free_list) : property'[free_list[j]] = property[free_list[j]]
  BY <1>1, <1>4, <1>5, Positions DEF Inv, TypeInv
<1>8. rest + property'[rest] = page + property[page] /\ page < rest
  <2>1. PICK a \in Nat : property[page] = a
    BY <1>2
  <2>2. rest + (a - n) = page + a /\ page < rest
    BY <1>0, <1>2
  <2> QED  BY <2>1, <2>2, <1>7
<1>9. ASSUME NEW j \in 1..Len(free_list'), NEW k \in 1..Len(free_list'), j < k
      PROVE  free_list'[j] + property'[free_list'[j]] < free_list'[k]
  <2>0. /\ j \in 1..Len(free_list) /\ k \in 1..Len(free_list)
        /\ free_list[j] + property[free_list[j]] < free_list[k]
        /\ free_list[j] \in Nat /\ property[free_list[j]] \in Nat /\ free_list[k] \in Nat
    BY <1>6, <1>9, Positions DEF SortedAndMerged
  <2>1. CASE j = i
    BY <2>0, <2>1, <1>0, <1>6, <1>8, <1>9
  <2>2. CASE k = i
    <3>1. /\ free_list'[k] = rest /\ free_list'[j] = free_list[j] /\ free_list[k] = page
          /\ property'[free_list'[j]] = property[free_list[j]]
      BY <2>0, <2>2, <1>0, <1>6, <1>7, <1>9
    <3> QED  BY <3>1, <2>0, <1>2, <1>3, <1>8
  <2>3. CASE j # i /\ k # i
    BY <2>0, <2>3, <1>6, <1>7
  <2> QED  BY <2>1, <2>2, <2>3
<1> QED  BY <1>9 DEF SortedAndMerged

-----------------------------------------------------------------------------
(* In a sorted list the scan stops between the blocks below the run and    *)
(* those above it.                                                         *)
LEMMA Neighbours ==
  ASSUME Inv, SortedAndMerged, NEW base, NEW n, Giving(base, n),
         NEW i \in 1..(Len(free_list) + 1), InsertionPoint(base, i)
  PROVE  /\ \A j \in 1..Len(free_list) : j < i =>
               /\ free_list[j] + property[free_list[j]] <= base
               /\ ~MergesPrev(base, n, i) => free_list[j] + property[free_list[j]] < base
         /\ \A j \in 1..Len(free_list) : i <= j =>
               /\ base + n <= free_list[j]
               /\ ~MergesNext(base, n, i) => base + n < free_list[j]
<1>1. base \in Nat /\ n \in Nat /\ n >= 1
  BY GiveFacts
<1>2. \A j \in 1..Len(free_list) :
         /\ free_list[j] \in Nat /\ property[free_list[j]] \in Nat
         /\ free_list[j] + property[free_list[j]] <= base \/ base + n <= free_list[j]
  BY Positions, GiveFacts
<1>3. ASSUME NEW j \in 1..Len(free_list), j < i
      PROVE  /\ free_list[j] + property[free_list[j]] <= base
             /\ ~MergesPrev(base, n, i) => free_list[j] + property[free_list[j]] < base
  <2>1. i - 1 \in 1..Len(free_list) /\ i > 1 /\ free_list[i - 1] < base
    BY <1>3, Positions DEF InsertionPoint, Accepts
  <2>2. CASE j = i - 1
    <3>0. PICK h, s : h = free_list[j] /\ s = property[free_list[j]]
      OBVIOUS
    <3>1. h \in Nat /\ s \in Nat /\ h < base /\ (h + s <= base \/ base + n <= h)
      BY <3>0, <2>1, <2>2, <1>1, <1>2
    <3>2. ~MergesPrev(base, n, i) => h + s # base
      BY <3>0, <2>1, <2>2 DEF MergesPrev
    <3>3. h + s <= base /\ (~MergesPrev(base, n, i) => h + s < base)
      BY ONLY <3>1, <3>2, <1>1
    <3> QED  BY <3>0, <3>3
  <2>3. CASE j < i - 1
    <3>1. free_list[j] + property[free_list[j]] < free_list[i - 1]
      BY <2>1, <2>3 DEF SortedAndMerged
    <3> QED  BY <3>1, <2>1, <1>1, <1>2
  <2> QED  BY <2>2, <2>3, <1>3
<1>4. ASSUME NEW j \in 1..Len(free_list), i <= j
      PROVE  /\ base + n <= free_list[j]
             /\ ~MergesNext(base, n, i) => base + n < free_list[j]
  <2>1. i \in 1..Len(free_list) /\ base < free_list[i]
    BY <1>4, Positions DEF InsertionPoint, Accepts
  <2>2. base + n <= free_list[i]
    BY <2>1, <1>1, <1>2
  <2>3. CASE j = i
    BY <2>1, <2>2, <2>3, <1>1, <1>2 DEF MergesNext
  <2>4. CASE i < j
    <3>1. free_list[i] + property[free_list[i]] < free_list[j]
      BY <2>1, <2>4 DEF SortedAndMerged
    <3> QED  BY <3>1, <2>1, <2>2, <1>1, <1>2
  <2> QED  BY <2>3, <2>4, <1>4
<1> QED  BY <1>3, <1>4

LEMMA MergeBothSorted ==
  ASSUME Inv, SortedAndMerged, NEW base, NEW n, Giving(base, n),
         NEW i \in 1..(Len(free_list) + 1), InsertionPoint(base, i), MergeBoth(base, n, i)
  PROVE  SortedAndMerged'
<1>0. PICK pre, cur : pre = free_list[i - 1] /\ cur = free_list[i]
  OBVIOUS
<1>1. /\ i - 1 \in 1..Len(free_list) /\ i \in 1..Len(free_list)
      /\ pre + property[pre] = base /\ base + n = cur
      /\ property' = [property EXCEPT ![base] = n, ![pre] = @ + n + property[cur]]
      /\ free_list' = RemoveAt(free_list, i)
  BY <1>0, Positions DEF MergeBoth, MergesPrev, MergesNext
<1>2. base \in Nat /\ n \in Nat /\ base \in Page /\ base \notin Heads
  BY GiveFacts
<1>3. /\ pre \in Nat /\ pre \in Page /\ cur \in Nat /\ pre \in Heads
      /\ property[pre] \in Nat /\ property[cur] \in Nat
  BY <1>0, <1>1, Positions
<1>4. property'[pre] = property[pre] + n + property[cur]
  BY <1>1, <1>2, <1>3 DEF Inv, TypeInv
<1>5. pre + property'[pre] = cur + property[cur]
  <2>1. PICK a \in Nat, c \in Nat : property[pre] = a /\ property[cur] = c
    BY <1>3
  <2>2. pre + a = base /\ base + n = cur /\ pre \in Nat /\ base \in Nat /\ n \in Nat /\ cur \in Nat
    BY <2>1, <1>1, <1>2, <1>3
  <2>3. pre + (a + n + c) = cur + c
    BY <2>2
  <2> QED  BY <2>1, <2>3, <1>4
<1>6. \A l \in 1..Len(free_list) : l # i - 1 =>
         property'[free_list[l]] = property[free_list[l]]
  <2>1. ASSUME NEW l \in 1..Len(free_list), l # i - 1
        PROVE  free_list[l] # base /\ free_list[l] # pre /\ free_list[l] \in Page
    BY <2>1, <1>0, <1>1, <1>2, Positions
  <2> QED  BY <2>1, <1>1 DEF Inv, TypeInv
<1>7. ASSUME NEW j \in 1..Len(free_list'), NEW k \in 1..Len(free_list'), j < k
      PROVE  free_list'[j] + property'[free_list'[j]] < free_list'[k]
  <2>1. PICK l \in 1..Len(free_list), m \in 1..Len(free_list) :
           l < m /\ l # i /\ m # i /\ free_list'[j] = free_list[l] /\ free_list'[k] = free_list[m]
    <3>1. \A p, q \in 1..Len(RemoveAt(free_list, i)) : p < q =>
             \E l, m \in 1..Len(free_list) :
                /\ l < m /\ l # i /\ m # i
                /\ RemoveAt(free_list, i)[p] = free_list[l]
                /\ RemoveAt(free_list, i)[q] = free_list[m]
      BY <1>1, OrderAfterRemoval
    <3> QED  BY ONLY <3>1, <1>1, <1>7
  <2>2. CASE l = i - 1
    <3>1. i < m /\ free_list[i] + property[free_list[i]] < free_list[m]
      BY <2>1, <2>2, <1>1 DEF SortedAndMerged
    <3>2. free_list[l] = pre
      BY <2>2, <1>0
    <3> QED  BY <3>1, <3>2, <2>1, <1>0, <1>5
  <2>3. CASE l # i - 1
    BY <2>1, <2>3, <1>6 DEF SortedAndMerged
  <2> QED  BY <2>2, <2>3
<1> QED  BY <1>7 DEF SortedAndMerged

LEMMA MergePrevSorted ==
  ASSUME Inv, SortedAndMerged, NEW base, NEW n, Giving(base, n),
         NEW i \in 1..(Len(free_list) + 1), InsertionPoint(base, i), MergePrev(base, n, i)
  PROVE  SortedAndMerged'
<1>0. PICK pre : pre = free_list[i - 1]
  OBVIOUS
<1>1. /\ i - 1 \in 1..Len(free_list) /\ ~MergesNext(base, n, i)
      /\ pre + property[pre] = base
      /\ property' = [property EXCEPT ![base] = n, ![pre] = @ + n]
      /\ free_list' = free_list
  BY <1>0, Positions DEF MergePrev, MergesPrev
<1>2. base \in Nat /\ n \in Nat /\ base \in Page /\ base \notin Heads
  BY GiveFacts
<1>3. pre \in Nat /\ pre \in Page /\ pre \in Heads /\ property[pre] \in Nat
  BY <1>0, <1>1, Positions
<1>4. property'[pre] = property[pre] + n
  BY <1>1, <1>2, <1>3 DEF Inv, TypeInv
<1>5. pre + property'[pre] = base + n
  <2>1. PICK a \in Nat : property[pre] = a
    BY <1>3
  <2>2. pre + a = base /\ pre \in Nat /\ base \in Nat /\ n \in Nat
    BY <2>1, <1>1, <1>2, <1>3
  <2>3. pre + (a + n) = base + n
    BY <2>2
  <2> QED  BY <2>1, <2>3, <1>4
<1>6. \A l \in 1..Len(free_list) : l # i - 1 =>
         property'[free_list[l]] = property[free_list[l]]
  <2>1. ASSUME NEW l \in 1..Len(free_list), l # i - 1
        PROVE  free_list[l] # base /\ free_list[l] # pre /\ free_list[l] \in Page
    BY <2>1, <1>0, <1>1, <1>2, Positions
  <2> QED  BY <2>1, <1>1 DEF Inv, TypeInv
<1>7. ASSUME NEW j \in 1..Len(free_list), NEW k \in 1..Len(free_list), j < k
      PROVE  free_list[j] + property'[free_list[j]] < free_list[k]
  <2>1. CASE j = i - 1
    <3>1. base + n < free_list[k]
      BY <2>1, <1>1, <1>7, Neighbours
    <3> QED  BY <3>1, <2>1, <1>0, <1>5
  <2>2. CASE j # i - 1
    BY <2>2, <1>6, <1>7 DEF SortedAndMerged
  <2> QED  BY <2>1, <2>2
<1> QED  BY <1>1, <1>7 DEF SortedAndMerged

LEMMA MergeNextSorted ==
  ASSUME Inv, SortedAndMerged, NEW base, NEW n, Giving(base, n),
         NEW i \in 1..(Len(free_list) + 1), InsertionPoint(base, i), MergeNext(base, n, i)
  PROVE  SortedAndMerged'
<1>0. PICK cur : cur = free_list[i]
  OBVIOUS
<1>1. /\ i \in 1..Len(free_list) /\ ~MergesPrev(base, n, i)
      /\ base + n = cur
      /\ property' = [property EXCEPT ![base] = n + property[cur]]
      /\ free_list' = ReplaceAt(free_list, i, base)
  BY <1>0, Positions DEF MergeNext, MergesNext
<1>2. base \in Nat /\ n \in Nat /\ base \in Page /\ base \notin Heads
  BY GiveFacts
<1>3. cur \in Nat /\ cur \in Heads /\ property[cur] \in Nat
  BY <1>0, <1>1, Positions
<1>4. property'[base] = n + property[cur]
  BY <1>1, <1>2 DEF Inv, TypeInv
<1>5. base + property'[base] = cur + property[cur]
  <2>1. PICK c \in Nat : property[cur] = c
    BY <1>3
  <2>2. base + n = cur /\ base \in Nat /\ n \in Nat /\ cur \in Nat
    BY <1>1, <1>2, <1>3
  <2>3. base + (n + c) = cur + c
    BY <2>2
  <2> QED  BY <2>1, <2>3, <1>4
<1>6. \A l \in 1..Len(free_list) : property'[free_list[l]] = property[free_list[l]]
  BY <1>1, <1>2, Positions DEF Inv, TypeInv
<1>7. /\ Len(free_list') = Len(free_list)
      /\ \A j \in 1..Len(free_list) : free_list'[j] = IF j = i THEN base ELSE free_list[j]
  <2>1. free_list \in Seq(Page) /\ i \in 1..Len(free_list) /\ base \in Page
    BY <1>1, <1>2, Positions
  <2>2. /\ Len(ReplaceAt(free_list, i, base)) = Len(free_list)
        /\ \A j \in 1..Len(free_list) :
              ReplaceAt(free_list, i, base)[j] = IF j = i THEN base ELSE free_list[j]
    BY ONLY <2>1, ReplaceAtIndex
  <2> QED  BY <2>2, <1>1
<1>8. ASSUME NEW j \in 1..Len(free_list), NEW k \in 1..Len(free_list), j < k
      PROVE  free_list'[j] + property'[free_list'[j]] < free_list'[k]
  <2>0. free_list[j] + property[free_list[j]] < free_list[k]
    BY <1>8 DEF SortedAndMerged
  <2>1. CASE j = i
    <3>1. free_list[j] = cur /\ free_list'[j] = base /\ free_list'[k] = free_list[k]
      BY <2>1, <1>0, <1>7, <1>8
    <3> QED  BY <3>1, <2>0, <1>5
  <2>2. CASE k = i
    <3>1. free_list[j] + property[free_list[j]] < base
      BY <2>2, <1>1, <1>8, Neighbours
    <3> QED  BY <3>1, <2>2, <1>6, <1>7, <1>8
  <2>3. CASE j # i /\ k # i
    BY <2>0, <2>3, <1>6, <1>7
  <2> QED  BY <2>1, <2>2, <2>3
<1> QED  BY <1>7, <1>8 DEF SortedAndMerged

LEMMA InsertAloneSorted ==
  ASSUME Inv, SortedAndMerged, NEW base, NEW n, Giving(base, n),
         NEW i \in 1..(Len(free_list) + 1), InsertionPoint(base, i), InsertAlone(base, n, i)
  PROVE  SortedAndMerged'
<1>1. /\ ~MergesPrev(base, n, i) /\ ~MergesNext(base, n, i)
      /\ property' = [property EXCEPT ![base] = n]
      /\ free_list' = InsertAt(free_list, i, base)
  BY DEF InsertAlone
<1>2. base \in Nat /\ n \in Nat /\ base \in Page /\ base \notin Heads
  BY GiveFacts
<1>3. property'[base] = n
  BY <1>1, <1>2 DEF Inv, TypeInv
<1>4. \A l \in 1..Len(free_list) : property'[free_list[l]] = property[free_list[l]]
  BY <1>1, <1>2, Positions DEF Inv, TypeInv
<1>5. /\ Len(free_list) \in Nat /\ Len(free_list') = Len(free_list) + 1
      /\ \A j \in 1..(Len(free_list) + 1) :
            free_list'[j] = IF j < i THEN free_list[j]
                            ELSE IF j = i THEN base ELSE free_list[j - 1]
  <2>1. free_list \in Seq(Page) /\ Len(free_list) \in Nat
    BY Positions
  <2>2. /\ Len(InsertAt(free_list, i, base)) = Len(free_list) + 1
        /\ \A j \in 1..(Len(free_list) + 1) :
              InsertAt(free_list, i, base)[j] = IF j < i THEN free_list[j]
                                                ELSE IF j = i THEN base ELSE free_list[j - 1]
    BY <2>1, <1>2, InsertAtIndex
  <2> QED  BY <2>1, <2>2, <1>1
<1>6. ASSUME NEW j \in 1..(Len(free_list) + 1), NEW k \in 1..(Len(free_list) + 1), j < k
      PROVE  free_list'[j] + property'[free_list'[j]] < free_list'[k]
  <2>1. CASE k < i
    <3>1. /\ j \in 1..Len(free_list) /\ k \in 1..Len(free_list)
          /\ free_list'[j] = free_list[j] /\ free_list'[k] = free_list[k]
      BY <2>1, <1>5, <1>6
    <3> QED  BY <3>1, <1>4, <1>6 DEF SortedAndMerged
  <2>2. CASE k = i
    <3>1. j \in 1..Len(free_list) /\ free_list'[j] = free_list[j] /\ free_list'[k] = base
      BY <2>2, <1>5, <1>6
    <3>2. free_list[j] + property[free_list[j]] < base
      BY <3>1, <2>2, <1>1, <1>6, Neighbours
    <3> QED  BY <3>1, <3>2, <1>4
  <2>3. CASE j < i /\ i < k
    <3>2. j \in 1..Len(free_list) /\ k - 1 \in 1..Len(free_list) /\ j < k - 1
      BY <2>3, <1>5, <1>6
    <3>3. free_list'[j] = free_list[j] /\ free_list'[k] = free_list[k - 1]
      BY <2>3, <1>5, <1>6
    <3> QED  BY <3>2, <3>3, <1>4 DEF SortedAndMerged
  <2>4. CASE j = i
    <3>1. k - 1 \in 1..Len(free_list) /\ i <= k - 1
      BY <2>4, <1>5, <1>6
    <3>2. free_list'[j] = base /\ free_list'[k] = free_list[k - 1]
      BY <2>4, <1>5, <1>6
    <3>3. base + n < free_list[k - 1]
      BY <3>1, <1>1, Neighbours
    <3> QED  BY <3>2, <3>3, <1>3
  <2>5. CASE i < j
    <3>1. j - 1 \in 1..Len(free_list) /\ k - 1 \in 1..Len(free_list) /\ j - 1 < k - 1
      BY <2>5, <1>5, <1>6
    <3>2. free_list'[j] = free_list[j - 1] /\ free_list'[k] = free_list[k - 1]
      BY <2>5, <1>5, <1>6
    <3> QED  BY <3>1, <3>2, <1>4 DEF SortedAndMerged
  <2> QED  BY <2>1, <2>2, <2>3, <2>4, <2>5, <1>5
<1> QED  BY <1>5, <1>6 DEF SortedAndMerged

-----------------------------------------------------------------------------
LEMMA NextSorted ==
  ZonesDescending /\ Inv /\ Inv' /\ SortedAndMerged /\ [Next]_vars => SortedAndMerged'
<1> SUFFICES ASSUME ZonesDescending, Inv, Inv', SortedAndMerged, [Next]_vars
             PROVE  SortedAndMerged'
  OBVIOUS
<1>1. CASE NextZone
  BY <1>1, NextZoneSorted
<1>2. ASSUME NEW n \in 1..(NPage + 1), Alloc(n) PROVE SortedAndMerged'
  <2>1. CASE AllocFail(n)
    BY <2>1 DEF AllocFail, SortedAndMerged
  <2>2. ASSUME NEW i \in 1..Len(free_list), FirstFit(i, n),
               AllocWhole(i, n) \/ AllocSplit(i, n)
        PROVE  SortedAndMerged'
    <3>1. n \in Nat \ {0}
      BY NPageAssumption
    <3> QED  BY <3>1, <2>2, AllocWholeSorted, AllocSplitSorted
  <2> QED  BY <2>1, <2>2, <1>2 DEF Alloc
<1>3. ASSUME NEW base \in Page, NEW n \in 1..NPage, Free(base, n), UNCHANGED zone
      PROVE  SortedAndMerged'
  <2>1. PICK i \in 1..(Len(free_list) + 1) :
           /\ InsertionPoint(base, i)
           /\ \/ MergeBoth(base, n, i) \/ MergePrev(base, n, i)
              \/ MergeNext(base, n, i) \/ InsertAlone(base, n, i)
    BY <1>3 DEF Free
  <2>2. nr_free' = nr_free + n
    BY <2>1 DEF MergeBoth, MergePrev, MergeNext, InsertAlone
  <2>3. Giving(base, n)
    BY <2>2, <1>3 DEF Free, Giving
  <2> QED  BY <2>1, <2>3, MergeBothSorted, MergePrevSorted, MergeNextSorted, InsertAloneSorted
<1>4. CASE UNCHANGED vars
  BY <1>4 DEF vars, SortedAndMerged
<1> QED  BY <1>1, <1>2, <1>3, <1>4 DEF Next

(* The free list is sorted by address and no two of its blocks are         *)
(* adjacent, in every reachable state, when the regions come from the top  *)
(* of memory down.                                                         *)
THEOREM SortedTheorem == ZonesDescending => (Spec => []SortedAndMerged)
<1> SUFFICES ASSUME ZonesDescending PROVE Spec => []SortedAndMerged
  OBVIOUS
<1>1. Init => SortedAndMerged
  BY DEF Init, SortedAndMerged
<1>2. Inv /\ Inv' /\ SortedAndMerged /\ [Next]_vars => SortedAndMerged'
  BY NextSorted
<1> QED  BY <1>1, <1>2, Invariance, PTL DEF Spec

-----------------------------------------------------------------------------
(* In a merged list a run of free pages lies inside one block.             *)
LEMMA RunInBlock ==
  ASSUME Inv, SortedAndMerged, NEW b \in Page, NEW n \in Nat \ {0},
         Run(b, n) \subseteq FreePages
  PROVE  \E i \in 1..Len(free_list) :
            free_list[i] <= b /\ b + n <= free_list[i] + property[free_list[i]]
<1>1. b \in Nat /\ b \in Run(b, n)
  BY PageFacts
<1>2. PICK i \in 1..Len(free_list) : b \in Run(free_list[i], property[free_list[i]])
  BY <1>1 DEF FreePages, Block
<1>3. PICK e : e = free_list[i] + property[free_list[i]]
  OBVIOUS
<1>4. free_list[i] \in Nat /\ e \in Nat /\ free_list[i] <= b /\ b < e
  BY <1>2, <1>3, Positions, PageFacts
<1>5. ASSUME e < b + n PROVE FALSE
  <2>1. e \in Run(b, n)
    BY <1>1, <1>4, <1>5, PageFacts
  <2>2. PICK j \in 1..Len(free_list) : e \in Run(free_list[j], property[free_list[j]])
    BY <2>1 DEF FreePages, Block
  <2>3. /\ free_list[j] \in Nat /\ property[free_list[j]] \in Nat
        /\ free_list[j] <= e /\ e < free_list[j] + property[free_list[j]]
    BY <2>2, Positions, PageFacts
  <2>4. CASE i < j
    <3>1. e < free_list[j]
      BY <2>4, <1>3 DEF SortedAndMerged
    <3> QED  BY <3>1, <2>3, <1>4
  <2>5. CASE j < i
    <3>1. PICK g, h : g = free_list[j] + property[free_list[j]] /\ h = free_list[i]
      OBVIOUS
    <3>2. g < h
      BY <2>5, <3>1 DEF SortedAndMerged
    <3>3. g \in Nat /\ e < g
      BY <2>3, <3>1
    <3>4. h \in Nat /\ h <= b /\ b < e
      BY <1>4, <3>1
    <3> QED  BY <1>1, <1>4, <3>2, <3>3, <3>4
  <2>6. CASE i = j
    <3>1. PICK g : g = free_list[j] + property[free_list[j]]
      OBVIOUS
    <3>2. e < g
      BY <2>3, <3>1
    <3>3. e = g
      BY <2>6, <1>3, <3>1
    <3> QED  BY <1>4, <3>2, <3>3
  <2>7. i \in Nat /\ j \in Nat
    OBVIOUS
  <2> QED  BY <2>4, <2>5, <2>6, <2>7
<1>6. b + n <= e
  BY <1>1, <1>4, <1>5
<1> QED  BY <1>3, <1>4, <1>6

(* ... so the first block that fits lies below every run that is free.     *)
LEMMA FirstIsLowest ==
  ASSUME Inv, SortedAndMerged, NEW n \in Nat \ {0}, NEW i \in 1..Len(free_list),
         FirstFit(i, n), NEW b \in Page, Run(b, n) \subseteq FreePages
  PROVE  free_list[i] <= b
<1>1. PICK j \in 1..Len(free_list) :
         free_list[j] <= b /\ b + n <= free_list[j] + property[free_list[j]]
  BY RunInBlock
<1>2. /\ free_list[i] \in Nat /\ free_list[j] \in Nat /\ property[free_list[j]] \in Nat
      /\ property[free_list[i]] \in Nat /\ b \in Nat
  BY Positions, PageFacts
<1>3. n <= property[free_list[j]]
  BY <1>1, <1>2
<1>4. ~(j < i)
  BY <1>3, Positions DEF FirstFit, Fits
<1>5. CASE i = j
  BY <1>1, <1>5
<1>6. CASE i < j
  <2>1. free_list[i] + property[free_list[i]] < free_list[j]
    BY <1>6 DEF SortedAndMerged
  <2> QED  BY <2>1, <1>1, <1>2
<1> QED  BY <1>4, <1>5, <1>6, Positions

LEMMA LowestFitStep ==
  ASSUME Inv, SortedAndMerged, [Next]_vars, NEW n \in 1..NPage, NEW base \in Page,
         held' \ held = Run(base, n), NEW b \in 0..(base - 1)
  PROVE  ~(Run(b, n) \subseteq FreePages)
<1>1. /\ n \in Nat \ {0} /\ base \in Nat /\ b \in Nat /\ b \in Page /\ b < base
      /\ base \in Run(base, n)
  BY NPageAssumption, PageFacts DEF Page
<1>2. ~(held' \subseteq held)
  BY <1>1
<1>3. PICK m \in 1..(NPage + 1), i \in 1..Len(free_list) :
         FirstFit(i, m) /\ (AllocWhole(i, m) \/ AllocSplit(i, m))
  BY <1>2 DEF Next, NextZone, Alloc, AllocFail, Free, vars
<1>4. m \in Nat \ {0}
  BY NPageAssumption
<1>5. PICK page : page = free_list[i]
  OBVIOUS
<1>6. page \in Nat /\ m <= property[page] /\ property[page] \in Nat /\ page \in Heads
  BY <1>3, <1>5, Positions DEF FirstFit, Fits
<1>7. held' = held \cup Run(page, m)
  BY <1>3, <1>5 DEF AllocWhole, AllocSplit, Take
<1>8. Run(page, m) \cap held = {}
  BY <1>4, <1>6, HeadFacts, PageFacts
<1>9. Run(page, m) = Run(base, n)
  BY <1>7, <1>8
<1>10. page = base /\ m = n
  <2>1. /\ base \in Run(page, m) /\ page \in Run(base, n)
        /\ base + n - 1 \in Run(page, m) /\ page + m - 1 \in Run(base, n)
    <3>1. page \in Run(page, m) /\ page + m - 1 \in Run(page, m)
      BY <1>4, <1>6, PageFacts
    <3>2. base + n - 1 \in Run(base, n)
      BY <1>1, PageFacts
    <3> QED  BY <3>1, <3>2, <1>1, <1>9
  <2> QED  BY <2>1, <1>1, <1>4, <1>6, PageFacts
<1> SUFFICES ASSUME Run(b, n) \subseteq FreePages PROVE FALSE
  OBVIOUS
<1>11. page <= b
  BY <1>1, <1>3, <1>5, <1>10, FirstIsLowest
<1> QED  BY <1>1, <1>10, <1>11

(* Every allocation takes the lowest run of free pages that is long enough *)
(* (first fit by address), when the regions come from the top down.        *)
THEOREM FirstFitTheorem == ZonesDescending => (Spec => LowestFit)
<1> SUFFICES ASSUME ZonesDescending PROVE Spec => LowestFit
  OBVIOUS
<1>1. Spec => []SortedAndMerged
  BY SortedTheorem
<1>2. Inv /\ SortedAndMerged /\ [Next]_vars =>
        [\A n \in 1..NPage : \A base \in Page :
           (held' \ held = Run(base, n)) =>
              \A b \in 0..(base - 1) : ~(Run(b, n) \subseteq FreePages)]_vars
  BY LowestFitStep
<1> QED  BY <1>1, <1>2, Invariance, PTL DEF Spec, LowestFit

-----------------------------------------------------------------------------
LEMMA PromiseInit == Init => Promise!Init
<1> SUFFICES ASSUME Init PROVE Promise!Init
  OBVIOUS
<1>1. Managed = {} /\ FreePages = {}
  BY DEF Init, Managed, FreePages
<1> QED  BY <1>1 DEF Init, Promise!Init

(* The pages an allocation takes are free, and are exactly what leaves the *)
(* free pages.                                                             *)
LEMMA PromiseTake ==
  ASSUME Inv, Inv', NEW n \in 1..(NPage + 1), NEW i \in 1..Len(free_list),
         FirstFit(i, n), AllocWhole(i, n) \/ AllocSplit(i, n), UNCHANGED zone
  PROVE  Promise!AllocOk(n)
<1>1. n \in Nat \ {0}
  BY NPageAssumption
<1>2. PICK page : page = free_list[i]
  OBVIOUS
<1>3. page \in Nat /\ n <= property[page] /\ property[page] \in Nat /\ page \in Heads
  BY <1>2, Positions DEF FirstFit, Fits
<1>4. /\ held' = held \cup Run(page, n)
      /\ ret' = [page |-> page, refused |-> 0]
  BY <1>2 DEF AllocWhole, AllocSplit, Take
<1>5. Managed' = Managed
  BY DEF Managed
<1>6. FreePages = Managed \ held
  BY FreePagesAre
<1>7. (FreePages = Managed \ held)'
  BY FreePagesAre, PTL
<1>8. Run(page, n) \subseteq FreePages
  BY <1>1, <1>2, <1>3, PageFacts DEF FreePages, Block
<1>9. FreePages' = FreePages \ Run(page, n)
  BY <1>4, <1>5, <1>6, <1>7
<1>10. page \in Page
  BY <1>2, Positions
<1>11. Promise!Run(page, n) = Run(page, n)
  BY DEF Promise!Run, Run
<1> DEFINE block == [base |-> page, size |-> n]
<1>12. block \in [base : Page, size : {n}] /\ block.base = page /\ block.size = n
  BY <1>10
<1> QED  BY <1>4, <1>5, <1>8, <1>9, <1>11, <1>12 DEF Promise!AllocOk

LEMMA PromiseStep ==
  ASSUME Inv, Inv', SortedAndMerged, [Next]_vars
  PROVE  [Promise!Next]_(Promise!vars)
<1>1. FreePages = Managed \ held
  BY FreePagesAre
<1>2. (FreePages = Managed \ held)'
  BY FreePagesAre, PTL
<1>3. CASE NextZone
  <2>1. PICK base \in Nat, n \in Nat \ {0} :
           /\ Run(base, n) \subseteq Page
           /\ Run(base, n) \cap Managed = {}
           /\ Managed' = Managed \cup Run(base, n)
    BY <1>3, NewZone
  <2>2. base \in Page /\ n \in 1..(NPage + 1)
    <3>1. base \in Run(base, n) /\ base + n - 1 \in Run(base, n)
      BY PageFacts
    <3>2. base \in Page /\ base + n - 1 \in Page
      BY <2>1, <3>1
    <3> QED  BY <3>2, NPageAssumption DEF Page
  <2>3. held' = held /\ ret' = ret
    BY <1>3 DEF NextZone
  <2>4. held \subseteq Managed
    BY DEF Inv, CoverInv
  <2>5. FreePages' = FreePages \cup Run(base, n)
    BY <1>1, <1>2, <2>1, <2>3, <2>4
  <2>6. Promise!Run(base, n) = Run(base, n)
    BY DEF Promise!Run, Run
  <2>7. Promise!AddZone(Promise!Run(base, n))
    BY <2>1, <2>3, <2>5, <2>6 DEF Promise!AddZone
  <2> QED  BY <2>2, <2>7 DEF Promise!Next
<1>4. ASSUME NEW n \in 1..(NPage + 1), AllocFail(n), UNCHANGED zone
      PROVE  Promise!AllocFail(n)
  <2>1. n \in Nat \ {0}
    BY NPageAssumption
  <2>2. ASSUME NEW base \in Page, Run(base, n) \subseteq FreePages
        PROVE  FALSE
    <3>1. PICK i \in 1..Len(free_list) :
             /\ free_list[i] <= base
             /\ base + n <= free_list[i] + property[free_list[i]]
      BY <2>1, <2>2, RunInBlock
    <3>2. /\ free_list[i] \in Nat /\ property[free_list[i]] \in Nat /\ base \in Nat
      BY Positions, PageFacts
    <3>3. Fits(i, n)
      BY <2>1, <3>1, <3>2 DEF Fits
    <3>4. n > nr_free
      BY <1>4, <3>3 DEF AllocFail
    <3>5. /\ IsFiniteSet(Run(base, n)) /\ Cardinality(Run(base, n)) = n
      BY <2>1, <3>2, RunCount
    <3>6. IsFiniteSet(FreePages) /\ Cardinality(FreePages) = nr_free
      BY <1>1, ManagedPages, FS_Difference DEF Inv, TypeInv, CountInv
    <3>7. n <= nr_free
      BY <2>2, <3>5, <3>6, FS_Subset
    <3>8. nr_free \in Nat
      BY DEF Inv, TypeInv
    <3> QED  BY <2>1, <3>4, <3>7, <3>8
  <2>3. ret' = [page |-> NULL, refused |-> n] /\ FreePages' = FreePages /\ Managed' = Managed
    BY <1>4 DEF AllocFail, FreePages, Block, Managed
  <2>4. \A block \in [base : Page, size : {n}] :
           ~(Promise!Run(block.base, block.size) \subseteq FreePages)
    BY <2>2 DEF Promise!Run, Run
  <2> QED  BY <2>3, <2>4 DEF Promise!AllocFail
<1>5. ASSUME NEW base \in Page, NEW n \in 1..NPage, Free(base, n), UNCHANGED zone
      PROVE  Promise!Free(Promise!Run(base, n))
  <2>1. /\ Run(base, n) \subseteq held /\ held' = held \ Run(base, n) /\ ret' = ret
    BY <1>5 DEF Free
  <2>2. Managed' = Managed
    BY <1>5 DEF Managed
  <2>3. held \subseteq Managed
    BY DEF Inv, CoverInv
  <2>4. base \in Run(base, n)
    BY NPageAssumption, PageFacts
  <2>5. FreePages' = FreePages \cup Run(base, n)
    BY <1>1, <1>2, <2>1, <2>2, <2>3
  <2>6. Run(base, n) \subseteq Managed \ FreePages /\ Run(base, n) # {}
    BY <1>1, <2>1, <2>3, <2>4
  <2>7. Promise!Run(base, n) = Run(base, n)
    BY DEF Promise!Run, Run
  <2> QED  BY <2>1, <2>2, <2>5, <2>6, <2>7 DEF Promise!Free
<1>6. CASE UNCHANGED vars
  BY <1>6 DEF vars, Promise!vars, Managed, FreePages, Block
<1>7. ASSUME NEW n \in 1..(NPage + 1), Alloc(n), UNCHANGED zone PROVE Promise!Next
  <2>1. Promise!AllocOk(n) \/ Promise!AllocFail(n)
    BY <1>4, <1>7, PromiseTake DEF Alloc
  <2> QED  BY <2>1 DEF Promise!Next
<1>8. ASSUME NEW base \in Page, NEW n \in 1..NPage, Free(base, n), UNCHANGED zone
      PROVE  Promise!Next
  <2>1. n \in 1..(NPage + 1)
    BY NPageAssumption
  <2> QED  BY <1>5, <1>8, <2>1 DEF Promise!Next
<1> QED  BY <1>3, <1>6, <1>7, <1>8 DEF Next

(* The first-fit manager implements the promise of pmm_manager, when the   *)
(* regions come from the top down: in particular it never refuses a        *)
(* request that some run of free pages could have answered.                *)
THEOREM PromiseTheorem == ZonesDescending => (Spec => PromiseKept)
<1> SUFFICES ASSUME ZonesDescending PROVE Spec => PromiseKept
  OBVIOUS
<1>1. Spec => []SortedAndMerged
  BY SortedTheorem
<1>2. Inv /\ Inv' /\ SortedAndMerged /\ [Next]_vars => [Promise!Next]_(Promise!vars)
  BY PromiseStep
<1> QED  BY <1>1, <1>2, PromiseInit, Invariance, PTL DEF Spec, PromiseKept, Promise!Spec

-----------------------------------------------------------------------------
(***************************************************************************)
(* The other free_pages of the file.  Its loop changes something only at   *)
(* the block in front of the run and at the one behind it.                 *)
(***************************************************************************)

State(b, l, prop, fl) == [base |-> b, list |-> l, property |-> prop, flags |-> fl]

(* A block that neither begins where the run ends nor ends where it begins *)
(* is passed over.                                                         *)
Quiet(s, p) == s.base + s.property[s.base] # p /\ p + s.property[p] # s.base

(* What the merge of p into b makes of the fields of the pages. *)
Grown(prop, b, p) == [prop EXCEPT ![b] = @ + prop[p]]
Unmarked(fl, p) == [fl EXCEPT ![p] = @ \ {"PG_property"}]

LEMMA AbsorbQuiet ==
  ASSUME NEW s, NEW p, Quiet(s, p)
  PROVE  Absorb(s, p) = s
  BY DEF Absorb, Quiet

LEMMA AbsorbNext ==
  ASSUME NEW b, NEW l, NEW prop, NEW fl, NEW p, b + prop[b] = p
  PROVE  Absorb(State(b, l, prop, fl), p) =
            State(b, Unlink(l, p), Grown(prop, b, p), Unmarked(fl, p))
  BY DEF Absorb, State, Grown, Unmarked

LEMMA AbsorbPrev ==
  ASSUME NEW b, NEW l, NEW prop, NEW fl, NEW p, b + prop[b] # p, p + prop[p] = b
  PROVE  Absorb(State(b, l, prop, fl), p) =
            State(p, Unlink(l, p), Grown(prop, p, b), Unmarked(fl, b))
  BY DEF Absorb, State, Grown, Unmarked

(* f is what the loop makes of a, from block to block of the list. *)
Passes(f, a, list, m) ==
    f = [i \in 0..m |-> IF i = 0 THEN a ELSE Absorb(f[i - 1], list[i])]

LEMMA PassExists ==
  ASSUME NEW a, NEW list, NEW m \in Nat
  PROVE  \E f : Passes(f, a, list, m)
<1> DEFINE Bad == {k \in Nat : ~ \E f : Passes(f, a, list, k)}
<1> SUFFICES ASSUME Bad # {} PROVE FALSE
  OBVIOUS
<1>1. PICK k \in Bad : \A j \in Bad : k <= j
  BY LeastNatural
<1>2. k # 0
  <2> DEFINE f == [i \in 0..0 |-> a]
  <2>1. f = [i \in 0..0 |-> IF i = 0 THEN a ELSE Absorb(f[i - 1], list[i])]
    OBVIOUS
  <2>2. Passes(f, a, list, 0)
    BY <2>1 DEF Passes
  <2> QED  BY <2>2
<1>3. k - 1 \in Nat /\ k - 1 \notin Bad /\ k \in Nat
  BY <1>1, <1>2
<1>4. PICK f : Passes(f, a, list, k - 1)
  BY <1>3
<1> DEFINE g == [i \in 0..k |-> IF i = k THEN Absorb(f[k - 1], list[k]) ELSE f[i]]
<1>5. ASSUME NEW i \in 0..k PROVE g[i] = IF i = 0 THEN a ELSE Absorb(g[i - 1], list[i])
  <2>1. CASE i = k
    <3>1. g[i] = Absorb(f[k - 1], list[k]) /\ g[k - 1] = f[k - 1]
      BY <2>1, <1>2, <1>3
    <3> QED  BY <3>1, <2>1, <1>2
  <2>2. CASE i # k
    <3>1. i \in 0..(k - 1) /\ g[i] = f[i]
      BY <2>2, <1>3
    <3>2. f[i] = IF i = 0 THEN a ELSE Absorb(f[i - 1], list[i])
      BY <3>1, <1>4 DEF Passes
    <3>3. i # 0 => g[i - 1] = f[i - 1]
      BY <3>1, <1>3
    <3> QED  BY <3>1, <3>2, <3>3
  <2> QED  BY <2>1, <2>2
<1>6. Passes(g, a, list, k)
  <2>1. g = [i \in 0..k |-> IF i = 0 THEN a ELSE Absorb(g[i - 1], list[i])]
    BY <1>5
  <2> QED  BY <2>1 DEF Passes
<1> QED  BY <1>1, <1>6

(* The loop stays as it is while it passes over blocks. *)
LEMMA QuietPass ==
  ASSUME NEW f, NEW a, NEW list, NEW m \in Nat, Passes(f, a, list, m),
         NEW j \in 0..m, NEW k \in 0..m, j <= k, NEW s, f[j] = s,
         \A i \in 1..m : j < i /\ i <= k => Absorb(s, list[i]) = s
  PROVE  f[k] = s
<1> DEFINE Bad == {i \in Nat : j <= i /\ i <= k /\ f[i] # s}
<1> SUFFICES ASSUME Bad # {} PROVE FALSE
  OBVIOUS
<1>1. PICK i \in Bad : \A o \in Bad : i <= o
  BY LeastNatural
<1>2. i # j /\ i \in Nat /\ j < i /\ i <= k /\ f[i] # s
  BY <1>1
<1>3. i - 1 \in Nat /\ i - 1 \notin Bad /\ i \in 0..m /\ i # 0 /\ i \in 1..m
  BY <1>1, <1>2
<1>4. f[i - 1] = s
  BY <1>2, <1>3
<1>5. f[i] = Absorb(f[i - 1], list[i])
  BY <1>3 DEF Passes
<1> QED  BY <1>2, <1>3, <1>4, <1>5

(* Method1 takes the last state of the loop. *)
LEMMA Method1Is ==
  ASSUME NEW base, NEW n, Len(free_list) \in Nat
  PROVE  \E f : /\ Passes(f, Loop(base, n), free_list, Len(free_list))
                /\ Method1(base, n) =
                     [f[Len(free_list)] EXCEPT !.list = PutBack(@, f[Len(free_list)].base)]
<1> DEFINE f == CHOOSE g : Passes(g, Loop(base, n), free_list, Len(free_list))
<1>1. Passes(f, Loop(base, n), free_list, Len(free_list))
  BY PassExists
<1>2. Method1(base, n) =
         [f[Len(free_list)] EXCEPT !.list = PutBack(@, f[Len(free_list)].base)]
  BY DEF Method1, Passes
<1> QED  BY <1>1, <1>2

-----------------------------------------------------------------------------
(* The list without p, which is at one position. *)
LEMMA UnlinkIs ==
  ASSUME NEW S, NEW s \in Seq(S), IsInjective(s), NEW i \in 1..Len(s)
  PROVE  Unlink(s, s[i]) = RemoveAt(s, i)
<1>1. \A j \in 1..Len(s) : s[j] = s[i] => j = i
  BY DEF IsInjective
<1>2. (CHOOSE j \in 1..Len(s) : s[j] = s[i]) = i
  BY <1>1
<1> QED  BY <1>2 DEF Unlink

(* The second loop, if the blocks before position k are below base and     *)
(* those from k on above it.                                               *)
LEMMA PutBackIs ==
  ASSUME NEW s \in Seq(Page), NEW b \in Page, NEW k \in 1..(Len(s) + 1),
         \A j \in 1..Len(s) : j < k => s[j] < b,
         \A j \in 1..Len(s) : k <= j => b < s[j]
  PROVE  PutBack(s, b) = InsertAt(s, k, b)
<1> DEFINE above == {j \in 1..Len(s) : b < s[j]}
<1>0. Len(s) \in Nat /\ b \in Nat /\ (\A j \in 1..Len(s) : s[j] \in Nat) /\ k \in Nat
  <2>1. Len(s) \in Nat /\ (\A j \in 1..Len(s) : s[j] \in Page)
    OBVIOUS
  <2>2. k \in Nat
    BY <2>1
  <2>3. Page \subseteq Nat
    BY PageFacts
  <2> QED  BY <2>1, <2>2, <2>3
<1>1. above = k..Len(s)
  <2>1. ASSUME NEW j \in 1..Len(s) PROVE b < s[j] <=> k <= j
    <3>1. CASE j < k
      <4>1. s[j] < b /\ s[j] \in Nat /\ j \in Nat
        BY <3>1, <1>0
      <4> QED  BY <4>1, <3>1, <1>0
    <3>2. CASE k <= j
      BY <3>2
    <3> QED  BY <3>1, <3>2, <1>0
  <2> QED  BY <2>1, <1>0
<1>2. CASE k = Len(s) + 1
  <2>1. above = {}
    BY <1>0, <1>1, <1>2
  <2>2. PutBack(s, b) = Append(s, b)
    BY <2>1 DEF PutBack
  <2>3. /\ InsertAt(s, k, b) \in Seq(Page)
        /\ Len(InsertAt(s, k, b)) = Len(s) + 1
        /\ \A j \in 1..(Len(s) + 1) :
              InsertAt(s, k, b)[j] = IF j < k THEN s[j] ELSE IF j = k THEN b ELSE s[j - 1]
    BY InsertAtIndex
  <2>4. /\ Append(s, b) \in Seq(Page) /\ Len(Append(s, b)) = Len(s) + 1
        /\ \A j \in 1..(Len(s) + 1) : Append(s, b)[j] = IF j <= Len(s) THEN s[j] ELSE b
    OBVIOUS
  <2> HIDE DEF above
  <2>5. Append(s, b) = InsertAt(s, k, b)
    <3>1. \A j \in 1..(Len(s) + 1) : Append(s, b)[j] = InsertAt(s, k, b)[j]
      BY <2>3, <2>4, <1>2, <1>0
    <3> QED  BY <3>1, <2>3, <2>4, SeqEqual
  <2> QED  BY <2>2, <2>5
<1>3. CASE k <= Len(s)
  <2>1. k \in above /\ \A j \in above : k <= j
    BY <1>0, <1>1, <1>3
  <2>2. (CHOOSE i \in above : \A j \in above : i <= j) = k
    <3>1. ASSUME NEW i \in above, \A j \in above : i <= j PROVE i = k
      <4>1. i <= k /\ k <= i /\ i \in Nat
        BY <3>1, <2>1
      <4> QED  BY <4>1, <1>0
    <3> QED  BY <3>1, <2>1
  <2> QED  BY <2>1, <2>2 DEF PutBack
<1> QED  BY <1>0, <1>2, <1>3

-----------------------------------------------------------------------------
(* Where the loop is before the block in front of the run, between the two *)
(* neighbours, and behind them.                                            *)
AtPrev(base, n, i) ==
    LET s == Loop(base, n)
    IN  IF MergesPrev(base, n, i)
        THEN State(free_list[i - 1], Unlink(free_list, free_list[i - 1]),
                   Grown(s.property, free_list[i - 1], base), Unmarked(s.flags, base))
        ELSE s

AtNext(base, n, i) ==
    LET s == AtPrev(base, n, i)
    IN  IF MergesNext(base, n, i)
        THEN State(s.base, Unlink(s.list, free_list[i]),
                   Grown(s.property, s.base, free_list[i]), Unmarked(s.flags, free_list[i]))
        ELSE s

LEMMA LoopIs ==
  ASSUME NEW base, NEW n
  PROVE  Loop(base, n) = State(base, free_list, [property EXCEPT ![base] = n],
                               [Cleared(base, n) EXCEPT ![base] = {"PG_property"}])
  BY DEF Loop, State

(* The blocks before the neighbours. *)
LEMMA LoopQuiet ==
  ASSUME Inv, SortedAndMerged, NEW base, NEW n, Giving(base, n),
         NEW i \in 1..(Len(free_list) + 1), InsertionPoint(base, i),
         NEW j \in 1..Len(free_list), j < i, j # i - 1 \/ ~MergesPrev(base, n, i)
  PROVE  Quiet(Loop(base, n), free_list[j])
<1>0. PICK p, k : p = free_list[j] /\ k = property[free_list[j]]
  OBVIOUS
<1>1. /\ base \in Nat /\ n \in Nat /\ n >= 1 /\ base \in Page /\ base \notin Heads
      /\ p \in Nat /\ k \in Nat /\ k >= 1 /\ p \in Page /\ p \in Heads
  BY <1>0, GiveFacts, Positions
<1>2. p + k < base
  <2>1. CASE ~MergesPrev(base, n, i)
    BY <2>1, <1>0, Neighbours
  <2>2. CASE j # i - 1
    <3>1. i - 1 \in 1..Len(free_list) /\ j < i - 1 /\ i > 1
      BY <2>2, Positions
    <3>2. p + k < free_list[i - 1]
      BY <3>1, <1>0 DEF SortedAndMerged
    <3>3. free_list[i - 1] < base
      BY <3>1 DEF InsertionPoint, Accepts
    <3>4. free_list[i - 1] \in Nat
      BY <3>1, Positions
    <3> QED  BY <3>2, <3>3, <3>4, <1>1
  <2> QED  BY <2>1, <2>2
<1>3. base + n # p /\ p + k # base /\ p # base
  BY <1>1, <1>2
<1>4. property \in [Page -> 0..NPage]
  BY DEF Inv, TypeInv
<1>5. /\ Loop(base, n).base = base
      /\ Loop(base, n).property[base] = n
      /\ Loop(base, n).property[p] = k
  BY <1>0, <1>1, <1>3, <1>4 DEF Loop
<1> QED  BY <1>0, <1>3, <1>5 DEF Quiet

(* The block in front of the run. *)
LEMMA PrevStep ==
  ASSUME Inv, SortedAndMerged, NEW base, NEW n, Giving(base, n),
         NEW i \in 1..(Len(free_list) + 1), InsertionPoint(base, i), i > 1
  PROVE  Absorb(Loop(base, n), free_list[i - 1]) = AtPrev(base, n, i)
<1>1. i - 1 \in 1..Len(free_list) /\ i - 1 < i
  BY Positions
<1>2. CASE ~MergesPrev(base, n, i)
  <2>1. Quiet(Loop(base, n), free_list[i - 1])
    BY <1>1, <1>2, LoopQuiet
  <2>2. Absorb(Loop(base, n), free_list[i - 1]) = Loop(base, n)
    BY <2>1, AbsorbQuiet
  <2> QED  BY <2>2, <1>2 DEF AtPrev
<1>3. CASE MergesPrev(base, n, i)
  <2>0. PICK p, k : p = free_list[i - 1] /\ k = property[free_list[i - 1]]
    OBVIOUS
  <2>1. /\ base \in Nat /\ n \in Nat /\ n >= 1 /\ base \in Page /\ base \notin Heads
        /\ p \in Nat /\ k \in Nat /\ k >= 1 /\ p \in Page /\ p \in Heads /\ p + k = base
    BY <2>0, <1>1, <1>3, GiveFacts, Positions DEF MergesPrev
  <2>2. p # base /\ base + n # p
    BY <2>1
  <2> DEFINE prop == [property EXCEPT ![base] = n]
             fl == [Cleared(base, n) EXCEPT ![base] = {"PG_property"}]
  <2>3. prop[base] = n /\ prop[p] = k
    BY <2>0, <2>1, <2>2 DEF Inv, TypeInv
  <2>4. Loop(base, n) = State(base, free_list, prop, fl)
    BY LoopIs
  <2> HIDE DEF prop, fl
  <2>5. Absorb(State(base, free_list, prop, fl), p) =
           State(p, Unlink(free_list, p), Grown(prop, p, base), Unmarked(fl, base))
    <3>1. base + prop[base] # p /\ p + prop[p] = base
      BY <2>1, <2>2, <2>3
    <3> QED  BY <3>1, AbsorbPrev
  <2>6. Loop(base, n).property = prop /\ Loop(base, n).flags = fl
    BY <2>4 DEF State
  <2> QED  BY <2>0, <2>4, <2>5, <2>6, <1>3 DEF AtPrev
<1> QED  BY <1>2, <1>3

(* Behind the block in front of the run: base has grown at most downwards. *)
LEMMA AtPrevFacts ==
  ASSUME Inv, SortedAndMerged, NEW base, NEW n, Giving(base, n),
         NEW i \in 1..(Len(free_list) + 1), InsertionPoint(base, i)
  PROVE  \E b, k, l, fl :
            /\ b \in Page /\ k \in Nat
            /\ AtPrev(base, n, i) = State(b, l, AtPrev(base, n, i).property, fl)
            /\ b <= base /\ b + k = base + n
            /\ AtPrev(base, n, i).property[b] = k
            /\ AtPrev(base, n, i).property \in [Page -> Nat]
            /\ \A j \in 1..Len(free_list) : i <= j =>
                  AtPrev(base, n, i).property[free_list[j]] = property[free_list[j]]
<1>1. /\ base \in Nat /\ n \in Nat /\ n >= 1 /\ base \in Page /\ base \notin Heads
  BY GiveFacts
<1>2. property \in [Page -> 0..NPage] /\ 0..NPage \subseteq Nat
  BY NPageAssumption DEF Inv, TypeInv
<1>3. /\ Loop(base, n) = State(base, free_list, Loop(base, n).property, Loop(base, n).flags)
      /\ Loop(base, n).property = [property EXCEPT ![base] = n]
  BY DEF Loop, State
<1> DEFINE prop == [property EXCEPT ![base] = n]
<1>4. prop \in [Page -> Nat] /\ prop[base] = n /\ \A h \in Heads : prop[h] = property[h]
  BY <1>1, <1>2, HeadFacts
<1> HIDE DEF prop
<1>5. CASE ~MergesPrev(base, n, i)
  <2>1. AtPrev(base, n, i) = Loop(base, n)
    BY <1>5 DEF AtPrev
  <2>2. AtPrev(base, n, i).property = prop
    BY <2>1, <1>3 DEF prop
  <2>3. \A j \in 1..Len(free_list) : prop[free_list[j]] = property[free_list[j]]
    BY <1>4, Positions
  <2>4. base <= base /\ base + n = base + n
    BY <1>1
  <2> QED  BY <2>1, <2>2, <2>3, <2>4, <1>1, <1>3, <1>4
<1>6. CASE MergesPrev(base, n, i)
  <2>0. PICK p, k : p = free_list[i - 1] /\ k = property[free_list[i - 1]]
    OBVIOUS
  <2>1. i - 1 \in 1..Len(free_list)
    BY <1>6, Positions DEF MergesPrev
  <2>2. /\ p \in Nat /\ k \in Nat /\ k >= 1 /\ p \in Page /\ p \in Heads /\ p + k = base
    BY <2>0, <2>1, <1>6, Positions DEF MergesPrev
  <2>3. AtPrev(base, n, i) =
           State(p, Unlink(free_list, p), Grown(prop, p, base), Unmarked(Loop(base, n).flags, base))
    BY <2>0, <1>3, <1>6 DEF AtPrev, prop
  <2>4. AtPrev(base, n, i).property = [prop EXCEPT ![p] = @ + prop[base]]
    BY <2>3 DEF State, Grown
  <2>5. prop[p] = k
    BY <2>0, <2>2, <1>4
  <2>6. /\ AtPrev(base, n, i).property \in [Page -> Nat]
        /\ AtPrev(base, n, i).property[p] = k + n
    BY <2>2, <2>4, <2>5, <1>1, <1>4
  <2>7. ASSUME NEW j \in 1..Len(free_list), i <= j
        PROVE  AtPrev(base, n, i).property[free_list[j]] = property[free_list[j]]
    <3>1. free_list[j] # p /\ free_list[j] \in Heads /\ free_list[j] \in Page
      BY <2>0, <2>1, <2>7, Positions
    <3> QED  BY <3>1, <2>4, <1>4
  <2>8. p <= base /\ p + (k + n) = base + n /\ k + n \in Nat
    BY <2>2, <1>1
  <2>9. \A j \in 1..Len(free_list) : i <= j =>
           AtPrev(base, n, i).property[free_list[j]] = property[free_list[j]]
    BY <2>7
  <2>10. AtPrev(base, n, i) =
            State(p, Unlink(free_list, p), AtPrev(base, n, i).property, Unmarked(Loop(base, n).flags, base))
    BY <2>3 DEF State
  <2> QED  BY <2>2, <2>6, <2>8, <2>9, <2>10
<1> QED  BY <1>5, <1>6

(* The block behind the run. *)
LEMMA NextStep ==
  ASSUME Inv, SortedAndMerged, NEW base, NEW n, Giving(base, n),
         NEW i \in 1..Len(free_list), InsertionPoint(base, i)
  PROVE  Absorb(AtPrev(base, n, i), free_list[i]) = AtNext(base, n, i)
<1>0. i \in 1..(Len(free_list) + 1)
  BY Positions
<1>1. PICK b, k, l, fl :
         /\ b \in Page /\ k \in Nat
         /\ AtPrev(base, n, i) = State(b, l, AtPrev(base, n, i).property, fl)
         /\ b <= base /\ b + k = base + n
         /\ AtPrev(base, n, i).property[b] = k
         /\ AtPrev(base, n, i).property \in [Page -> Nat]
         /\ \A j \in 1..Len(free_list) : i <= j =>
               AtPrev(base, n, i).property[free_list[j]] = property[free_list[j]]
  BY <1>0, AtPrevFacts
<1>2. PICK q, m, prop : q = free_list[i] /\ m = property[free_list[i]]
                       /\ prop = AtPrev(base, n, i).property
  OBVIOUS
<1>3. /\ q \in Nat /\ m \in Nat /\ m >= 1 /\ b \in Nat /\ prop[q] = m
      /\ base \in Nat /\ n \in Nat
  BY <1>1, <1>2, Positions, PageFacts, GiveFacts
<1>4. base < q
  BY <1>2 DEF InsertionPoint, Accepts
<1>5. q + prop[q] # b
  BY <1>1, <1>3, <1>4
<1>6. AtPrev(base, n, i) = State(b, l, prop, fl) /\ prop[b] = k
  BY <1>1, <1>2
<1>7. b + prop[b] = q <=> MergesNext(base, n, i)
  BY <1>1, <1>2, <1>6 DEF MergesNext
<1>8. CASE MergesNext(base, n, i)
  <2>1. Absorb(State(b, l, prop, fl), q) =
          State(b, Unlink(l, q), Grown(prop, b, q), Unmarked(fl, q))
    <3>1. b + prop[b] = q
      BY <1>7, <1>8
    <3> QED  BY <3>1, AbsorbNext
  <2>2. /\ State(b, l, prop, fl).base = b /\ State(b, l, prop, fl).list = l
        /\ State(b, l, prop, fl).property = prop /\ State(b, l, prop, fl).flags = fl
    BY DEF State
  <2> QED  BY <2>1, <2>2, <1>2, <1>6, <1>8 DEF AtNext
<1>9. CASE ~MergesNext(base, n, i)
  <2>1. Quiet(State(b, l, prop, fl), q)
    BY <1>5, <1>7, <1>9 DEF Quiet, State
  <2>2. Absorb(State(b, l, prop, fl), q) = State(b, l, prop, fl)
    BY <2>1, AbsorbQuiet
  <2> QED  BY <2>2, <1>2, <1>6, <1>9 DEF AtNext
<1> QED  BY <1>8, <1>9

(* The blocks behind the neighbours. *)
LEMMA NextQuiet ==
  ASSUME Inv, SortedAndMerged, NEW base, NEW n, Giving(base, n),
         NEW i \in 1..Len(free_list), InsertionPoint(base, i),
         NEW j \in 1..Len(free_list), i < j
  PROVE  Absorb(AtNext(base, n, i), free_list[j]) = AtNext(base, n, i)
<1>0. i \in 1..(Len(free_list) + 1)
  BY Positions
<1>1. PICK b, k, l, fl :
         /\ b \in Page /\ k \in Nat
         /\ AtPrev(base, n, i) = State(b, l, AtPrev(base, n, i).property, fl)
         /\ b <= base /\ b + k = base + n
         /\ AtPrev(base, n, i).property[b] = k
         /\ AtPrev(base, n, i).property \in [Page -> Nat]
         /\ \A o \in 1..Len(free_list) : i <= o =>
               AtPrev(base, n, i).property[free_list[o]] = property[free_list[o]]
  BY <1>0, AtPrevFacts
<1>2. PICK q, m, p, c, prop :
         /\ q = free_list[i] /\ m = property[free_list[i]]
         /\ p = free_list[j] /\ c = property[free_list[j]]
         /\ prop = AtPrev(base, n, i).property
  OBVIOUS
<1>3. /\ q \in Nat /\ m \in Nat /\ m >= 1 /\ b \in Nat /\ prop[q] = m /\ q \in Page
      /\ p \in Nat /\ c \in Nat /\ c >= 1 /\ p \in Page /\ prop[p] = c
      /\ base \in Nat /\ n \in Nat
  BY <1>1, <1>2, Positions, PageFacts, GiveFacts
<1>4. base < q /\ q + m < p
  BY <1>2 DEF InsertionPoint, Accepts, SortedAndMerged
<1>5. ~MergesNext(base, n, i) => base + n < p
  BY <1>0, <1>2, Neighbours
<1>6. AtPrev(base, n, i) = State(b, l, prop, fl) /\ prop[b] = k /\ prop \in [Page -> Nat]
  BY <1>1, <1>2
<1>7. CASE MergesNext(base, n, i)
  <2> DEFINE r == Grown(prop, b, q)
             f == Unmarked(fl, q)
  <2>1. /\ State(b, l, prop, fl).base = b /\ State(b, l, prop, fl).list = l
        /\ State(b, l, prop, fl).property = prop /\ State(b, l, prop, fl).flags = fl
    BY DEF State
  <2>2. AtNext(base, n, i) = State(b, Unlink(l, q), r, f)
    BY <2>1, <1>2, <1>6, <1>7 DEF AtNext
  <2>3. base + n = q
    BY <1>2, <1>7 DEF MergesNext
  <2>4. b # p
    BY <1>1, <1>3, <1>4
  <2>5. r[b] = k + m /\ r[p] = c
    BY <1>1, <1>3, <1>6, <2>4 DEF Grown
  <2> HIDE DEF r, f
  <2>6. b + r[b] # p /\ p + r[p] # b
    <3>1. b \in Nat /\ q \in Nat /\ p \in Nat /\ k \in Nat /\ m \in Nat /\ c \in Nat
          /\ base \in Nat /\ n \in Nat
      BY <1>1, <1>3
    <3>2. b <= base /\ b + k = base + n /\ base + n = q /\ base < q /\ q + m < p
      BY <1>1, <1>4, <2>3
    <3>3. b + (k + m) # p /\ p + c # b
      BY ONLY <3>1, <3>2
    <3> QED  BY <3>3, <2>5
  <2>7. Quiet(State(b, Unlink(l, q), r, f), p)
    BY <2>6 DEF Quiet, State
  <2>8. Absorb(State(b, Unlink(l, q), r, f), p) = State(b, Unlink(l, q), r, f)
    BY <2>7, AbsorbQuiet
  <2> QED  BY <2>2, <2>8, <1>2
<1>8. CASE ~MergesNext(base, n, i)
  <2>1. AtNext(base, n, i) = State(b, l, prop, fl)
    BY <1>6, <1>8 DEF AtNext
  <2>2. b + prop[b] # p /\ p + prop[p] # b
    BY <1>1, <1>3, <1>4, <1>5, <1>6, <1>8
  <2>3. Quiet(State(b, l, prop, fl), p)
    BY <2>2 DEF Quiet, State
  <2>4. Absorb(State(b, l, prop, fl), p) = State(b, l, prop, fl)
    BY <2>3, AbsorbQuiet
  <2> QED  BY <2>1, <2>4, <1>2
<1> QED  BY <1>7, <1>8

(* The loop ends in AtNext. *)
LEMMA LoopEnds ==
  ASSUME Inv, SortedAndMerged, NEW base, NEW n, Giving(base, n),
         NEW i \in 1..(Len(free_list) + 1), InsertionPoint(base, i)
  PROVE  Method1(base, n) = [AtNext(base, n, i) EXCEPT !.list = PutBack(@, AtNext(base, n, i).base)]
<1>1. PICK m \in Nat : m = Len(free_list)
  BY Positions
<1>2. PICK f : /\ Passes(f, Loop(base, n), free_list, m)
               /\ Method1(base, n) = [f[m] EXCEPT !.list = PutBack(@, f[m].base)]
  BY <1>1, Method1Is
<1>3. f[0] = Loop(base, n) /\ \A j \in 1..m : f[j] = Absorb(f[j - 1], free_list[j])
  BY <1>2 DEF Passes
<1>4. CASE i = 1
  <2>1. AtPrev(base, n, i) = Loop(base, n)
    BY <1>4 DEF AtPrev, MergesPrev
  <2> QED
    <3>1. CASE m = 0
      <4>1. AtNext(base, n, i) = Loop(base, n)
        BY <1>1, <1>4, <2>1, <3>1 DEF AtNext, MergesNext
      <4> QED  BY <4>1, <3>1, <1>2, <1>3
    <3>2. CASE m # 0
      <4>1. i \in 1..Len(free_list) /\ 1 \in 1..m /\ 1 \in 0..m /\ m \in 0..m /\ 1 <= m
        BY <1>1, <1>4, <3>2
      <4>2. f[1] = AtNext(base, n, i)
        BY <4>1, <1>3, <1>4, <2>1, NextStep
      <4>3. \A j \in 1..m : 1 < j /\ j <= m => Absorb(AtNext(base, n, i), free_list[j]) = AtNext(base, n, i)
        BY <4>1, <1>1, <1>4, NextQuiet
      <4>4. f[m] = AtNext(base, n, i)
        BY <4>1, <4>2, <4>3, <1>2, QuietPass
      <4> QED  BY <4>4, <1>2
    <3> QED  BY <3>1, <3>2
<1>5. CASE i > 1
  <2>1. /\ i - 1 \in 1..m /\ i - 2 \in 0..m /\ 0 \in 0..m /\ 0 <= i - 2 /\ i - 1 - 1 = i - 2
        /\ i \in Nat
    BY <1>1, <1>5
  <2>2. \A j \in 1..m : 0 < j /\ j <= i - 2 => Absorb(Loop(base, n), free_list[j]) = Loop(base, n)
    <3> SUFFICES ASSUME NEW j \in 1..m, j <= i - 2
                 PROVE  Absorb(Loop(base, n), free_list[j]) = Loop(base, n)
      OBVIOUS
    <3>1. j \in 1..Len(free_list) /\ j < i /\ j # i - 1
      BY <2>1, <1>1
    <3> QED  BY <3>1, LoopQuiet, AbsorbQuiet
  <2>3. f[i - 2] = Loop(base, n)
    <3>1. PICK o \in 0..m : o = i - 2 /\ 0 <= o
      BY <2>1
    <3>2. \A j \in 1..m : 0 < j /\ j <= o => Absorb(Loop(base, n), free_list[j]) = Loop(base, n)
      BY <2>2, <3>1
    <3>3. f[o] = Loop(base, n)
      BY <2>1, <3>1, <3>2, <1>2, <1>3, QuietPass
    <3> QED  BY <3>1, <3>3
  <2>4. f[i - 1] = AtPrev(base, n, i)
    BY <2>1, <2>3, <1>3, <1>5, PrevStep
  <2>5. CASE i = m + 1
    <3>1. AtNext(base, n, i) = AtPrev(base, n, i)
      BY <2>1, <2>5, <1>1 DEF AtNext, MergesNext
    <3>2. f[m] = AtNext(base, n, i)
      BY <2>4, <2>5, <3>1
    <3> QED  BY <3>2, <1>2
  <2>6. CASE i # m + 1
    <3>1. i \in 1..Len(free_list) /\ i \in 1..m /\ i \in 0..m /\ m \in 0..m /\ i <= m
      BY <2>6, <1>1
    <3>2. f[i] = AtNext(base, n, i)
      BY <3>1, <2>4, <1>3, NextStep
    <3>3. \A j \in 1..m : i < j /\ j <= m => Absorb(AtNext(base, n, i), free_list[j]) = AtNext(base, n, i)
      <4> SUFFICES ASSUME NEW j \in 1..m, i < j
                   PROVE  Absorb(AtNext(base, n, i), free_list[j]) = AtNext(base, n, i)
        OBVIOUS
      <4>1. j \in 1..Len(free_list) /\ i < j
        BY <3>1, <1>1
      <4> QED  BY <4>1, <3>1, NextQuiet
    <3>4. f[m] = AtNext(base, n, i)
      BY <3>1, <3>2, <3>3, <1>2, QuietPass
    <3> QED  BY <3>4, <1>2
  <2> QED  BY <2>5, <2>6
<1> QED  BY <1>4, <1>5

-----------------------------------------------------------------------------
(* The list, the sizes and the flags in the four cases.                    *)

LEMMA BaseUnmarked ==
  ASSUME NEW base \in Page, NEW n, base \in Run(base, n)
  PROVE  Unmarked([Cleared(base, n) EXCEPT ![base] = {"PG_property"}], base) = Cleared(base, n)
<1>1. Cleared(base, n)[base] = {}
  BY DEF Cleared
<1>2. \A p \in Page :
         Unmarked([Cleared(base, n) EXCEPT ![base] = {"PG_property"}], base)[p] = Cleared(base, n)[p]
  BY <1>1 DEF Unmarked, Cleared
<1> QED  BY <1>2 DEF Unmarked, Cleared

(* t is s with e before position i. *)
Longer(t, s, i, e) ==
    /\ t \in Seq(Page)
    /\ Len(t) = Len(s) + 1
    /\ \A j \in 1..(Len(s) + 1) : t[j] = IF j < i THEN s[j] ELSE IF j = i THEN e ELSE s[j - 1]

LEMMA InsertPage ==
  ASSUME NEW s \in Seq(Page), NEW i \in 1..(Len(s) + 1), NEW e \in Page
  PROVE  Longer(InsertAt(s, i, e), s, i, e)
  BY InsertAtIndex DEF Longer

(* A block that is taken off and put back is where it was. *)
LEMMA PutBackPrev ==
  ASSUME NEW s \in Seq(Page), NEW i \in 1..Len(s),
         \A j, k \in 1..Len(s) : j < k => s[j] < s[k]
  PROVE  PutBack(RemoveAt(s, i), s[i]) = s
<1>0. PICK m \in Nat : m = Len(s)
  OBVIOUS
<1>1. (\A j \in 1..m : s[j] \in Page) /\ i \in 1..m /\ i \in Nat
  BY <1>0
<1>2. PICK t : t = RemoveAt(s, i)
  OBVIOUS
<1>3. /\ t \in Seq(Page) /\ Len(t) = m - 1
      /\ \A j \in 1..(m - 1) : t[j] = IF j < i THEN s[j] ELSE s[j + 1]
  BY <1>0, <1>2, RemoveAtIndex
<1>4. i \in 1..(Len(t) + 1) /\ s[i] \in Page
  BY <1>1, <1>3
<1>5. ASSUME NEW j \in 1..Len(t)
      PROVE  (j < i => t[j] < s[i]) /\ (i <= j => s[i] < t[j])
  <2>1. j \in 1..(m - 1) /\ j \in 1..m /\ j + 1 \in 1..m
    BY <1>3
  <2>2. (j < i => s[j] < s[i]) /\ (i <= j => s[i] < s[j + 1])
    BY <2>1, <1>0, <1>1
  <2> QED  BY <2>1, <2>2, <1>3
<1>6. PutBack(t, s[i]) = InsertAt(t, i, s[i])
  BY <1>3, <1>4, <1>5, PutBackIs
<1>7. /\ InsertAt(t, i, s[i]) \in Seq(Page)
      /\ Len(InsertAt(t, i, s[i])) = m
      /\ \A j \in 1..m : InsertAt(t, i, s[i])[j] =
                            IF j < i THEN t[j] ELSE IF j = i THEN s[i] ELSE t[j - 1]
  <2>1. Longer(InsertAt(t, i, s[i]), t, i, s[i])
    BY <1>3, <1>4, InsertPage
  <2>2. Len(t) + 1 = m
    BY <1>3
  <2> QED  BY <2>1, <2>2 DEF Longer
<1>8. ASSUME NEW j \in 1..m PROVE InsertAt(t, i, s[i])[j] = s[j]
  <2>1. CASE j < i
    <3>1. j \in 1..(m - 1)
      BY <2>1, <1>1
    <3> QED  BY <2>1, <3>1, <1>3, <1>7
  <2>2. CASE j = i
    BY <2>2, <1>7
  <2>3. CASE j > i
    <3>1. j - 1 \in 1..(m - 1) /\ ~(j - 1 < i) /\ ~(j < i) /\ j # i /\ (j - 1) + 1 = j
      BY <2>3, <1>1
    <3> QED  BY <3>1, <1>3, <1>7
  <2> QED  BY <2>1, <2>2, <2>3, <1>1
<1> QED  BY <1>0, <1>2, <1>6, <1>7, <1>8, SeqEqual

(* A block that takes the place of the one at position i. *)
LEMMA PutBackNext ==
  ASSUME NEW s \in Seq(Page), NEW i \in 1..Len(s), NEW b \in Page,
         \A j \in 1..Len(s) : j < i => s[j] < b,
         \A j \in 1..Len(s) : i < j => b < s[j]
  PROVE  PutBack(RemoveAt(s, i), b) = ReplaceAt(s, i, b)
<1>0. PICK m \in Nat : m = Len(s)
  OBVIOUS
<1>1. i \in 1..m /\ i \in Nat
  BY <1>0
<1>2. PICK t : t = RemoveAt(s, i)
  OBVIOUS
<1>3. /\ t \in Seq(Page) /\ Len(t) = m - 1
      /\ \A j \in 1..(m - 1) : t[j] = IF j < i THEN s[j] ELSE s[j + 1]
  BY <1>0, <1>2, RemoveAtIndex
<1>4. i \in 1..(Len(t) + 1)
  BY <1>1, <1>3
<1>5. ASSUME NEW j \in 1..Len(t)
      PROVE  (j < i => t[j] < b) /\ (i <= j => b < t[j])
  <2>1. j \in 1..(m - 1) /\ j \in 1..m /\ j + 1 \in 1..m /\ (i <= j => i < j + 1)
    BY <1>1, <1>3
  <2> QED  BY <2>1, <1>0, <1>1, <1>3
<1>6. PutBack(t, b) = InsertAt(t, i, b)
  BY <1>3, <1>4, <1>5, PutBackIs
<1>7. /\ InsertAt(t, i, b) \in Seq(Page)
      /\ Len(InsertAt(t, i, b)) = m
      /\ \A j \in 1..m : InsertAt(t, i, b)[j] =
                            IF j < i THEN t[j] ELSE IF j = i THEN b ELSE t[j - 1]
  <2>1. Longer(InsertAt(t, i, b), t, i, b)
    BY <1>3, <1>4, InsertPage
  <2>2. Len(t) + 1 = m
    BY <1>3
  <2> QED  BY <2>1, <2>2 DEF Longer
<1>8. /\ ReplaceAt(s, i, b) \in Seq(Page) /\ Len(ReplaceAt(s, i, b)) = m
      /\ \A j \in 1..m : ReplaceAt(s, i, b)[j] = IF j = i THEN b ELSE s[j]
  <2>1. /\ ReplaceAt(s, i, b) \in Seq(Page) /\ Len(ReplaceAt(s, i, b)) = Len(s)
        /\ \A j \in 1..Len(s) : ReplaceAt(s, i, b)[j] = IF j = i THEN b ELSE s[j]
    BY ReplaceAtIndex
  <2> QED  BY <2>1, <1>0
<1>9. ASSUME NEW j \in 1..m PROVE InsertAt(t, i, b)[j] = ReplaceAt(s, i, b)[j]
  <2>1. CASE j < i
    <3>1. j \in 1..(m - 1) /\ j # i
      BY <2>1, <1>1
    <3> QED  BY <2>1, <3>1, <1>3, <1>7, <1>8
  <2>2. CASE j = i
    BY <2>2, <1>7, <1>8
  <2>3. CASE j > i
    <3>1. j - 1 \in 1..(m - 1) /\ ~(j - 1 < i) /\ ~(j < i) /\ j # i /\ (j - 1) + 1 = j
      BY <2>3, <1>1
    <3> QED  BY <3>1, <1>3, <1>7, <1>8
  <2> QED  BY <2>1, <2>2, <2>3, <1>1
<1> QED  BY <1>2, <1>6, <1>7, <1>8, <1>9, SeqEqual

Same(base, n) ==
    LET s == Method1(base, n)
    IN  free_list' = s.list /\ flags' = s.flags /\ property' = s.property

(* The list of blocks ascends, and so does the list without its holes. *)
LEMMA Ascends ==
  ASSUME Inv, SortedAndMerged
  PROVE  /\ free_list \in Seq(Page) /\ IsInjective(free_list)
         /\ \A j, k \in 1..Len(free_list) : j < k => free_list[j] < free_list[k]
<1>1. ASSUME NEW j \in 1..Len(free_list), NEW k \in 1..Len(free_list), j < k
      PROVE  free_list[j] < free_list[k]
  <2>0. PICK p, q, c : p = free_list[j] /\ q = free_list[k] /\ c = property[free_list[j]]
    OBVIOUS
  <2>1. p \in Nat /\ q \in Nat /\ c \in Nat /\ c >= 1
    BY <2>0, Positions
  <2>2. p + c < q
    BY <2>0, <1>1 DEF SortedAndMerged
  <2>3. p < q
    BY ONLY <2>1, <2>2
  <2> QED  BY <2>0, <2>3
<1> QED  BY <1>1 DEF Inv, TypeInv, ListInv

(* The blocks on either side of the insertion point. *)
LEMMA Sides ==
  ASSUME Inv, SortedAndMerged, NEW base, NEW n, Giving(base, n),
         NEW i \in 1..(Len(free_list) + 1), InsertionPoint(base, i)
  PROVE  /\ \A j \in 1..Len(free_list) : j < i => free_list[j] < base
         /\ \A j \in 1..Len(free_list) : i <= j => base < free_list[j]
<1>1. base \in Nat /\ n \in Nat /\ n >= 1
  BY GiveFacts
<1>2. ASSUME NEW j \in 1..Len(free_list)
      PROVE  (j < i => free_list[j] < base) /\ (i <= j => base < free_list[j])
  <2>0. PICK p, c : p = free_list[j] /\ c = property[free_list[j]]
    OBVIOUS
  <2>1. p \in Nat /\ c \in Nat /\ c >= 1
    BY <2>0, Positions
  <2>2. (j < i => p + c <= base) /\ (i <= j => base + n <= p)
    BY <2>0, Neighbours
  <2>3. (j < i => p < base) /\ (i <= j => base < p)
    BY ONLY <2>1, <2>2, <1>1
  <2> QED  BY <2>0, <2>3
<1> QED  BY <1>2

LEMMA AloneSame ==
  ASSUME Inv, SortedAndMerged, NEW base, NEW n, Giving(base, n),
         NEW i \in 1..(Len(free_list) + 1), InsertionPoint(base, i), InsertAlone(base, n, i)
  PROVE  Same(base, n)
<1>1. AtNext(base, n, i) = State(base, free_list, [property EXCEPT ![base] = n],
                                 [Cleared(base, n) EXCEPT ![base] = {"PG_property"}])
  BY LoopIs DEF InsertAlone, AtPrev, AtNext
<1>2. base \in Page
  BY GiveFacts
<1>3. PutBack(free_list, base) = InsertAt(free_list, i, base)
  BY <1>2, Ascends, Sides, PutBackIs
<1>4. Method1(base, n) = State(base, PutBack(free_list, base), [property EXCEPT ![base] = n],
                               [Cleared(base, n) EXCEPT ![base] = {"PG_property"}])
  BY <1>1, LoopEnds DEF State
<1> QED  BY <1>3, <1>4 DEF InsertAlone, State, Same

LEMMA PrevSame ==
  ASSUME Inv, SortedAndMerged, NEW base, NEW n, Giving(base, n),
         NEW i \in 1..(Len(free_list) + 1), InsertionPoint(base, i), MergePrev(base, n, i)
  PROVE  Same(base, n)
<1>0. PICK p, l, fl, prop :
         /\ p = free_list[i - 1] /\ l = Unlink(free_list, p)
         /\ fl = [Cleared(base, n) EXCEPT ![base] = {"PG_property"}]
         /\ prop = [property EXCEPT ![base] = n]
  OBVIOUS
<1>1. i - 1 \in 1..Len(free_list)
  BY Positions DEF MergePrev, MergesPrev
<1>2. base \in Page /\ p \in Page /\ base \in Run(base, n) /\ p # base /\ n \in Nat
  BY <1>0, <1>1, GiveFacts, Positions
<1>3. Loop(base, n).property = prop /\ Loop(base, n).flags = fl
  BY <1>0 DEF Loop
<1>4. AtNext(base, n, i) = State(p, l, Grown(prop, p, base), Unmarked(fl, base))
  BY <1>0, <1>3 DEF MergePrev, AtPrev, AtNext
<1>5. l = RemoveAt(free_list, i - 1)
  BY <1>0, <1>1, Ascends, UnlinkIs
<1>6. PutBack(l, p) = free_list
  BY <1>0, <1>1, <1>5, Ascends, PutBackPrev
<1>7. Unmarked(fl, base) = Cleared(base, n)
  BY <1>0, <1>2, BaseUnmarked
<1>8. Grown(prop, p, base) = [property EXCEPT ![base] = n, ![p] = @ + n]
  BY <1>0, <1>2 DEF Grown, Inv, TypeInv
<1>9. Method1(base, n) = State(p, PutBack(l, p), Grown(prop, p, base), Unmarked(fl, base))
  BY <1>4, LoopEnds DEF State
<1>10. /\ Method1(base, n).list = free_list
       /\ Method1(base, n).flags = Cleared(base, n)
       /\ Method1(base, n).property = [property EXCEPT ![base] = n, ![p] = @ + n]
  BY <1>6, <1>7, <1>8, <1>9 DEF State
<1> QED  BY <1>0, <1>10 DEF MergePrev, Same

LEMMA NextSame ==
  ASSUME Inv, SortedAndMerged, NEW base, NEW n, Giving(base, n),
         NEW i \in 1..(Len(free_list) + 1), InsertionPoint(base, i), MergeNext(base, n, i)
  PROVE  Same(base, n)
<1>0. PICK q, l, fl, prop :
         /\ q = free_list[i] /\ l = Unlink(free_list, q)
         /\ fl = [Cleared(base, n) EXCEPT ![base] = {"PG_property"}]
         /\ prop = [property EXCEPT ![base] = n]
  OBVIOUS
<1>1. i \in 1..Len(free_list)
  BY Positions DEF MergeNext, MergesNext
<1>2. base \in Page /\ q \in Page /\ base \in Run(base, n) /\ q # base /\ n \in Nat
  BY <1>0, <1>1, GiveFacts, Positions
<1>3. Loop(base, n) = State(base, free_list, prop, fl)
  BY <1>0, LoopIs
<1>4. AtNext(base, n, i) = State(base, l, Grown(prop, base, q), Unmarked(fl, q))
  <2>1. AtPrev(base, n, i) = State(base, free_list, prop, fl)
    BY <1>3 DEF MergeNext, AtPrev
  <2>2. /\ AtPrev(base, n, i).base = base /\ AtPrev(base, n, i).list = free_list
        /\ AtPrev(base, n, i).property = prop /\ AtPrev(base, n, i).flags = fl
    BY <2>1 DEF State
  <2> QED  BY <1>0, <2>2 DEF MergeNext, AtNext
<1>5. l = RemoveAt(free_list, i)
  BY <1>0, <1>1, Ascends, UnlinkIs
<1>6. PutBack(l, base) = ReplaceAt(free_list, i, base)
  <2>1. /\ \A j \in 1..Len(free_list) : j < i => free_list[j] < base
        /\ \A j \in 1..Len(free_list) : i < j => base < free_list[j]
    BY Sides, <1>1
  <2>2. free_list \in Seq(Page)
    BY Ascends
  <2> QED  BY <2>1, <2>2, <1>1, <1>2, <1>5, PutBackNext
<1>7. Grown(prop, base, q) = [property EXCEPT ![base] = n + property[q]]
  BY <1>0, <1>2 DEF Grown, Inv, TypeInv
<1>8. Method1(base, n) = State(base, PutBack(l, base), Grown(prop, base, q), Unmarked(fl, q))
  BY <1>4, LoopEnds DEF State
<1>9. Unmarked(fl, q) = [Cleared(base, n) EXCEPT ![base] = {"PG_property"}, ![q] = @ \ {"PG_property"}]
  BY <1>0, <1>2 DEF Unmarked, Cleared
<1>10. /\ Method1(base, n).list = ReplaceAt(free_list, i, base)
       /\ Method1(base, n).flags = [Cleared(base, n) EXCEPT ![base] = {"PG_property"},
                                                           ![q] = @ \ {"PG_property"}]
       /\ Method1(base, n).property = [property EXCEPT ![base] = n + property[q]]
  BY <1>6, <1>7, <1>8, <1>9 DEF State
<1> QED  BY <1>0, <1>10 DEF MergeNext, Same

LEMMA BothSame ==
  ASSUME Inv, SortedAndMerged, NEW base, NEW n, Giving(base, n),
         NEW i \in 1..(Len(free_list) + 1), InsertionPoint(base, i), MergeBoth(base, n, i)
  PROVE  Same(base, n)
<1>0. PICK p, q, l, fl, prop :
         /\ p = free_list[i - 1] /\ q = free_list[i] /\ l = Unlink(free_list, p)
         /\ fl = [Cleared(base, n) EXCEPT ![base] = {"PG_property"}]
         /\ prop = [property EXCEPT ![base] = n]
  OBVIOUS
<1>1. i - 1 \in 1..Len(free_list) /\ i \in 1..Len(free_list) /\ i - 1 < i /\ i - 1 # i
  BY Positions DEF MergeBoth, MergesPrev, MergesNext
<1>2. /\ base \in Page /\ p \in Page /\ q \in Page /\ base \in Run(base, n)
      /\ p # base /\ q # base /\ p # q /\ n \in Nat
  BY <1>0, <1>1, GiveFacts, Positions
<1>3. Loop(base, n).property = prop /\ Loop(base, n).flags = fl
  BY <1>0 DEF Loop
<1>4. AtNext(base, n, i) =
        State(p, Unlink(l, q), Grown(Grown(prop, p, base), p, q), Unmarked(Unmarked(fl, base), q))
  <2>1. AtPrev(base, n, i) = State(p, l, Grown(prop, p, base), Unmarked(fl, base))
    BY <1>0, <1>3 DEF MergeBoth, AtPrev
  <2>2. /\ AtPrev(base, n, i).base = p /\ AtPrev(base, n, i).list = l
        /\ AtPrev(base, n, i).property = Grown(prop, p, base)
        /\ AtPrev(base, n, i).flags = Unmarked(fl, base)
    BY <2>1 DEF State
  <2> QED  BY <1>0, <2>2 DEF MergeBoth, AtNext
<1>5. l = RemoveAt(free_list, i - 1)
  BY <1>0, <1>1, Ascends, UnlinkIs
(* Without p, the block q stands at i - 1, and what is left when it is     *)
(* off too is the list without q, without p.                               *)
<1>6. PutBack(Unlink(l, q), p) = RemoveAt(free_list, i)
  <2>0. PICK m, t : m \in Nat /\ m = Len(free_list) /\ t = RemoveAt(free_list, i)
    BY Positions
  <2>1. i - 1 \in 1..m /\ i \in 1..m /\ i \in Nat /\ m \in Nat
    BY <2>0, <1>1
  <2>2. l \in Seq(Page) /\ Len(l) = m - 1 /\ IsInjective(l)
        /\ \A j \in 1..(m - 1) : l[j] = IF j < i - 1 THEN free_list[j] ELSE free_list[j + 1]
    <3>1. free_list \in Seq(Page) /\ IsInjective(free_list)
      BY Ascends
    <3>2. IsInjective(l)
      BY <3>1, <1>1, <1>5, RemoveAtSet
    <3>3. /\ l \in Seq(Page) /\ Len(l) = Len(free_list) - 1
          /\ \A j \in 1..(Len(free_list) - 1) : l[j] = IF j < i - 1 THEN free_list[j] ELSE free_list[j + 1]
      BY <3>1, <1>1, <1>5, RemoveAtIndex
    <3> QED  BY <3>2, <3>3, <2>0
  <2>3. t \in Seq(Page) /\ Len(t) = m - 1
        /\ \A j \in 1..(m - 1) : t[j] = IF j < i THEN free_list[j] ELSE free_list[j + 1]
    <3>1. free_list \in Seq(Page)
      BY Ascends
    <3>2. /\ RemoveAt(free_list, i) \in Seq(Page) /\ Len(RemoveAt(free_list, i)) = Len(free_list) - 1
          /\ \A j \in 1..(Len(free_list) - 1) :
                RemoveAt(free_list, i)[j] = IF j < i THEN free_list[j] ELSE free_list[j + 1]
      BY <3>1, <1>1, RemoveAtIndex
    <3> QED  BY <3>2, <2>0
  <2>4. i - 1 \in 1..Len(l) /\ l[i - 1] = q
    <3>1. i - 1 \in 1..(m - 1) /\ ~(i - 1 < i - 1) /\ (i - 1) + 1 = i
      BY <2>1
    <3> QED  BY <3>1, <2>2, <1>0
  <2>5. Unlink(l, q) = RemoveAt(l, i - 1)
    BY <2>2, <2>4, UnlinkIs
  <2>6. t[i - 1] = p /\ i - 1 \in 1..Len(t)
    <3>1. i - 1 \in 1..(m - 1) /\ i - 1 < i
      BY <2>1, <2>4, <2>2
    <3> QED  BY <3>1, <2>3, <1>0
  <2>7. RemoveAt(l, i - 1) = RemoveAt(t, i - 1)
    <3>1. /\ RemoveAt(l, i - 1) \in Seq(Page) /\ Len(RemoveAt(l, i - 1)) = Len(l) - 1
          /\ \A j \in 1..(Len(l) - 1) :
                RemoveAt(l, i - 1)[j] = IF j < i - 1 THEN l[j] ELSE l[j + 1]
      BY <2>2, <2>4, RemoveAtIndex
    <3>2. /\ RemoveAt(t, i - 1) \in Seq(Page) /\ Len(RemoveAt(t, i - 1)) = Len(t) - 1
          /\ \A j \in 1..(Len(t) - 1) :
                RemoveAt(t, i - 1)[j] = IF j < i - 1 THEN t[j] ELSE t[j + 1]
      BY <2>3, <2>6, RemoveAtIndex
    <3>3. ASSUME NEW j \in 1..(m - 2) PROVE RemoveAt(l, i - 1)[j] = RemoveAt(t, i - 1)[j]
      <4>1. j \in 1..(m - 1) /\ j + 1 \in 1..(m - 1) /\ (m - 1) - 1 = m - 2 /\ (j < i - 1 => j < i)
        BY <2>1
      <4>2. CASE j < i - 1
        <5>1. RemoveAt(l, i - 1)[j] = l[j] /\ RemoveAt(t, i - 1)[j] = t[j]
          BY <4>1, <4>2, <3>1, <3>2, <2>2, <2>3
        <5>2. l[j] = free_list[j] /\ t[j] = free_list[j]
          BY <4>1, <4>2, <2>2, <2>3
        <5> QED  BY <5>1, <5>2
      <4>3. CASE ~(j < i - 1)
        <5>1. RemoveAt(l, i - 1)[j] = l[j + 1] /\ RemoveAt(t, i - 1)[j] = t[j + 1]
          BY <4>1, <4>3, <3>1, <3>2, <2>2, <2>3
        <5>2. ~(j + 1 < i - 1) /\ ~(j + 1 < i)
          BY <4>3, <2>1
        <5>3. l[j + 1] = free_list[(j + 1) + 1] /\ t[j + 1] = free_list[(j + 1) + 1]
          BY <5>2, <4>1, <2>2, <2>3
        <5> QED  BY <5>1, <5>3
      <4> QED  BY <4>2, <4>3
    <3>4. Len(RemoveAt(l, i - 1)) = m - 2 /\ Len(RemoveAt(t, i - 1)) = m - 2
      BY <3>1, <3>2, <2>1, <2>2, <2>3
    <3> QED  BY <3>1, <3>2, <3>3, <3>4, SeqEqual
  <2>8. \A j, k \in 1..Len(t) : j < k => t[j] < t[k]
    <3> SUFFICES ASSUME NEW j \in 1..(m - 1), NEW k \in 1..(m - 1), j < k PROVE t[j] < t[k]
      BY <2>3
    <3>1. /\ j \in 1..m /\ j + 1 \in 1..m /\ k \in 1..m /\ k + 1 \in 1..m
          /\ j < k + 1 /\ j + 1 < k + 1 /\ (k < i => j < i)
      BY <2>0, <2>1
    <3> QED  BY <3>1, <2>0, <2>3, Ascends
  <2>9. PutBack(RemoveAt(t, i - 1), t[i - 1]) = t
    BY <2>3, <2>6, <2>8, PutBackPrev
  <2> QED  BY <2>0, <2>5, <2>6, <2>7, <2>9
<1>7. Unmarked(fl, base) = Cleared(base, n)
  BY <1>0, <1>2, BaseUnmarked
<1>8. Grown(Grown(prop, p, base), p, q) =
         [property EXCEPT ![base] = n, ![p] = @ + n + property[q]]
  <2>1. property \in [Page -> 0..NPage] /\ property[p] \in Nat /\ property[q] \in Nat
    BY <1>0, <1>1, Positions DEF Inv, TypeInv
  <2>2. Grown(prop, p, base) = [property EXCEPT ![base] = n, ![p] = @ + n]
    BY <1>0, <1>2, <2>1 DEF Grown
  <2> QED  BY <2>1, <2>2, <1>2 DEF Grown
<1>9. Method1(base, n) =
        State(p, PutBack(Unlink(l, q), p), Grown(Grown(prop, p, base), p, q),
              Unmarked(Unmarked(fl, base), q))
  BY <1>4, LoopEnds DEF State
<1>10. /\ Method1(base, n).list = RemoveAt(free_list, i)
       /\ Method1(base, n).flags = [Cleared(base, n) EXCEPT ![q] = @ \ {"PG_property"}]
       /\ Method1(base, n).property = [property EXCEPT ![base] = n, ![p] = @ + n + property[q]]
  <2>1. Method1(base, n).flags = Unmarked(Cleared(base, n), q)
    BY <1>7, <1>9 DEF State
  <2>2. Method1(base, n).list = RemoveAt(free_list, i)
    BY <1>6, <1>9 DEF State
  <2>3. Method1(base, n).property = Grown(Grown(prop, p, base), p, q)
    BY <1>9 DEF State
  <2> QED  BY <2>1, <2>2, <2>3, <1>8 DEF Unmarked
<1> QED  BY <1>0, <1>10 DEF MergeBoth, Same

LEMMA SameStep ==
  ASSUME Inv, SortedAndMerged, [Next]_vars, NEW base \in Page, NEW n \in 1..NPage, Free(base, n)
  PROVE  Same(base, n)
<1>1. PICK i \in 1..(Len(free_list) + 1) :
         /\ InsertionPoint(base, i)
         /\ \/ MergeBoth(base, n, i) \/ MergePrev(base, n, i)
            \/ MergeNext(base, n, i) \/ InsertAlone(base, n, i)
  BY DEF Free
<1>2. nr_free' = nr_free + n
  BY <1>1 DEF MergeBoth, MergePrev, MergeNext, InsertAlone
<1>3. UNCHANGED zone
  <2>1. base \in Run(base, n) /\ base \in held /\ base \notin held'
    <3>1. base \in Nat /\ n \in Nat /\ n >= 1
      BY PageFacts, NPageAssumption
    <3>2. base \in Run(base, n)
      BY <3>1, PageFacts
    <3> QED  BY <3>2 DEF Free
  <2> QED  BY <2>1 DEF Next, NextZone, vars
<1>4. Giving(base, n)
  BY <1>2, <1>3 DEF Free, Giving
<1> QED  BY <1>1, <1>4, AloneSame, PrevSame, NextSame, BothSame

(* The two versions of free_pages have the same effect.                    *)
THEOREM MethodsTheorem == ZonesDescending => (Spec => MethodsAgree)
<1> SUFFICES ASSUME ZonesDescending PROVE Spec => MethodsAgree
  OBVIOUS
<1>1. Spec => []SortedAndMerged
  BY SortedTheorem
<1>2. Inv /\ SortedAndMerged /\ [Next]_vars =>
        [\A base \in Page, n \in 1..NPage :
          Free(base, n) =>
              LET s == Method1(base, n) IN
                  /\ free_list' = s.list
                  /\ flags' = s.flags
                  /\ property' = s.property]_vars
  BY SameStep DEF Same
<1> QED  BY <1>1, <1>2, Invariance, PTL DEF Spec, MethodsAgree
=============================================================================

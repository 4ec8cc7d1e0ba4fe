----------------------------- MODULE SeqLemmas -----------------------------
(***************************************************************************)
(* What the list updates of the allocator models do, position by position. *)
(* InsertAt and RemoveAt are the sequence view of list_add_before and      *)
(* list_del in libs/list.h; the proofs about the free list only ever use   *)
(* the pointwise facts below.                                              *)
(***************************************************************************)
EXTENDS Integers, Sequences, SequencesExt, SequenceTheorems, WellFoundedInduction, TLAPS

(* A non-empty set of naturals has a least element: where a scan stops. *)
LEMMA LeastNatural ==
  ASSUME NEW S \in SUBSET Nat, S # {}
  PROVE  \E m \in S : \A k \in S : m <= k
<1> DEFINE R == {ss \in Nat \X Nat : ss[1] < ss[2]}
<1>1. IsWellFoundedOn(R, Nat)
  BY NatLessThanWellFounded DEF OpToRel
<1>2. PICK m \in S : \A k \in S : ~(<<k, m>> \in R)
  BY <1>1, WFMin
<1>3. ASSUME NEW k \in S PROVE m <= k
  <2>1. ~(k < m)
    BY <1>2
  <2> QED  BY <2>1
<1> QED  BY <1>3

(* Inserting e before position i shifts the later elements up by one. *)
LEMMA InsertAtIndex ==
  ASSUME NEW S, NEW s \in Seq(S), NEW i \in 1..(Len(s) + 1), NEW e \in S
  PROVE  /\ InsertAt(s, i, e) \in Seq(S)
         /\ Len(InsertAt(s, i, e)) = Len(s) + 1
         /\ \A j \in 1..(Len(s) + 1) :
               InsertAt(s, i, e)[j] = IF j < i THEN s[j]
                                      ELSE IF j = i THEN e ELSE s[j - 1]
<1> DEFINE a == SubSeq(s, 1, i - 1)
           b == SubSeq(s, i, Len(s))
           c == a \o <<e>>
<1>0. Len(s) \in Nat /\ i \in Nat
  OBVIOUS
<1>1. a \in Seq(S) /\ Len(a) = i - 1 /\ \A j \in 1..(i - 1) : a[j] = s[j]
  OBVIOUS
<1>2. /\ b \in Seq(S) /\ Len(b) = Len(s) - i + 1
      /\ \A j \in 1..(Len(s) - i + 1) : b[j] = s[j + i - 1]
  OBVIOUS
<1>3. InsertAt(s, i, e) = c \o b
  BY DEF InsertAt
<1> HIDE DEF a, b
<1>4. /\ c \in Seq(S) /\ Len(c) = i
      /\ \A j \in 1..i : c[j] = IF j = i THEN e ELSE s[j]
  BY <1>1
<1> HIDE DEF c
<1>5. c \o b \in Seq(S) /\ Len(c \o b) = Len(s) + 1
  <2>1. c \o b \in Seq(S) /\ Len(c \o b) = Len(c) + Len(b)
    BY <1>2, <1>4, ConcatProperties
  <2> QED  BY <2>1, <1>0, <1>2, <1>4
<1>6. ASSUME NEW j \in 1..(Len(s) + 1)
      PROVE  (c \o b)[j] = IF j < i THEN s[j] ELSE IF j = i THEN e ELSE s[j - 1]
  <2>0. j \in Nat /\ j \in 1..(Len(c) + Len(b))
    BY <1>0, <1>2, <1>4
  <2>1. (c \o b)[j] = IF j <= Len(c) THEN c[j] ELSE b[j - Len(c)]
    BY <1>2, <1>4, <2>0, ConcatProperties
  <2>2. CASE j <= i
    BY <2>0, <2>1, <2>2, <1>0, <1>4
  <2>3. CASE i < j
    <3>1. j - i \in 1..(Len(s) - i + 1)
      BY <2>3, <1>0
    <3>2. b[j - i] = s[(j - i) + i - 1]
      BY <3>1, <1>2
    <3>3. (j - i) + i - 1 = j - 1
      BY <1>0, <2>0
    <3>4. (c \o b)[j] = s[j - 1]
      BY <3>2, <3>3, <2>1, <2>3, <1>0, <1>4, <2>0
    <3> QED  BY <3>4, <2>3, <1>0, <2>0
  <2> QED  BY <2>2, <2>3, <2>0, <1>0
<1> QED  BY <1>3, <1>5, <1>6

(* Removing position i shifts the later elements down by one. *)
LEMMA RemoveAtIndex ==
  ASSUME NEW S, NEW s \in Seq(S), NEW i \in 1..Len(s)
  PROVE  /\ RemoveAt(s, i) \in Seq(S)
         /\ Len(RemoveAt(s, i)) = Len(s) - 1
         /\ \A j \in 1..(Len(s) - 1) :
               RemoveAt(s, i)[j] = IF j < i THEN s[j] ELSE s[j + 1]
<1> DEFINE a == SubSeq(s, 1, i - 1)
           b == SubSeq(s, i + 1, Len(s))
<1>0. Len(s) \in Nat /\ i \in Nat
  OBVIOUS
<1>1. a \in Seq(S) /\ Len(a) = i - 1 /\ \A j \in 1..(i - 1) : a[j] = s[j]
  OBVIOUS
<1>2. /\ b \in Seq(S) /\ Len(b) = Len(s) - i
      /\ \A j \in 1..(Len(s) - i) : b[j] = s[j + i]
  OBVIOUS
<1>3. RemoveAt(s, i) = a \o b
  BY DEF RemoveAt
<1> HIDE DEF a, b
<1>4. a \o b \in Seq(S) /\ Len(a \o b) = Len(s) - 1
  <2>1. a \o b \in Seq(S) /\ Len(a \o b) = Len(a) + Len(b)
    BY <1>1, <1>2, ConcatProperties
  <2> QED  BY <2>1, <1>0, <1>1, <1>2
<1>5. ASSUME NEW j \in 1..(Len(s) - 1)
      PROVE  (a \o b)[j] = IF j < i THEN s[j] ELSE s[j + 1]
  <2>0. j \in Nat /\ j \in 1..(Len(a) + Len(b))
    BY <1>0, <1>1, <1>2
  <2>1. (a \o b)[j] = IF j <= Len(a) THEN a[j] ELSE b[j - Len(a)]
    BY <1>1, <1>2, <2>0, ConcatProperties
  <2>2. CASE j < i
    BY <2>0, <2>1, <2>2, <1>0, <1>1
  <2>3. CASE i <= j
    <3>1. j - (i - 1) \in 1..(Len(s) - i)
      BY <2>3, <1>0
    <3>2. b[j - (i - 1)] = s[(j - (i - 1)) + i]
      BY <3>1, <1>2
    <3>3. (j - (i - 1)) + i = j + 1
      BY <1>0, <2>0
    <3>4. (a \o b)[j] = s[j + 1]
      BY <3>2, <3>3, <2>1, <2>3, <1>0, <1>1, <2>0
    <3> QED  BY <3>4, <2>3, <1>0, <2>0
  <2> QED  BY <2>2, <2>3, <2>0, <1>0
<1> QED  BY <1>3, <1>4, <1>5

(* Overwriting position i leaves the other positions alone. *)
LEMMA ReplaceAtIndex ==
  ASSUME NEW S, NEW s \in Seq(S), NEW i \in 1..Len(s), NEW e \in S
  PROVE  /\ ReplaceAt(s, i, e) \in Seq(S)
         /\ Len(ReplaceAt(s, i, e)) = Len(s)
         /\ \A j \in 1..Len(s) :
               ReplaceAt(s, i, e)[j] = IF j = i THEN e ELSE s[j]
  BY DEF ReplaceAt

(* Two elements that remain keep their order. *)
LEMMA RemoveAtOrder ==
  ASSUME NEW S, NEW s \in Seq(S), NEW i \in 1..Len(s)
  PROVE  \A j, k \in 1..Len(RemoveAt(s, i)) : j < k =>
            \E l, m \in 1..Len(s) :
               /\ l < m /\ l # i /\ m # i
               /\ RemoveAt(s, i)[j] = s[l] /\ RemoveAt(s, i)[k] = s[m]
<1> SUFFICES ASSUME NEW j \in 1..Len(RemoveAt(s, i)), NEW k \in 1..Len(RemoveAt(s, i)), j < k
             PROVE  \E l, m \in 1..Len(s) :
                       /\ l < m /\ l # i /\ m # i
                       /\ RemoveAt(s, i)[j] = s[l] /\ RemoveAt(s, i)[k] = s[m]
  OBVIOUS
<1>1. /\ Len(s) \in Nat /\ i \in Nat /\ j \in 1..(Len(s) - 1) /\ k \in 1..(Len(s) - 1)
      /\ RemoveAt(s, i)[j] = IF j < i THEN s[j] ELSE s[j + 1]
      /\ RemoveAt(s, i)[k] = IF k < i THEN s[k] ELSE s[k + 1]
  <2>1. /\ Len(RemoveAt(s, i)) = Len(s) - 1
        /\ \A q \in 1..(Len(s) - 1) :
              RemoveAt(s, i)[q] = IF q < i THEN s[q] ELSE s[q + 1]
    BY RemoveAtIndex
  <2>2. j \in 1..(Len(s) - 1) /\ k \in 1..(Len(s) - 1)
    BY <2>1
  <2>3. Len(s) \in Nat /\ i \in Nat
    OBVIOUS
  <2> QED  BY <2>1, <2>2, <2>3
<1>2. PICK l : l = IF j < i THEN j ELSE j + 1
  OBVIOUS
<1>3. PICK m : m = IF k < i THEN k ELSE k + 1
  OBVIOUS
<1>4. l \in 1..Len(s) /\ l # i /\ RemoveAt(s, i)[j] = s[l]
  BY <1>1, <1>2
<1>5. m \in 1..Len(s) /\ m # i /\ RemoveAt(s, i)[k] = s[m]
  BY <1>1, <1>3
<1>6. l < m
  BY <1>1, <1>2, <1>3
<1> QED  BY <1>4, <1>5, <1>6

-----------------------------------------------------------------------------
(* The same updates seen as updates of the set of elements of a list       *)
(* without repetitions.                                                    *)

LEMMA ToSetIndex ==
  ASSUME NEW S, NEW s \in Seq(S)
  PROVE  /\ ToSet(s) \subseteq S
         /\ \A i \in 1..Len(s) : s[i] \in ToSet(s) /\ s[i] \in S
         /\ \A x \in ToSet(s) : \E i \in 1..Len(s) : s[i] = x
  BY DEF ToSet

LEMMA InsertAtSet ==
  ASSUME NEW S, NEW s \in Seq(S), IsInjective(s),
         NEW i \in 1..(Len(s) + 1), NEW e \in S, e \notin ToSet(s)
  PROVE  /\ ToSet(InsertAt(s, i, e)) = ToSet(s) \cup {e}
         /\ IsInjective(InsertAt(s, i, e))
<1>0. Len(s) \in Nat /\ i \in Nat
  OBVIOUS
<1>1. PICK t : /\ t = InsertAt(s, i, e)
               /\ t \in Seq(S)
               /\ Len(t) = Len(s) + 1
               /\ \A j \in 1..(Len(s) + 1) :
                     t[j] = IF j < i THEN s[j] ELSE IF j = i THEN e ELSE s[j - 1]
  <2>1. /\ InsertAt(s, i, e) \in Seq(S)
        /\ Len(InsertAt(s, i, e)) = Len(s) + 1
        /\ \A j \in 1..(Len(s) + 1) :
              InsertAt(s, i, e)[j] = IF j < i THEN s[j]
                                     ELSE IF j = i THEN e ELSE s[j - 1]
    BY InsertAtIndex
  <2> QED  BY <2>1
<1>2. ASSUME NEW j \in 1..Len(t) PROVE t[j] \in ToSet(s) \cup {e}
  <2>1. j \in Nat /\ (j < i => j \in 1..Len(s)) /\ (j > i => j - 1 \in 1..Len(s))
    BY <1>0, <1>1
  <2>2. CASE j < i
    BY <2>1, <2>2, <1>0, <1>1, ToSetIndex
  <2>3. CASE j = i
    BY <2>3, <1>0, <1>1
  <2>4. CASE j > i
    <3>1. t[j] = s[j - 1]
      BY <2>1, <2>4, <1>0, <1>1
    <3> QED  BY <2>1, <2>4, <3>1, ToSetIndex
  <2> QED  BY <2>1, <2>2, <2>3, <2>4, <1>0
<1>3. ASSUME NEW x \in ToSet(s) \cup {e} PROVE \E j \in 1..Len(t) : t[j] = x
  <2>1. CASE x = e
    BY <2>1, <1>0, <1>1
  <2>2. CASE x \in ToSet(s)
    <3>1. PICK k \in 1..Len(s) : s[k] = x
      BY <2>2, ToSetIndex
    <3>2. CASE k < i
      BY <3>1, <3>2, <1>0, <1>1
    <3>3. CASE k >= i
      <4>1. k + 1 \in 1..(Len(s) + 1) /\ k + 1 > i /\ (k + 1) - 1 = k
        BY <3>3, <1>0
      <4>2. t[k + 1] = s[k]
        BY <4>1, <1>0, <1>1
      <4> QED  BY <4>1, <4>2, <3>1, <1>1
    <3> QED  BY <3>2, <3>3, <1>0
  <2> QED  BY <2>1, <2>2
<1>4. ToSet(t) = ToSet(s) \cup {e}
  <2>1. ASSUME NEW x \in ToSet(t) PROVE x \in ToSet(s) \cup {e}
    <3>1. PICK j \in 1..Len(t) : t[j] = x
      BY <1>1, ToSetIndex
    <3> QED  BY <3>1, <1>2
  <2>2. ASSUME NEW x \in ToSet(s) \cup {e} PROVE x \in ToSet(t)
    <3>1. PICK j \in 1..Len(t) : t[j] = x
      BY <1>3
    <3> QED  BY <3>1, <1>1, ToSetIndex
  <2> QED  BY <2>1, <2>2
<1>5. ASSUME NEW j \in 1..Len(t), NEW k \in 1..Len(t), j < k PROVE t[j] # t[k]
  <2> DEFINE j0 == IF j < i THEN j ELSE j - 1
             k0 == IF k < i THEN k ELSE k - 1
  <2>1. /\ j # i => j0 \in 1..Len(s) /\ t[j] = s[j0]
        /\ k # i => k0 \in 1..Len(s) /\ t[k] = s[k0]
        /\ j # i /\ k # i => j0 # k0
        /\ j = i => t[j] = e
        /\ k = i => t[k] = e
    BY <1>0, <1>1, <1>5
  <2> HIDE DEF j0, k0
  <2>2. s \in [1..Len(s) -> S]
    OBVIOUS
  <2>3. CASE j # i /\ k # i
    BY <2>1, <2>2, <2>3 DEF IsInjective
  <2>4. CASE j = i
    BY <2>1, <2>4, <1>5, ToSetIndex
  <2>5. CASE k = i
    BY <2>1, <2>5, <1>5, ToSetIndex
  <2> QED  BY <2>3, <2>4, <2>5
<1>6. IsInjective(t)
  BY <1>0, <1>1, <1>5 DEF IsInjective
<1> QED  BY <1>1, <1>4, <1>6

LEMMA RemoveAtSet ==
  ASSUME NEW S, NEW s \in Seq(S), IsInjective(s), NEW i \in 1..Len(s)
  PROVE  /\ ToSet(RemoveAt(s, i)) = ToSet(s) \ {s[i]}
         /\ IsInjective(RemoveAt(s, i))
<1> DEFINE t == RemoveAt(s, i)
<1>0. Len(s) \in Nat /\ i \in Nat /\ s \in [1..Len(s) -> S]
  OBVIOUS
<1>1. /\ t \in Seq(S)
      /\ Len(t) = Len(s) - 1
      /\ \A j \in 1..(Len(s) - 1) : t[j] = IF j < i THEN s[j] ELSE s[j + 1]
  BY RemoveAtIndex
<1> HIDE DEF t
<1>2. ASSUME NEW j \in 1..Len(t)
      PROVE  \E k \in 1..Len(s) : k # i /\ t[j] = s[k] /\ k = (IF j < i THEN j ELSE j + 1)
  BY <1>0, <1>1
<1>3. ASSUME NEW k \in 1..Len(s), k # i PROVE \E j \in 1..Len(t) : t[j] = s[k]
  <2>1. CASE k < i
    BY <2>1, <1>0, <1>1
  <2>2. CASE k > i
    <3>1. k - 1 \in 1..(Len(s) - 1) /\ ~(k - 1 < i) /\ (k - 1) + 1 = k
      BY <2>2, <1>0
    <3>2. t[k - 1] = s[k]
      BY <3>1, <1>1
    <3> QED  BY <3>1, <3>2, <1>1
  <2> QED  BY <2>1, <2>2, <1>0, <1>3
<1>4. ToSet(t) = ToSet(s) \ {s[i]}
  <2>1. \A x \in ToSet(t) : x \in ToSet(s) \ {s[i]}
    <3>1. SUFFICES ASSUME NEW x \in ToSet(t) PROVE x \in ToSet(s) /\ x # s[i]
      OBVIOUS
    <3>2. PICK j \in 1..Len(t) : t[j] = x
      BY <1>1, ToSetIndex
    <3>3. PICK k \in 1..Len(s) : k # i /\ x = s[k]
      BY <3>2, <1>2
    <3> QED  BY <3>3, <1>0, ToSetIndex DEF IsInjective
  <2>2. \A x \in ToSet(s) \ {s[i]} : x \in ToSet(t)
    <3>1. SUFFICES ASSUME NEW x \in ToSet(s), x # s[i] PROVE x \in ToSet(t)
      OBVIOUS
    <3>2. PICK k \in 1..Len(s) : s[k] = x
      BY ToSetIndex
    <3>3. PICK j \in 1..Len(t) : t[j] = x
      BY <3>1, <3>2, <1>3
    <3> QED  BY <3>3, <1>1, ToSetIndex
  <2> QED  BY <2>1, <2>2
<1>5. ASSUME NEW j \in 1..Len(t), NEW k \in 1..Len(t), j # k PROVE t[j] # t[k]
  BY <1>0, <1>2, <1>5 DEF IsInjective
<1>6. IsInjective(t)
  BY <1>0, <1>1, <1>5 DEF IsInjective
<1> QED  BY <1>4, <1>6 DEF t

LEMMA ReplaceAtSet ==
  ASSUME NEW S, NEW s \in Seq(S), IsInjective(s), NEW i \in 1..Len(s),
         NEW e \in S, e \notin ToSet(s)
  PROVE  /\ ToSet(ReplaceAt(s, i, e)) = (ToSet(s) \ {s[i]}) \cup {e}
         /\ IsInjective(ReplaceAt(s, i, e))
<1>0. Len(s) \in Nat /\ i \in Nat /\ s \in [1..Len(s) -> S]
  OBVIOUS
<1>1. PICK t : /\ t = ReplaceAt(s, i, e)
               /\ t \in Seq(S)
               /\ Len(t) = Len(s)
               /\ \A j \in 1..Len(s) : t[j] = IF j = i THEN e ELSE s[j]
  <2>1. /\ ReplaceAt(s, i, e) \in Seq(S)
        /\ Len(ReplaceAt(s, i, e)) = Len(s)
        /\ \A j \in 1..Len(s) : ReplaceAt(s, i, e)[j] = IF j = i THEN e ELSE s[j]
    BY ReplaceAtIndex
  <2> QED  BY <2>1
<1>2. \A j \in 1..Len(s) : j # i => s[j] # s[i]
  BY <1>0 DEF IsInjective
<1>3. ToSet(t) = (ToSet(s) \ {s[i]}) \cup {e}
  BY <1>0, <1>1, <1>2, ToSetIndex
<1>4. IsInjective(t)
  <2>1. ASSUME NEW j \in 1..Len(t), NEW k \in 1..Len(t), j # k PROVE t[j] # t[k]
    <3>1. s[j] # s[k]
      BY <1>0, <1>1, <2>1 DEF IsInjective
    <3>2. s[j] # e /\ s[k] # e
      BY <1>0, <1>1, ToSetIndex
    <3> QED  BY <1>1, <2>1, <3>1, <3>2
  <2> QED  BY <1>0, <1>1, <2>1 DEF IsInjective
<1> QED  BY <1>1, <1>3, <1>4
=============================================================================

---------------------------- MODULE BuddyPmmProof ----------------------------
(***************************************************************************)
(* Proofs about the buddy system for every number of pages, every size of  *)
(* the trees and every list of regions.                                    *)
(*                                                                         *)
(* The invariant names what longest only encodes: the set A of the         *)
(* allocated nodes of a tree, those of the blocks that callers hold and    *)
(* the node cut off its right end. No node of A is inside another, and A   *)
(* determines the whole array (Shape). buddy_alloc_pages adds a node to A  *)
(* (TakenShape) and buddy_free_pages removes one (GivenShape); what the    *)
(* properties say of longest and of pages follows from A. Sums, recursions *)
(* and arguments along a branch are by the least number, or the least or   *)
(* greatest node, at which they fail.                                      *)
(***************************************************************************)
EXTENDS BuddyPmm, SeqLemmas, FiniteSetTheorems, TLAPS

-----------------------------------------------------------------------------
(* Powers of two                                                           *)

(* The recursion of Power has a solution: no number n up to NPage is the   *)
(* least one at which it fails.                                            *)
LEMMA PowerExists ==
  \E f \in [0..NPage -> Nat] : f = [k \in 0..NPage |-> IF k = 0 THEN 1 ELSE 2 * f[k - 1]]
<1> DEFINE UpTo(n, f) == /\ f \in [0..NPage -> Nat]
                         /\ \A k \in 0..n : f[k] = IF k = 0 THEN 1 ELSE 2 * f[k - 1]
           Bad == {n \in 0..NPage : ~ \E f : UpTo(n, f)}
<1>1. NPage \in Nat
  BY BuddyAssumption
<1>2. Bad = {}
  <2>1. SUFFICES ASSUME Bad # {} PROVE FALSE
    OBVIOUS
  <2>2. PICK m \in Bad : \A k \in Bad : m <= k
    <3>1. Bad \in SUBSET Nat
      BY <1>1
    <3> HIDE DEF Bad
    <3> QED  BY <2>1, <3>1, LeastNatural
  <2>3. CASE m = 0
    <3>1. UpTo(0, [k \in 0..NPage |-> 1])
      BY <1>1
    <3> QED  BY <2>3, <3>1
  <2>4. CASE m # 0
    <3>1. m \in 1..NPage /\ m - 1 \in 0..NPage /\ m - 1 \notin Bad
      <4>1. m \in 1..NPage /\ m - 1 \in 0..NPage /\ ~(m <= m - 1)
        BY <1>1, <2>2, <2>4
      <4> HIDE DEF Bad
      <4> QED  BY <4>1, <2>2
    <3>2. PICK f : UpTo(m - 1, f)
      BY <3>1
    <3>3. UpTo(m, [f EXCEPT ![m] = 2 * f[m - 1]])
      <4>1. [f EXCEPT ![m] = 2 * f[m - 1]] \in [0..NPage -> Nat]
        BY <3>1, <3>2
      <4>2. ASSUME NEW k \in 0..m
            PROVE  [f EXCEPT ![m] = 2 * f[m - 1]][k] =
                      IF k = 0 THEN 1 ELSE 2 * [f EXCEPT ![m] = 2 * f[m - 1]][k - 1]
        <5>1. CASE k = m
          BY <3>1, <3>2, <5>1
        <5>2. CASE k # m
          <6>1. k \in 0..(m - 1) /\ k \in 0..NPage /\ k - 1 # m /\ (k # 0 => k - 1 \in 0..NPage)
            BY <1>1, <3>1, <5>2
          <6> QED  BY <3>1, <3>2, <5>2, <6>1
        <5> QED  BY <5>1, <5>2
      <4> QED  BY <4>1, <4>2
    <3> QED  BY <3>3, <2>2
  <2> QED  BY <2>3, <2>4
<1>3. PICK f : UpTo(NPage, f)
  <2>1. NPage \in 0..NPage
    BY <1>1
  <2>2. NPage \notin Bad
    <3> HIDE DEF Bad
    <3> QED  BY <1>2
  <2> QED  BY <2>1, <2>2
<1>4. f = [k \in 0..NPage |-> IF k = 0 THEN 1 ELSE 2 * f[k - 1]]
  BY <1>3
<1> QED  BY <1>3, <1>4

(* So Power is that solution.                                              *)
LEMMA PowerIs ==
  /\ NPage \in Nat
  /\ Power \in [0..NPage -> Nat]
  /\ Power[0] = 1
  /\ \A k \in 0..NPage : k # 0 => k - 1 \in 0..NPage /\ Power[k] = 2 * Power[k - 1]
<1>1. Power = [k \in 0..NPage |-> IF k = 0 THEN 1 ELSE 2 * Power[k - 1]]
  BY PowerExists DEF Power
<1>2. NPage \in Nat
  BY BuddyAssumption
<1>3. /\ DOMAIN Power = 0..NPage /\ Power[0] = 1
      /\ \A k \in 0..NPage : k # 0 => Power[k] = 2 * Power[k - 1]
  BY <1>1, <1>2
<1>4. Power \in [0..NPage -> Nat]
  <2> DEFINE Bad == {k \in 0..NPage : Power[k] \notin Nat}
  <2>1. SUFFICES ASSUME Bad # {} PROVE FALSE
    BY <1>1
  <2>2. PICK m \in Bad : \A k \in Bad : m <= k
    <3>1. Bad \in SUBSET Nat
      BY <1>2
    <3> HIDE DEF Bad
    <3> QED  BY <2>1, <3>1, LeastNatural
  <2>3. m # 0 /\ m - 1 \in 0..NPage /\ ~(m <= m - 1)
    BY <1>2, <1>3, <2>2
  <2>4. Power[m - 1] \in Nat
    BY <2>2, <2>3
  <2> QED  BY <1>3, <2>2, <2>3, <2>4
<1>5. \A k \in 0..NPage : k # 0 => k - 1 \in 0..NPage
  BY <1>2
<1> QED  BY <1>2, <1>3, <1>4, <1>5

(* A power divides every larger one, and the quotient is a power.          *)
LEMMA PowerProduct ==
  ASSUME NEW j \in 0..NPage, NEW k \in 0..NPage, j <= k
  PROVE  k - j \in 0..NPage /\ Power[k] = Power[j] * Power[k - j]
<1> DEFINE Bad == {n \in j..NPage : Power[n] # Power[j] * Power[n - j]}
<1>1. Bad = {}
  <2>1. SUFFICES ASSUME Bad # {} PROVE FALSE
    OBVIOUS
  <2>2. PICK m \in Bad : \A n \in Bad : m <= n
    <3>1. Bad \in SUBSET Nat
      BY PowerIs
    <3> HIDE DEF Bad
    <3> QED  BY <2>1, <3>1, LeastNatural
  <2>3. m # j
    <3>1. Power[j] = Power[j] * Power[j - j]
      BY PowerIs
    <3> QED  BY <2>2, <3>1
  <2>4. m \in 0..NPage /\ m - j \in 0..NPage /\ m # 0 /\ m - j # 0 /\ m - 1 \in j..NPage /\ m - 1 < m
    BY <2>2, <2>3, PowerIs
  <2>5. m - 1 \notin Bad
    BY <2>2, <2>4
  <2>6. PICK a, b, c, d \in Nat :
           a = Power[j] /\ b = Power[(m - 1) - j] /\ c = Power[m - 1] /\ d = Power[m - j]
    <3>1. m - 1 \in 0..NPage /\ (m - 1) - j \in 0..NPage
      BY <2>4, PowerIs
    <3> QED  BY <3>1, <2>4, PowerIs
  <2>7. c = a * b
    BY <2>4, <2>5, <2>6
  <2>8. Power[m] = 2 * c /\ d = 2 * b
    <3>1. (m - j) - 1 = (m - 1) - j
      BY <2>4, PowerIs
    <3> QED  BY <3>1, <2>4, <2>6, PowerIs
  <2>9. 2 * c = a * d
    BY ONLY <2>7, <2>8, a \in Nat, b \in Nat, c \in Nat, d \in Nat
  <2> QED  BY <2>2, <2>6, <2>8, <2>9
<1>2. k - j \in 0..NPage /\ k \in j..NPage
  BY PowerIs
<1> QED  BY <1>1, <1>2

(* Powers grow at least as fast as their exponents.                        *)
LEMMA PowerPositive == \A k \in 0..NPage : Power[k] \in Nat /\ Power[k] >= k + 1
<1> DEFINE Bad == {k \in 0..NPage : ~(Power[k] >= k + 1)}
<1>1. SUFFICES ASSUME Bad # {} PROVE FALSE
  BY PowerIs
<1>2. PICK m \in Bad : \A k \in Bad : m <= k
  <2>1. Bad \in SUBSET Nat
    BY PowerIs
  <2> HIDE DEF Bad
  <2> QED  BY <1>1, <2>1, LeastNatural
<1>3. m # 0 /\ m \in Nat /\ m - 1 \in 0..NPage /\ ~(m <= m - 1)
  BY <1>2, PowerIs
<1>4. Power[m - 1] >= (m - 1) + 1
  <2>1. m - 1 \notin Bad
    <3> HIDE DEF Bad
    <3> QED  BY <1>2, <1>3
  <2> QED  BY <2>1, <1>3
<1>5. PICK a, b \in Nat : a = Power[m - 1] /\ b = Power[m] /\ b = 2 * a
  BY <1>2, <1>3, PowerIs
<1>6. a >= m /\ ~(b >= m + 1)
  <2>1. (m - 1) + 1 = m
    BY <1>3
  <2>2. ~(Power[m] >= m + 1)
    BY <1>2
  <2> QED  BY <2>1, <2>2, <1>4, <1>5
<1> QED  BY ONLY <1>3, <1>5, <1>6

(* Of two powers the larger is a multiple of twice the smaller.            *)
LEMMA PowersOrder ==
  /\ Powers \subseteq Nat \ {0} /\ 1 \in Powers
  /\ \A p \in Powers : p = 1 \/ \E h \in Powers : p = 2 * h
  /\ \A p, q \in Powers : p <= q => \E c \in Powers : q = p * c
  /\ \A p, q \in Powers : p < q => 2 * p \in Powers /\ 2 * p <= q
<1>1. Powers \subseteq Nat \ {0} /\ 1 \in Powers
  <2>1. 0 \in 0..NPage
    BY PowerIs
  <2>2. \A k \in 0..NPage : Power[k] # 0
    BY PowerPositive
  <2> QED  BY <2>1, <2>2, PowerIs DEF Powers
<1>2. ASSUME NEW p \in Powers PROVE p = 1 \/ \E h \in Powers : p = 2 * h
  BY PowerIs DEF Powers
<1>3. ASSUME NEW j \in 0..NPage, NEW k \in 0..NPage, NEW p \in Nat, NEW q \in Nat,
             p = Power[j], q = Power[k]
      PROVE  /\ j <= k => p <= q
             /\ p < q => j + 1 \in 0..NPage /\ j + 1 <= k /\ Power[j + 1] = 2 * p
             /\ p <= q => \E c \in Powers : q = p * c
  <2>1. ASSUME NEW a \in Nat, NEW b \in Nat, NEW c \in Nat, c >= 1, b = a * c PROVE a <= b
    BY <2>1
  <2>2. ASSUME j <= k PROVE \E c \in Powers : q = p * c
    BY <1>3, <2>2, PowerProduct DEF Powers
  <2>3. ASSUME k <= j PROVE \E c \in Powers : p = q * c
    BY <1>3, <2>3, PowerProduct DEF Powers
  <2>4. j <= k => p <= q
    BY <1>1, <2>1, <2>2
  <2>5. k <= j => q <= p
    BY <1>1, <2>1, <2>3
  <2>6. p < q => j + 1 \in 0..NPage /\ j + 1 <= k /\ Power[j + 1] = 2 * p
    <3>1. p < q => j + 1 \in 0..NPage /\ j + 1 <= k /\ j + 1 # 0 /\ (j + 1) - 1 = j
      BY <2>5, PowerIs
    <3> QED  BY <3>1, <1>3, PowerIs
  <2>7. p <= q => \E c \in Powers : q = p * c
    <3>1. CASE j <= k
      BY <2>2, <3>1
    <3>2. CASE ~(j <= k) /\ p <= q
      <4>1. p = q
        BY <2>5, <3>2, PowerIs
      <4>2. PICK e \in Powers : e = 1
        BY <1>1
      <4>3. q = p * e
        BY <4>1, <4>2
      <4>4. \E c \in Powers : q = p * c
        BY ONLY <4>3, e \in Powers, Zenon
      <4> QED  BY <4>4
    <3> QED  BY <3>1, <3>2
  <2> QED  BY <2>4, <2>6, <2>7
<1>4. ASSUME NEW p \in Powers, NEW q \in Powers, p <= q PROVE \E c \in Powers : q = p * c
  <2>1. PICK j \in 0..NPage, k \in 0..NPage : p = Power[j] /\ q = Power[k]
    BY DEF Powers
  <2>2. p \in Nat /\ q \in Nat
    BY <1>1
  <2>3. p <= q => \E c \in Powers : q = p * c
    BY ONLY <1>3, <2>1, <2>2, j \in 0..NPage, k \in 0..NPage
  <2> QED  BY <1>4, <2>3
<1>5. ASSUME NEW p \in Powers, NEW q \in Powers, p < q PROVE 2 * p \in Powers /\ 2 * p <= q
  <2>1. PICK j \in 0..NPage, k \in 0..NPage : p = Power[j] /\ q = Power[k]
    BY DEF Powers
  <2>2. p \in Nat /\ q \in Nat
    BY <1>1
  <2>3. j + 1 \in 0..NPage /\ j + 1 <= k /\ Power[j + 1] = 2 * p
    BY <1>3, <1>5, <2>1, <2>2
  <2>4. 2 * p \in Nat /\ 2 * p \in Powers
    BY <2>2, <2>3 DEF Powers
  <2>5. 2 * p <= q
    BY <1>3, <2>1, <2>2, <2>3, <2>4
  <2> QED  BY <2>4, <2>5
<1> QED  BY <1>1, <1>2, <1>4, <1>5

(* If a divides the power q to a power, what remains is a power.           *)
LEMMA PowersQuotient ==
  ASSUME NEW q \in Powers, NEW e \in Powers, NEW a \in Nat, q = a * e
  PROVE  a \in Powers
<1>1. q \in Nat /\ e \in Nat /\ q # 0 /\ e # 0
  BY PowersOrder
<1>2. e <= q
  <2>1. a # 0
    BY <1>1
  <2> QED  BY <2>1, <1>1
<1>3. PICK c \in Powers : q = e * c
  BY <1>2, PowersOrder
<1>4. c \in Nat
  BY PowersOrder
<1>5. a = c
  BY <1>1, <1>3, <1>4
<1> QED  BY <1>5

(* Every number up to the largest power lies between two of them.          *)
LEMMA Bracket ==
  ASSUME NEW n \in Nat, n >= 1, n <= Power[NPage]
  PROVE  \E p \in Powers : p <= n /\ n < 2 * p
<1> DEFINE Above == {k \in 0..NPage : k = NPage \/ n < Power[k + 1]}
<1>1. PICK m \in Above : \A k \in Above : m <= k
  <2>1. Above \in SUBSET Nat /\ NPage \in Above
    BY PowerIs
  <2> HIDE DEF Above
  <2> QED  BY <2>1, LeastNatural
<1>2. PICK p \in Nat : p = Power[m] /\ p \in Powers
  BY PowerIs DEF Powers
<1>3. p <= n
  <2>1. CASE m = 0
    BY <1>2, <2>1, PowerIs
  <2>2. CASE m # 0
    <3>1. m - 1 \in 0..NPage /\ ~(m <= m - 1) /\ m - 1 # NPage /\ (m - 1) + 1 = m
      BY <2>2, PowerIs
    <3>2. m - 1 \notin Above
      <4> HIDE DEF Above
      <4> QED  BY <1>1, <3>1
    <3> QED  BY <1>2, <3>1, <3>2
  <2> QED  BY <2>1, <2>2
<1>4. n < 2 * p
  <2>1. CASE m = NPage
    BY <1>2, <2>1, PowerPositive, PowersOrder
  <2>2. CASE m # NPage
    <3>1. m + 1 \in 0..NPage /\ m + 1 # 0 /\ (m + 1) - 1 = m /\ n < Power[m + 1]
      BY <2>2, PowerIs
    <3> QED  BY <1>2, <3>1, PowerIs
  <2> QED  BY <2>1, <2>2
<1> QED  BY <1>2, <1>3, <1>4

-----------------------------------------------------------------------------
(* The nodes of a tree: node i stands for the pages NodeOffset(size, i) to *)
(* NodeOffset(size, i) + NodeSize(size, i) - 1 of it.                      *)

(* The condition by which NodeSize chooses.                                *)
NodeBounds(size, i, s) == size <= (i + 1) * s /\ (i + 1) * s < 2 * size

(* At most one power of two is the size of a node ...                      *)
LEMMA NodeSizeUnique ==
  ASSUME NEW size \in Powers, NEW i \in Nat, NEW s \in Powers, NEW r \in Powers,
         NodeBounds(size, i, s), NodeBounds(size, i, r)
  PROVE  ~(s < r)
<1>1. i \in Nat /\ s \in Nat /\ r \in Nat /\ size \in Nat
  BY PowersOrder
<1>2. s < r => 2 * s <= r
  BY PowersOrder
<1>3. ASSUME 2 * s <= r PROVE FALSE
  <2>1. PICK v \in Nat, d \in Nat : v = i + 1 /\ r = 2 * s + d
    <3>1. r - 2 * s \in Nat /\ r = 2 * s + (r - 2 * s) /\ i + 1 \in Nat
      BY <1>1, <1>3
    <3> QED  BY <3>1
  <2>2. size <= v * s /\ v * r < 2 * size
    BY <2>1 DEF NodeBounds
  <2>3. v * r = 2 * (v * s) + v * d /\ v * s \in Nat /\ v * d \in Nat
    BY <1>1, <2>1
  <2> QED  BY <1>1, <2>2, <2>3
<1> QED  BY <1>2, <1>3

(* ... so NodeSize is whichever meets its bounds ...                       *)
LEMMA NodeSizeIs ==
  ASSUME NEW size \in Powers, NEW i \in Nat, NEW s \in Powers, NodeBounds(size, i, s)
  PROVE  NodeSize(size, i) = s
<1> DEFINE n == NodeSize(size, i)
<1>1. n \in Powers /\ NodeBounds(size, i, n)
  BY DEF NodeSize, NodeBounds
<1>2. ~(s < n) /\ ~(n < s)
  BY <1>1, NodeSizeUnique
<1>3. n \in Nat /\ s \in Nat
  BY <1>1, PowersOrder
<1> QED  BY <1>2, <1>3

(* ... and one does.                                                       *)
LEMMA NodeSizeExists ==
  ASSUME NEW size \in Powers, NEW i \in Nodes(size)
  PROVE  /\ i \in Nat
         /\ NodeSize(size, i) \in Powers
         /\ NodeBounds(size, i, NodeSize(size, i))
<1>1. size \in Nat /\ size >= 1 /\ i \in Nat /\ i + 1 \in Nat /\ i + 1 >= 1 /\ i + 1 < 2 * size
  BY PowersOrder DEF Nodes
<1>2. PICK d \in Powers : d <= i + 1 /\ i + 1 < 2 * d
  <2>1. CASE i + 1 <= Power[NPage]
    BY <1>1, <2>1, Bracket
  <2>2. CASE ~(i + 1 <= Power[NPage])
    <3>1. PICK k \in 0..NPage : size = Power[k]
      BY DEF Powers
    <3>2. Power[NPage] \in Nat /\ Power[NPage] \in Powers
      BY PowerIs DEF Powers
    <3>3. size <= Power[NPage]
      <4>1. NPage \in 0..NPage /\ k <= NPage
        BY PowerIs
      <4>2. PICK c, b \in Nat : c = Power[NPage - k] /\ b = Power[NPage] /\ b = size * c /\ c >= 1
        <5>1. NPage - k \in 0..NPage /\ Power[NPage] = Power[k] * Power[NPage - k]
          BY <4>1, PowerProduct
        <5>2. Power[NPage - k] \in Powers
          BY <5>1 DEF Powers
        <5>3. Power[NPage - k] \in Nat \ {0}
          BY <5>2, PowersOrder
        <5> QED  BY <3>1, <3>2, <5>1, <5>3
      <4>3. size <= b
        BY ONLY <1>1, <4>2
      <4> QED  BY <4>2, <4>3
    <3>4. Power[NPage] <= i + 1 /\ i + 1 < 2 * Power[NPage]
      BY <1>1, <2>2, <3>2, <3>3
    <3> QED  BY <3>2, <3>4
  <2> QED  BY <2>1, <2>2
<1>3. d \in Nat /\ d <= size
  <2>1. d \in Nat
    BY PowersOrder
  <2>2. size < d => 2 * size <= d
    BY PowersOrder
  <2> QED  BY <1>1, <1>2, <2>1, <2>2
<1>4. PICK c \in Powers : size = d * c
  BY <1>3, PowersOrder
<1>5. c \in Nat /\ c >= 1
  BY PowersOrder
<1>6. PICK v, a, b \in Nat : v = i + 1 /\ v = d + a /\ 2 * d = v + b /\ b >= 1
  <2>1. (i + 1) - d \in Nat /\ 2 * d - (i + 1) \in Nat /\ 2 * d - (i + 1) >= 1
    BY <1>1, <1>2, <1>3
  <2>2. i + 1 = d + ((i + 1) - d) /\ 2 * d = (i + 1) + (2 * d - (i + 1))
    BY <1>1, <1>3
  <2> QED  BY <1>1, <2>1, <2>2
<1>7. size <= v * c /\ v * c < 2 * size
  <2>1. v * c = d * c + a * c /\ 2 * (d * c) = v * c + b * c
    BY ONLY <1>3, <1>5, <1>6, v \in Nat, a \in Nat, b \in Nat
  <2>2. a * c >= 0 /\ b * c >= 1 /\ v * c \in Nat /\ d * c \in Nat /\ a * c \in Nat /\ b * c \in Nat
    BY ONLY <1>3, <1>5, <1>6, v \in Nat, a \in Nat, b \in Nat
  <2> QED  BY <1>1, <1>4, <2>1, <2>2
<1>8. NodeBounds(size, i, c)
  BY <1>6, <1>7 DEF NodeBounds
<1>9. NodeSize(size, i) = c
  BY <1>1, <1>8, NodeSizeIs
<1> QED  BY <1>1, <1>8, <1>9

(* What NodeSize and NodeOffset say of a node: it lies within the pages of *)
(* the tree.                                                               *)
LEMMA NodeIs ==
  ASSUME NEW size \in Powers, NEW i \in Nodes(size)
  PROVE  /\ i \in Nat /\ size \in Nat /\ size >= 1
         /\ NodeSize(size, i) \in Powers /\ NodeSize(size, i) \in Nat /\ NodeSize(size, i) >= 1
         /\ NodeOffset(size, i) \in Nat
         /\ NodeOffset(size, i) + size = (i + 1) * NodeSize(size, i)
         /\ NodeOffset(size, i) + NodeSize(size, i) <= size
         /\ NodeSize(size, i) <= size
<1>1. PICK s \in Powers : s = NodeSize(size, i) /\ NodeBounds(size, i, s)
  BY NodeSizeExists
<1>2. size \in Nat /\ s \in Nat /\ s >= 1 /\ size >= 1 /\ i \in Nat
  BY PowersOrder, NodeSizeExists
<1>3. PICK v \in Nat : v = i + 1 /\ v >= 1
  BY <1>2
<1>4. PICK o \in Int : o = NodeOffset(size, i) /\ o = v * s - size
  <2>1. NodeOffset(size, i) = v * s - size
    BY <1>1, <1>3 DEF NodeOffset
  <2>2. v * s - size \in Int
    BY <1>2
  <2> QED  BY <2>1, <2>2
<1>5. size <= v * s /\ v * s < 2 * size /\ v * s \in Nat
  BY <1>1, <1>2, <1>3 DEF NodeBounds
<1>6. s <= size
  <2>1. ASSUME size < s PROVE FALSE
    <3>1. 2 * size <= s
      BY <2>1, PowersOrder
    <3>2. s <= v * s
      BY ONLY <1>2, <1>3, v \in Nat
    <3> QED  BY <1>2, <1>5, <3>1, <3>2
  <2> QED  BY <1>2, <2>1
<1>7. PICK c \in Nat : size = s * c /\ c \in Powers
  BY <1>6, PowersOrder
<1>8. v < 2 * c
  <2>1. ASSUME v >= 2 * c PROVE FALSE
    <3>1. PICK e \in Nat : v = 2 * c + e
      <4>1. v - 2 * c \in Nat /\ v = 2 * c + (v - 2 * c)
        BY <2>1
      <4> QED  BY <4>1
    <3>2. v * s = 2 * (s * c) + e * s /\ e * s \in Nat /\ s * c \in Nat
      BY ONLY <1>2, <3>1, v \in Nat, c \in Nat, e \in Nat
    <3> QED  BY <1>5, <1>7, <3>2
  <2> QED  BY <2>1
<1>9. v * s + s <= 2 * size
  <2>1. PICK e \in Nat : 2 * c = v + 1 + e
    <3>1. 2 * c - (v + 1) \in Nat /\ 2 * c = v + 1 + (2 * c - (v + 1))
      BY <1>8
    <3> QED  BY <3>1
  <2>2. 2 * (s * c) = v * s + s + e * s /\ e * s \in Nat /\ v * s \in Nat /\ s * c \in Nat
    BY ONLY <1>2, <2>1, v \in Nat, c \in Nat, e \in Nat
  <2> QED  BY <1>2, <1>7, <2>2
<1>10. o \in Nat /\ o + size = v * s /\ o + s <= size
  BY <1>2, <1>4, <1>5, <1>9
<1> QED  BY <1>1, <1>2, <1>3, <1>4, <1>6, <1>10

(* PARENT, applied again.                                                  *)
LEMMA DivDiv ==
  ASSUME NEW x \in Nat, NEW p \in Nat \ {0}
  PROVE  x \div (2 * p) = (x \div 2) \div p
OBVIOUS

(* A node of more than one page has two children, its halves.              *)
LEMMA Children ==
  ASSUME NEW size \in Powers, NEW i \in Nodes(size), NodeSize(size, i) # 1
  PROVE  /\ LEFT_LEAF(i) \in Nodes(size) /\ RIGHT_LEAF(i) \in Nodes(size)
         /\ LEFT_LEAF(i) > i /\ RIGHT_LEAF(i) > i
         /\ \E h \in Powers :
               /\ NodeSize(size, i) = 2 * h
               /\ NodeSize(size, LEFT_LEAF(i)) = h /\ NodeSize(size, RIGHT_LEAF(i)) = h
               /\ NodeOffset(size, LEFT_LEAF(i)) = NodeOffset(size, i)
               /\ NodeOffset(size, RIGHT_LEAF(i)) = NodeOffset(size, i) + h
<1>1. PICK s \in Nat, o \in Nat :
          /\ s = NodeSize(size, i) /\ o = NodeOffset(size, i) /\ s \in Powers
          /\ o + size = (i + 1) * s /\ o + s <= size
  BY NodeIs
<1>2. PICK v \in Nat : v = i + 1 /\ v >= 1
  BY NodeIs
<1>3. PICK h \in Powers : s = 2 * h
  BY <1>1, PowersOrder
<1>4. h \in Nat /\ h >= 1 /\ size \in Nat /\ size >= 1 /\ i \in Nat
  BY PowersOrder, NodeIs
<1>5. o + size = v * (2 * h) /\ o + 2 * h <= size
  BY <1>1, <1>2, <1>3
<1>6. /\ size <= (2 * v) * h /\ (2 * v) * h < 2 * size
      /\ size <= (2 * v + 1) * h /\ (2 * v + 1) * h < 2 * size
      /\ 2 * v + 1 < 2 * size
      /\ (2 * v) * h - size = o /\ (2 * v + 1) * h - size = o + h
  <2>1. (2 * v) * h = v * (2 * h) /\ (2 * v + 1) * h = v * (2 * h) + h /\ v * (2 * h) \in Nat
    BY ONLY <1>4, v \in Nat
  <2>2. (2 * v + 1) * h < 2 * size
    BY <1>1, <1>4, <1>5, <2>1
  <2>3. 2 * v + 1 <= (2 * v + 1) * h
    BY ONLY <1>4, v \in Nat
  <2> QED  BY <1>1, <1>4, <1>5, <2>1, <2>2, <2>3
<1>7. /\ LEFT_LEAF(i) \in Nat /\ LEFT_LEAF(i) + 1 = 2 * v /\ RIGHT_LEAF(i) \in Nat
      /\ RIGHT_LEAF(i) + 1 = 2 * v + 1
  BY <1>2, <1>4 DEF LEFT_LEAF, RIGHT_LEAF
<1>8. LEFT_LEAF(i) \in Nodes(size) /\ RIGHT_LEAF(i) \in Nodes(size) /\ LEFT_LEAF(i) > i /\ RIGHT_LEAF(i) > i
  BY <1>2, <1>4, <1>6, <1>7 DEF Nodes
<1>9. NodeBounds(size, LEFT_LEAF(i), h) /\ NodeBounds(size, RIGHT_LEAF(i), h)
  BY <1>6, <1>7 DEF NodeBounds
<1>10. NodeSize(size, LEFT_LEAF(i)) = h /\ NodeSize(size, RIGHT_LEAF(i)) = h
  BY <1>7, <1>9, NodeSizeIs
<1>11. NodeOffset(size, LEFT_LEAF(i)) = o /\ NodeOffset(size, RIGHT_LEAF(i)) = o + h
  BY <1>6, <1>7, <1>10 DEF NodeOffset
<1> QED  BY <1>1, <1>3, <1>8, <1>10, <1>11

(* PARENT.                                                                 *)
Parent(i) == (i + 1) \div 2 - 1

(* Every node but the root is a half of its parent.                        *)
LEMMA ParentIs ==
  ASSUME NEW size \in Powers, NEW i \in Nodes(size), i # 0
  PROVE  /\ Parent(i) \in Nodes(size) /\ Parent(i) < i
         /\ NodeSize(size, Parent(i)) # 1
         /\ i = LEFT_LEAF(Parent(i)) \/ i = RIGHT_LEAF(Parent(i))
<1>1. PICK s \in Nat, v \in Nat :
          /\ s = NodeSize(size, i) /\ s \in Powers /\ v = i + 1 /\ v >= 2
          /\ size <= v * s /\ v * s < 2 * size
  <2>1. NodeSize(size, i) \in Nat /\ NodeSize(size, i) \in Powers /\ i + 1 \in Nat /\ i + 1 >= 2
    BY NodeIs
  <2> QED  BY <2>1, NodeSizeExists DEF NodeBounds
<1>2. size \in Nat /\ s >= 1 /\ i \in Nat
  BY <1>1, PowersOrder, NodeIs
<1>3. PICK w \in Nat : w = v \div 2 /\ (v = 2 * w \/ v = 2 * w + 1)
  <2>1. v \div 2 \in Nat /\ (v = 2 * (v \div 2) \/ v = 2 * (v \div 2) + 1)
    BY <1>1
  <2> QED  BY <2>1
<1>4. w >= 1 /\ w < v /\ Parent(i) = w - 1 /\ w - 1 \in Nat
  BY <1>1, <1>2, <1>3 DEF Parent
<1>5. s < size
  <2>1. 2 * s <= v * s /\ v * s \in Nat
    BY ONLY <1>1, s \in Nat, v \in Nat
  <2> QED  BY <1>1, <1>2, <2>1
<1>6. 2 * s \in Powers /\ 2 * s <= size
  BY <1>1, <1>5, PowersOrder
<1>7. PICK c \in Nat : size = (2 * s) * c
  <2>1. PICK d \in Powers : d = 2 * s
    BY <1>6
  <2>2. PICK c \in Powers : size = d * c
    BY <1>6, <2>1, PowersOrder
  <2> QED  BY <2>1, <2>2, PowersOrder
<1>8. size <= w * (2 * s) /\ w * (2 * s) < 2 * size
  <2>1. CASE v = 2 * w
    BY <1>1, <1>2, <2>1
  <2>2. CASE v = 2 * w + 1
    <3>1. w >= c
      <4>1. ASSUME w < c PROVE FALSE
        <5>1. PICK d \in Nat : c = w + 1 + d
          <6>1. c - (w + 1) \in Nat /\ c = w + 1 + (c - (w + 1))
            BY <4>1
          <6> QED  BY <6>1
        <5>2. (2 * s) * c = v * s + s + 2 * (s * d) /\ s * d \in Nat
          BY ONLY <5>1, <2>2, s \in Nat, v \in Nat, w \in Nat, c \in Nat
        <5> QED  BY <1>1, <1>2, <1>7, <5>2
      <4> QED  BY <4>1
    <3>2. PICK d \in Nat : w = c + d
      <4>1. w - c \in Nat /\ w = c + (w - c)
        BY <3>1
      <4> QED  BY <4>1
    <3>3. w * (2 * s) = (2 * s) * c + d * (2 * s) /\ d * (2 * s) \in Nat /\ v * s = w * (2 * s) + s
      BY ONLY <2>2, <3>2, s \in Nat, v \in Nat, w \in Nat, c \in Nat
    <3> QED  BY <1>1, <1>2, <1>7, <3>3
  <2> QED  BY <1>3, <2>1, <2>2
<1>9. Parent(i) \in Nodes(size) /\ Parent(i) < i
  BY <1>1, <1>2, <1>4 DEF Nodes
<1>10. NodeBounds(size, Parent(i), 2 * s)
  BY <1>4, <1>8 DEF NodeBounds
<1>11. NodeSize(size, Parent(i)) = 2 * s
  BY <1>4, <1>6, <1>10, NodeSizeIs
<1>12. i = LEFT_LEAF(Parent(i)) \/ i = RIGHT_LEAF(Parent(i))
  BY <1>1, <1>2, <1>3, <1>4 DEF LEFT_LEAF, RIGHT_LEAF
<1> QED  BY <1>2, <1>9, <1>11, <1>12

(* The ancestors of a node are its parent and the ancestors of its parent. *)
LEMMA AncestorsAre ==
  ASSUME NEW size \in Powers, NEW i \in Nodes(size)
  PROVE  Ancestors(size, i) = IF i = 0 THEN {} ELSE Ancestors(size, Parent(i)) \cup {Parent(i)}
<1>1. size \in Nat /\ i \in Nat /\ i + 1 < 2 * size /\ size >= 1
  BY NodeIs DEF Nodes
<1>2. \A p \in Powers : p \in Nat /\ p # 0
  BY PowersOrder
<1>3. CASE i = 0
  BY <1>2, <1>3 DEF Ancestors
<1>4. CASE i # 0
  <2>1. PICK v \in Nat, w \in Nat : v = i + 1 /\ v >= 2 /\ w = v \div 2 /\ (v = 2 * w \/ v = 2 * w + 1)
    <3>1. i + 1 \in Nat /\ i + 1 >= 2 /\ (i + 1) \div 2 \in Nat
      BY <1>1, <1>4
    <3>2. i + 1 = 2 * ((i + 1) \div 2) \/ i + 1 = 2 * ((i + 1) \div 2) + 1
      BY <1>1
    <3> QED  BY <3>1, <3>2
  <2>2. Parent(i) = w - 1 /\ (w - 1) + 1 = w
    BY <2>1 DEF Parent
  <2>3. ASSUME NEW a \in Ancestors(size, i) PROVE a \in Ancestors(size, w - 1) \cup {w - 1}
    <3>1. PICK q \in Powers : q > 1 /\ q <= v /\ a = v \div q - 1
      BY <2>1 DEF Ancestors
    <3>2. PICK h \in Powers : q = 2 * h
      BY <3>1, PowersOrder
    <3>3. h \in Nat \ {0} /\ h <= w
      BY <1>2, <2>1, <3>1, <3>2
    <3>4. a = w \div h - 1
      BY <2>1, <3>1, <3>2, <3>3, DivDiv
    <3>5. CASE h = 1
      BY <2>1, <3>4, <3>5
    <3>6. CASE h # 1
      BY <2>2, <3>3, <3>4, <3>6 DEF Ancestors
    <3> QED  BY <3>5, <3>6
  <2>4. ASSUME NEW h \in Powers, h <= w
        PROVE  2 * h \in Powers /\ 2 * h > 1 /\ 2 * h <= v /\ v \div (2 * h) = w \div h
    <3>1. h \in Nat \ {0} /\ h < size /\ 2 * h > 1 /\ 2 * h <= v
      BY <1>1, <1>2, <2>1, <2>4
    <3> QED  BY <2>1, <3>1, DivDiv, PowersOrder
  <2>5. w - 1 \in Ancestors(size, i)
    <3>1. 1 \in Powers /\ 1 <= w /\ w \div 1 = w
      BY <2>1, PowersOrder
    <3> QED  BY <2>1, <2>4, <3>1 DEF Ancestors
  <2>6. ASSUME NEW a \in Ancestors(size, w - 1) PROVE a \in Ancestors(size, i)
    <3>1. PICK h \in Powers : h <= w /\ a = w \div h - 1
      BY <2>2 DEF Ancestors
    <3> QED  BY <2>1, <2>4, <3>1 DEF Ancestors
  <2> QED  BY <1>4, <2>2, <2>3, <2>5, <2>6
<1> QED  BY <1>3, <1>4

(* Sets of nodes have a least member ...                                   *)
LEMMA LeastNode ==
  ASSUME NEW size \in Powers, NEW S \in SUBSET Nodes(size), S # {}
  PROVE  \E m \in S : \A k \in S : m <= k
<1>1. S \in SUBSET Nat
  BY PowersOrder DEF Nodes
<1> QED  BY <1>1, LeastNatural

(* ... and a greatest one: arguments from the root down and from the       *)
(* leaves up start there.                                                  *)
LEMMA GreatestNode ==
  ASSUME NEW size \in Powers, NEW S \in SUBSET Nodes(size), S # {}
  PROVE  \E m \in S : \A k \in S : k <= m
<1> DEFINE T == {2 * size - 2 - k : k \in S}
<1>1. size \in Nat /\ size >= 1
  BY PowersOrder
<1>2. \A k \in S : k \in Nat /\ 2 * size - 2 - k \in Nat
  BY <1>1 DEF Nodes
<1>3. PICK t \in T : \A k \in T : t <= k
  <2>1. T \in SUBSET Nat /\ T # {}
    BY <1>2
  <2> HIDE DEF T
  <2> QED  BY <2>1, LeastNatural
<1>4. PICK m \in S : t = 2 * size - 2 - m
  OBVIOUS
<1>5. ASSUME NEW k \in S PROVE k <= m
  <2>1. t <= 2 * size - 2 - k
    BY <1>3
  <2> QED  BY <1>1, <1>2, <1>4, <2>1
<1> QED  BY <1>5

(* The root stands for all the pages of a tree.                            *)
LEMMA RootIs ==
  ASSUME NEW size \in Powers
  PROVE  0 \in Nodes(size) /\ NodeSize(size, 0) = size /\ NodeOffset(size, 0) = 0
<1>1. size \in Nat /\ size >= 1 /\ 0 \in Nodes(size) /\ 0 \in Nat
  BY PowersOrder DEF Nodes
<1>2. NodeBounds(size, 0, size)
  BY <1>1 DEF NodeBounds
<1>3. NodeSize(size, 0) = size
  BY <1>1, <1>2, NodeSizeIs
<1> QED  BY <1>1, <1>3 DEF NodeOffset

(* The pages of a node lie inside those of each of its ancestors.          *)
Inside(size, i, a) ==
    /\ NodeOffset(size, a) <= NodeOffset(size, i)
    /\ NodeOffset(size, i) + NodeSize(size, i) <= NodeOffset(size, a) + NodeSize(size, a)

(* A node is inside its parent, and half as large.                         *)
LEMMA ParentInside ==
  ASSUME NEW size \in Powers, NEW i \in Nodes(size), i # 0
  PROVE  /\ Parent(i) \in Nodes(size) /\ Parent(i) < i /\ NodeSize(size, Parent(i)) # 1
         /\ Inside(size, i, Parent(i)) /\ NodeSize(size, Parent(i)) = 2 * NodeSize(size, i)
<1>1. /\ Parent(i) \in Nodes(size) /\ Parent(i) < i /\ NodeSize(size, Parent(i)) # 1
      /\ i = LEFT_LEAF(Parent(i)) \/ i = RIGHT_LEAF(Parent(i))
  BY ParentIs
<1>2. PICK p \in Nodes(size) : p = Parent(i)
  BY <1>1
<1>3. PICK h \in Nat, o \in Nat :
          /\ NodeSize(size, p) = 2 * h /\ NodeOffset(size, p) = o
          /\ NodeSize(size, i) = h /\ (NodeOffset(size, i) = o \/ NodeOffset(size, i) = o + h)
  <2>1. NodeOffset(size, p) \in Nat /\ \A h \in Powers : h \in Nat
    BY NodeIs, PowersOrder
  <2> QED  BY <1>1, <1>2, <2>1, Children
<1>4. Inside(size, i, p) /\ NodeSize(size, p) = 2 * NodeSize(size, i)
  BY <1>3 DEF Inside
<1> QED  BY <1>1, <1>2, <1>4

(* What holds between a node and the nodes above it.                       *)
AncestorsFine(size, i) ==
    \A a \in Ancestors(size, i) :
       /\ a \in Nodes(size) /\ a < i /\ NodeSize(size, a) # 1 /\ NodeSize(size, i) < NodeSize(size, a)
       /\ Inside(size, i, a)
       /\ Ancestors(size, a) \subseteq Ancestors(size, i)
       /\ LEFT_LEAF(a) \in Ancestors(size, i) \cup {i} \/ RIGHT_LEAF(a) \in Ancestors(size, i) \cup {i}

(* So it is inside each of its ancestors, which are larger.                *)
LEMMA AncestorsOf ==
  ASSUME NEW size \in Powers, NEW i \in Nodes(size)
  PROVE  AncestorsFine(size, i)
<1> DEFINE Bad == {j \in Nodes(size) : ~AncestorsFine(size, j)}
<1>1. SUFFICES ASSUME Bad # {} PROVE FALSE
  OBVIOUS
<1>2. PICK m \in Bad : \A k \in Bad : m <= k
  <2>1. Bad \in SUBSET Nodes(size)
    OBVIOUS
  <2> HIDE DEF Bad
  <2> QED  BY <1>1, <2>1, LeastNode
<1>3. m # 0
  BY <1>2, AncestorsAre DEF AncestorsFine
<1>4. PICK p \in Nodes(size) :
          /\ p = Parent(m) /\ p < m /\ NodeSize(size, p) # 1
          /\ Inside(size, m, p) /\ NodeSize(size, p) = 2 * NodeSize(size, m)
          /\ Ancestors(size, m) = Ancestors(size, p) \cup {p}
          /\ m = LEFT_LEAF(p) \/ m = RIGHT_LEAF(p)
  BY <1>2, <1>3, ParentInside, ParentIs, AncestorsAre
<1>5. AncestorsFine(size, p)
  <2>1. ~(m <= p)
    BY <1>2, <1>4, NodeIs
  <2>2. p \notin Bad
    <3> HIDE DEF Bad
    <3> QED  BY <1>2, <2>1
  <2> QED  BY <2>2
<1>6. NodeSize(size, m) \in Nat /\ NodeSize(size, m) >= 1 /\ NodeOffset(size, m) \in Nat /\ m \in Nat
  BY <1>2, NodeIs
<1>7. NodeSize(size, p) \in Nat /\ NodeOffset(size, p) \in Nat /\ p \in Nat
  BY NodeIs
<1>8. ASSUME NEW a \in Ancestors(size, m)
      PROVE  /\ a \in Nodes(size) /\ a < m /\ NodeSize(size, a) # 1 /\ NodeSize(size, m) < NodeSize(size, a)
             /\ Inside(size, m, a)
             /\ Ancestors(size, a) \subseteq Ancestors(size, m)
             /\ LEFT_LEAF(a) \in Ancestors(size, m) \cup {m} \/ RIGHT_LEAF(a) \in Ancestors(size, m) \cup {m}
  <2>1. CASE a = p
    BY <1>4, <1>6, <1>7, <2>1
  <2>2. CASE a \in Ancestors(size, p)
    <3>1. /\ a \in Nodes(size) /\ a < p /\ NodeSize(size, a) # 1 /\ NodeSize(size, p) < NodeSize(size, a)
          /\ Inside(size, p, a)
          /\ Ancestors(size, a) \subseteq Ancestors(size, p)
          /\ LEFT_LEAF(a) \in Ancestors(size, p) \cup {p} \/ RIGHT_LEAF(a) \in Ancestors(size, p) \cup {p}
      BY <1>5, <2>2 DEF AncestorsFine
    <3>2. a \in Nat /\ NodeSize(size, a) \in Nat /\ NodeOffset(size, a) \in Nat
      BY <3>1, NodeIs
    <3>3. Inside(size, m, a)
      BY <1>4, <1>6, <1>7, <3>1, <3>2 DEF Inside
    <3> QED  BY <1>4, <1>6, <1>7, <3>1, <3>2, <3>3
  <2> QED  BY <1>4, <2>1, <2>2
<1>9. AncestorsFine(size, m)
  BY <1>8 DEF AncestorsFine
<1> QED  BY <1>2, <1>9

(* Two nodes without a common page; two nodes are disjoint or one is above *)
(* the other.                                                              *)
Disjoint(size, i, j) ==
    \/ NodeOffset(size, i) + NodeSize(size, i) <= NodeOffset(size, j)
    \/ NodeOffset(size, j) + NodeSize(size, j) <= NodeOffset(size, i)

Related(size, i, j) ==
    i = j \/ i \in Ancestors(size, j) \/ j \in Ancestors(size, i) \/ Disjoint(size, i, j)

(* What is inside a node is disjoint from what the node is disjoint from.  *)
LEMMA DisjointInside ==
  ASSUME NEW size \in Powers, NEW i \in Nodes(size), NEW j \in Nodes(size), NEW k \in Nodes(size),
         Inside(size, i, k), Disjoint(size, k, j)
  PROVE  Disjoint(size, i, j) /\ Disjoint(size, j, i)
<1>1. \A n \in Nodes(size) : NodeSize(size, n) \in Nat /\ NodeOffset(size, n) \in Nat
  BY NodeIs
<1> QED  BY <1>1 DEF Inside, Disjoint

(* Two nodes are nested or have no page in common.                         *)
LEMMA Nested ==
  ASSUME NEW size \in Powers, NEW i \in Nodes(size), NEW j \in Nodes(size)
  PROVE  Related(size, i, j)
<1> DEFINE Bad == {m \in Nodes(size) : \E k \in Nodes(size) : k <= m /\ ~Related(size, m, k)}
<1>0. \A m, k : Related(size, m, k) => Related(size, k, m)
  BY DEF Related, Disjoint
<1>1. Bad = {}
  <2>1. SUFFICES ASSUME Bad # {} PROVE FALSE
    OBVIOUS
  <2>2. PICK m \in Bad : \A k \in Bad : m <= k
    <3>1. Bad \in SUBSET Nodes(size)
      OBVIOUS
    <3> HIDE DEF Bad
    <3> QED  BY <2>1, <3>1, LeastNode
  <2>3. PICK k \in Nodes(size) : k <= m /\ ~Related(size, m, k)
    OBVIOUS
  <2>4. m \in Nat /\ k \in Nat /\ k # m /\ m # 0
    BY <2>2, <2>3, NodeIs DEF Related
  <2>5. PICK p \in Nodes(size) :
            /\ p = Parent(m) /\ p < m /\ NodeSize(size, p) # 1
            /\ Inside(size, m, p)
            /\ Ancestors(size, m) = Ancestors(size, p) \cup {p}
            /\ m = LEFT_LEAF(p) \/ m = RIGHT_LEAF(p)
    BY <2>2, <2>4, ParentInside, ParentIs, AncestorsAre
  <2>6. Related(size, p, k)
    <3>1. p \in Nat /\ ~(m <= p) /\ ~(m <= k)
      BY <2>2, <2>3, <2>4, <2>5, NodeIs
    <3>2. p \notin Bad /\ k \notin Bad
      <4> HIDE DEF Bad
      <4> QED  BY <2>2, <3>1
    <3>3. k <= p => Related(size, p, k)
      BY <3>2
    <3>4. p <= k => Related(size, k, p)
      BY <3>2
    <3> QED  BY <1>0, <2>4, <3>1, <3>3, <3>4
  <2>7. CASE p = k \/ k \in Ancestors(size, p)
    BY <2>3, <2>5, <2>7 DEF Related
  <2>8. CASE Disjoint(size, p, k)
    BY <2>2, <2>3, <2>5, <2>8, DisjointInside DEF Related
  <2>9. CASE p \in Ancestors(size, k)
    <3>1. PICK c \in Ancestors(size, k) \cup {k} : c = LEFT_LEAF(p) \/ c = RIGHT_LEAF(p)
      BY <2>9, AncestorsOf DEF AncestorsFine
    <3>2. c # m
      BY <2>3, <2>4, <3>1 DEF Related
    <3>3. c \in Nodes(size) /\ Inside(size, k, c)
      <4>1. CASE c = k
        BY <4>1, NodeIs DEF Inside
      <4>2. CASE c # k
        BY <3>1, <4>2, AncestorsOf DEF AncestorsFine
      <4> QED  BY <4>1, <4>2
    <3>4. Disjoint(size, c, m)
      <4>1. PICK h \in Powers :
               /\ NodeSize(size, LEFT_LEAF(p)) = h /\ NodeSize(size, RIGHT_LEAF(p)) = h
               /\ NodeOffset(size, LEFT_LEAF(p)) = NodeOffset(size, p)
               /\ NodeOffset(size, RIGHT_LEAF(p)) = NodeOffset(size, p) + h
        BY <2>5, Children
      <4>2. h \in Nat /\ NodeOffset(size, p) \in Nat
        BY NodeIs, PowersOrder
      <4> QED  BY <2>5, <3>1, <3>2, <4>1, <4>2 DEF Disjoint
    <3>5. Disjoint(size, m, k)
      BY <2>2, <3>3, <3>4, DisjointInside
    <3> QED  BY <2>3, <3>5 DEF Related
  <2> QED  BY <2>6, <2>7, <2>8, <2>9 DEF Related
<1>2. i \in Nat /\ j \in Nat
  BY NodeIs
<1>3. (j <= i => Related(size, i, j)) /\ (i <= j => Related(size, j, i))
  BY <1>1
<1> QED  BY <1>0, <1>2, <1>3

(* The nodes on the way from a page's leaf to the root are those that hold it. *)
Holds(size, i, page) ==
    NodeOffset(size, i) <= page /\ page < NodeOffset(size, i) + NodeSize(size, i)

(* The leaf of a page and the nodes above it.                              *)
Path(size, page) == {page + size - 1} \cup Ancestors(size, page + size - 1)

(* The leaf of a page.                                                     *)
LEMMA LeafIs ==
  ASSUME NEW size \in Powers, NEW page \in 0..(size - 1)
  PROVE  /\ page + size - 1 \in Nodes(size)
         /\ NodeSize(size, page + size - 1) = 1 /\ NodeOffset(size, page + size - 1) = page
<1>1. size \in Nat /\ size >= 1 /\ page \in Nat /\ page < size
  BY PowersOrder
<1>2. PICK i \in Nat : i = page + size - 1
  BY <1>1
<1>3. i \in Nodes(size)
  BY <1>1, <1>2 DEF Nodes
<1>4. NodeBounds(size, i, 1) /\ 1 \in Powers
  BY <1>1, <1>2, PowersOrder DEF NodeBounds
<1>5. NodeSize(size, i) = 1
  BY <1>4, NodeSizeIs
<1>6. NodeOffset(size, i) = page
  BY <1>1, <1>2, <1>5 DEF NodeOffset
<1> QED  BY <1>2, <1>3, <1>5, <1>6

(* The way from the leaf of a page to the root visits the nodes that hold  *)
(* the page, and no other.                                                 *)
LEMMA PathIs ==
  ASSUME NEW size \in Powers, NEW page \in 0..(size - 1)
  PROVE  Path(size, page) = {i \in Nodes(size) : Holds(size, i, page)}
<1>1. PICK f \in Nodes(size) : f = page + size - 1 /\ NodeSize(size, f) = 1 /\ NodeOffset(size, f) = page
  BY LeafIs
<1>2. ASSUME NEW i \in Nodes(size) PROVE NodeSize(size, i) \in Nat /\ NodeSize(size, i) >= 1 /\ NodeOffset(size, i) \in Nat
  BY NodeIs
<1>3. page \in Nat
  BY PowersOrder
<1>4. ASSUME NEW i \in Path(size, page) PROVE i \in Nodes(size) /\ Holds(size, i, page)
  <2>1. CASE i = f
    BY <1>1, <1>3, <2>1 DEF Holds
  <2>2. CASE i \in Ancestors(size, f)
    <3>1. i \in Nodes(size) /\ Inside(size, f, i)
      BY <2>2, AncestorsOf DEF AncestorsFine
    <3>2. Holds(size, i, page)
      BY <1>1, <1>2, <1>3, <3>1 DEF Holds, Inside
    <3> QED  BY <3>1, <3>2
  <2> QED  BY <1>1, <2>1, <2>2 DEF Path
<1>5. ASSUME NEW i \in Nodes(size), Holds(size, i, page) PROVE i \in Path(size, page)
  <2>1. ~Disjoint(size, i, f)
    BY <1>1, <1>2, <1>3, <1>5 DEF Holds, Disjoint
  <2>2. f \notin Ancestors(size, i)
    <3>1. f \in Ancestors(size, i) => NodeSize(size, i) < NodeSize(size, f)
      BY AncestorsOf DEF AncestorsFine
    <3> QED  BY <1>1, <1>2, <3>1
  <2>3. Related(size, i, f)
    BY Nested
  <2> QED  BY <1>1, <2>1, <2>2, <2>3 DEF Path, Related
<1> QED  BY <1>4, <1>5

(* Nodes that stand for the same pages are the same.                       *)
LEMMA SameNode ==
  ASSUME NEW size \in Powers, NEW i \in Nodes(size), NEW j \in Nodes(size),
         NodeOffset(size, i) = NodeOffset(size, j), NodeSize(size, i) = NodeSize(size, j)
  PROVE  i = j
<1>1. \A n \in Nodes(size) : NodeSize(size, n) \in Nat /\ NodeSize(size, n) >= 1 /\ NodeOffset(size, n) \in Nat
  BY NodeIs
<1>2. i \notin Ancestors(size, j) /\ j \notin Ancestors(size, i)
  BY <1>1, AncestorsOf DEF AncestorsFine
<1>3. ~Disjoint(size, i, j)
  BY <1>1 DEF Disjoint
<1> QED  BY <1>2, <1>3, Nested DEF Related

(* The nodes of the subtree of a node. *)
Below(size, i) == {j \in Nodes(size) : j = i \/ i \in Ancestors(size, j)}

(* What is below a node is the node and what is below its children.        *)
LEMMA BelowIs ==
  ASSUME NEW size \in Powers, NEW i \in Nodes(size), NodeSize(size, i) # 1
  PROVE  /\ Below(size, i) = {i} \cup Below(size, LEFT_LEAF(i)) \cup Below(size, RIGHT_LEAF(i))
         /\ Ancestors(size, LEFT_LEAF(i)) = Ancestors(size, i) \cup {i}
         /\ Ancestors(size, RIGHT_LEAF(i)) = Ancestors(size, i) \cup {i}
<1>1. PICK l \in Nodes(size), r \in Nodes(size) : l = LEFT_LEAF(i) /\ r = RIGHT_LEAF(i) /\ l > i /\ r > i
  BY Children
<1>2. i \in Nat
  BY NodeIs
<1>3. Parent(l) = i /\ Parent(r) = i /\ l # 0 /\ r # 0
  BY <1>1, <1>2 DEF Parent, LEFT_LEAF, RIGHT_LEAF
<1>4. Ancestors(size, l) = Ancestors(size, i) \cup {i} /\ Ancestors(size, r) = Ancestors(size, i) \cup {i}
  BY <1>3, AncestorsAre
<1>5. ASSUME NEW j \in Nodes(size), i \in Ancestors(size, j)
      PROVE  j \in Below(size, l) \cup Below(size, r)
  <2>1. l \in Ancestors(size, j) \cup {j} \/ r \in Ancestors(size, j) \cup {j}
    BY <1>1, <1>5, AncestorsOf DEF AncestorsFine
  <2> QED  BY <2>1 DEF Below
<1>6. ASSUME NEW j \in Nodes(size), l \in Ancestors(size, j) \/ r \in Ancestors(size, j)
      PROVE  i \in Ancestors(size, j)
  BY <1>4, <1>6, AncestorsOf DEF AncestorsFine
<1> QED  BY <1>1, <1>4, <1>5, <1>6 DEF Below

-----------------------------------------------------------------------------
(* The array longest is determined by the set A of the allocated nodes.    *)

(* No node above i is allocated: the walks of buddy_alloc_pages and        *)
(* buddy_free_pages may come to i. The entries of the other nodes are      *)
(* stale.                                                                  *)
Live(size, A, i) == Ancestors(size, i) \cap A = {}

(* What A determines of the entry of one node, and of all.                 *)
ShapeAt(size, t, A, i) ==
    t[i] = IF i \in A THEN 0
           ELSE IF NodeSize(size, i) = 1 \/ ~Live(size, A, i) THEN NodeSize(size, i)
           ELSE Merged(size, i, t[LEFT_LEAF(i)], t[RIGHT_LEAF(i)])

Shape(size, t, A) ==
    /\ t \in [Nodes(size) -> Nat]
    /\ A \subseteq Nodes(size)
    /\ \A i \in A : Live(size, A, i)
    /\ \A i \in Nodes(size) : ShapeAt(size, t, A, i)

(* The entries of longest are zero or powers of two, at most the size of   *)
(* the node.                                                               *)
LEMMA ShapeBounds ==
  ASSUME NEW size \in Powers, NEW t, NEW A, Shape(size, t, A)
  PROVE  \A i \in Nodes(size) : t[i] \in Powers \cup {0} /\ t[i] <= NodeSize(size, i)
<1> DEFINE Bad == {i \in Nodes(size) : ~(t[i] \in Powers \cup {0} /\ t[i] <= NodeSize(size, i))}
<1>1. SUFFICES ASSUME Bad # {} PROVE FALSE
  OBVIOUS
<1>2. PICK m \in Bad : \A k \in Bad : k <= m
  <2>1. Bad \in SUBSET Nodes(size)
    OBVIOUS
  <2> HIDE DEF Bad
  <2> QED  BY <1>1, <2>1, GreatestNode
<1>3. NodeSize(size, m) \in Powers /\ NodeSize(size, m) \in Nat /\ NodeSize(size, m) >= 1 /\ m \in Nat
  BY <1>2, NodeIs
<1>4. m \notin A /\ NodeSize(size, m) # 1 /\ Live(size, A, m)
  BY <1>2, <1>3 DEF Shape, ShapeAt
<1>5. PICK l \in Nodes(size), r \in Nodes(size), h \in Nat :
         /\ l = LEFT_LEAF(m) /\ r = RIGHT_LEAF(m) /\ l > m /\ r > m
         /\ NodeSize(size, m) = 2 * h /\ NodeSize(size, l) = h /\ NodeSize(size, r) = h
  <2>1. \A h \in Powers : h \in Nat
    BY PowersOrder
  <2> QED  BY <1>2, <1>4, <2>1, Children
<1>6. l \notin Bad /\ r \notin Bad
  <2>1. ~(l <= m) /\ ~(r <= m)
    BY <1>3, <1>5, NodeIs
  <2> HIDE DEF Bad
  <2> QED  BY <1>2, <2>1
<1>7. t[l] \in Powers \cup {0} /\ t[l] <= h /\ t[r] \in Powers \cup {0} /\ t[r] <= h
  BY <1>5, <1>6
<1>8. t[m] = Merged(size, m, t[l], t[r])
  BY <1>2, <1>4, <1>5 DEF Shape, ShapeAt
<1>9. t[l] \in Nat /\ t[r] \in Nat
  BY DEF Shape
<1>10. t[m] \in Powers \cup {0} /\ t[m] <= NodeSize(size, m)
  BY <1>3, <1>5, <1>7, <1>8, <1>9 DEF Merged, MAX
<1> QED  BY <1>2, <1>10

(* Below a node that is full nothing is allocated, ... *)
LEMMA ShapeFull ==
  ASSUME NEW size \in Powers, NEW t, NEW A, Shape(size, t, A),
         NEW i \in Nodes(size), t[i] = NodeSize(size, i)
  PROVE  Below(size, i) \cap A = {}
<1>1. SUFFICES ASSUME NEW j \in Below(size, i), j \in A PROVE FALSE
  OBVIOUS
<1> DEFINE Bad == {k \in Nodes(size) : (k = j \/ k \in Ancestors(size, j)) /\ t[k] = NodeSize(size, k)}
<1>2. j \in Nodes(size) /\ i \in Bad
  BY <1>1 DEF Below
<1>3. PICK m \in Bad : \A k \in Bad : k <= m
  <2>1. Bad \in SUBSET Nodes(size) /\ Bad # {}
    BY <1>2
  <2> HIDE DEF Bad
  <2> QED  BY <2>1, GreatestNode
<1>4. NodeSize(size, j) >= 1 /\ NodeSize(size, j) \in Nat /\ m \in Nat
  BY <1>2, <1>3, NodeIs
<1>5. m # j
  BY <1>1, <1>2, <1>3, <1>4 DEF Shape, ShapeAt
<1>6. m \in Nodes(size) /\ m \in Ancestors(size, j) /\ NodeSize(size, m) # 1
  BY <1>2, <1>3, <1>5, AncestorsOf DEF AncestorsFine
<1>7. m \notin A /\ Live(size, A, m)
  <2>1. Live(size, A, j) /\ Ancestors(size, m) \subseteq Ancestors(size, j)
    BY <1>1, <1>2, <1>6, AncestorsOf DEF AncestorsFine, Shape
  <2> QED  BY <1>6, <2>1 DEF Live
<1>8. PICK l \in Nodes(size), r \in Nodes(size), h \in Nat :
         /\ l = LEFT_LEAF(m) /\ r = RIGHT_LEAF(m) /\ l > m /\ r > m /\ h >= 1
         /\ NodeSize(size, m) = 2 * h /\ NodeSize(size, l) = h /\ NodeSize(size, r) = h
  <2>1. \A h \in Powers : h \in Nat /\ h >= 1
    BY PowersOrder
  <2> QED  BY <1>6, <2>1, Children
<1>9. t[m] = Merged(size, m, t[l], t[r])
  BY <1>6, <1>7, <1>8 DEF Shape, ShapeAt
<1>10. t[l] # h \/ t[r] # h
  <2>1. PICK c \in {l, r} : c = j \/ c \in Ancestors(size, j)
    BY <1>2, <1>6, <1>8, AncestorsOf DEF AncestorsFine
  <2>2. c \notin Bad
    <3>1. ~(c <= m)
      BY <1>4, <1>8, NodeIs
    <3> HIDE DEF Bad
    <3> QED  BY <1>3, <3>1
  <2> QED  BY <1>8, <2>1, <2>2
<1>11. t[l] \in Nat /\ t[r] \in Nat /\ t[l] <= h /\ t[r] <= h
  BY <1>8, ShapeBounds DEF Shape
<1>12. t[m] # 2 * h
  BY <1>8, <1>9, <1>10, <1>11 DEF Merged, MAX
<1> QED  BY <1>3, <1>8, <1>12

(* ... and a node below which nothing is allocated is full. *)
LEMMA ShapeEmpty ==
  ASSUME NEW size \in Powers, NEW t, NEW A, Shape(size, t, A),
         NEW i \in Nodes(size), Below(size, i) \cap A = {}
  PROVE  t[i] = NodeSize(size, i)
<1> DEFINE Bad == {k \in Nodes(size) : Below(size, k) \cap A = {} /\ t[k] # NodeSize(size, k)}
<1>1. SUFFICES ASSUME Bad # {} PROVE FALSE
  OBVIOUS
<1>2. PICK m \in Bad : \A k \in Bad : k <= m
  <2>1. Bad \in SUBSET Nodes(size)
    OBVIOUS
  <2> HIDE DEF Bad
  <2> QED  BY <1>1, <2>1, GreatestNode
<1>3. m \notin A /\ m \in Nodes(size)
  BY <1>2 DEF Below
<1>4. NodeSize(size, m) # 1 /\ Live(size, A, m)
  BY <1>2, <1>3 DEF Shape, ShapeAt
<1>5. PICK l \in Nodes(size), r \in Nodes(size), h \in Nat :
         /\ l = LEFT_LEAF(m) /\ r = RIGHT_LEAF(m) /\ l > m /\ r > m
         /\ NodeSize(size, m) = 2 * h /\ NodeSize(size, l) = h /\ NodeSize(size, r) = h
  <2>1. \A h \in Powers : h \in Nat
    BY PowersOrder
  <2> QED  BY <1>3, <1>4, <2>1, Children
<1>6. Below(size, l) \cap A = {} /\ Below(size, r) \cap A = {}
  BY <1>2, <1>3, <1>4, <1>5, BelowIs
<1>7. l \notin Bad /\ r \notin Bad
  <2>1. ~(l <= m) /\ ~(r <= m)
    BY <1>3, <1>5, NodeIs
  <2> HIDE DEF Bad
  <2> QED  BY <1>2, <2>1
<1>8. t[l] = h /\ t[r] = h
  BY <1>5, <1>6, <1>7
<1>9. t[m] = Merged(size, m, t[l], t[r])
  BY <1>3, <1>4, <1>5 DEF Shape, ShapeAt
<1>10. t[m] = NodeSize(size, m)
  BY <1>5, <1>8, <1>9 DEF Merged
<1> QED  BY <1>2, <1>10

(* On the way from the leaf of a page to the root a node is zero if and    *)
(* only if the page is in an allocated block.                              *)
LEMMA ShapeZero ==
  ASSUME NEW size \in Powers, NEW t, NEW A, Shape(size, t, A), NEW page \in 0..(size - 1),
         NEW z \in Path(size, page), t[z] = 0
  PROVE  \E a \in A : Holds(size, a, page)
<1>1. SUFFICES ASSUME \A a \in A : ~Holds(size, a, page) PROVE FALSE
  OBVIOUS
<1>2. PICK f \in Nodes(size) :
          /\ f = page + size - 1 /\ NodeSize(size, f) = 1 /\ Path(size, page) = {f} \cup Ancestors(size, f)
  BY LeafIs DEF Path
<1>3. Path(size, page) \cap A = {} /\ Path(size, page) \subseteq Nodes(size)
  BY <1>1, PathIs
<1> DEFINE Bad == {k \in Path(size, page) : t[k] = 0}
<1>4. PICK m \in Bad : \A k \in Bad : k <= m
  <2>1. Bad \in SUBSET Nodes(size) /\ Bad # {}
    BY <1>3
  <2> HIDE DEF Bad
  <2> QED  BY <2>1, GreatestNode
<1>5. m \in Nodes(size) /\ m \in Nat /\ NodeSize(size, m) \in Nat /\ NodeSize(size, m) >= 1
  BY <1>3, <1>4, NodeIs
<1>6. m \notin A /\ NodeSize(size, m) # 1
  BY <1>3, <1>4, <1>5 DEF Shape, ShapeAt
<1>7. m \in Ancestors(size, f)
  BY <1>2, <1>4, <1>6
<1>8. Live(size, A, m)
  <2>1. Ancestors(size, m) \subseteq Ancestors(size, f)
    BY <1>7, AncestorsOf DEF AncestorsFine
  <2> QED  BY <1>2, <1>3, <2>1 DEF Live
<1>9. PICK l \in Nodes(size), r \in Nodes(size) : l = LEFT_LEAF(m) /\ r = RIGHT_LEAF(m) /\ l > m /\ r > m
  BY <1>5, <1>6, Children
<1>10. PICK c \in {l, r} : c \in Path(size, page)
  BY <1>2, <1>7, <1>9, AncestorsOf DEF AncestorsFine
<1>11. t[c] # 0
  <2>1. ~(c <= m)
    BY <1>5, <1>9, NodeIs
  <2>2. c \notin Bad
    <3> HIDE DEF Bad
    <3> QED  BY <1>4, <2>1
  <2> QED  BY <1>10, <2>2
<1>12. t[m] = Merged(size, m, t[l], t[r])
  BY <1>5, <1>6, <1>8, <1>9 DEF Shape, ShapeAt
<1>13. t[l] \in Nat /\ t[r] \in Nat
  BY DEF Shape
<1>14. t[m] # 0
  BY <1>5, <1>11, <1>12, <1>13 DEF Merged, MAX
<1> QED  BY <1>4, <1>14

(* A function computed from the greatest argument downwards exists: at the *)
(* arguments B it is given, at the others it follows from two larger ones. *)
Downward(N, D, V, B, base, G, l, r) ==
    /\ N \in Nat /\ D \subseteq 0..N /\ B \subseteq D
    /\ base \in [D -> V] /\ G \in [D -> [V \X V -> V]]
    /\ \A i \in D \ B : l[i] \in D /\ l[i] > i /\ r[i] \in D /\ r[i] > i

(* A recursion whose value at a node needs only larger nodes has a         *)
(* solution.                                                               *)
LEMMA Downwards ==
  ASSUME NEW N, NEW D, NEW V, NEW B, NEW base, NEW G, NEW l, NEW r,
         Downward(N, D, V, B, base, G, l, r)
  PROVE  \E f \in [D -> V] :
            \A i \in D : f[i] = IF i \in B THEN base[i] ELSE G[i][<<f[l[i]], f[r[i]]>>]
<1> USE DEF Downward
<1> DEFINE At(f, i) == f[i] = IF i \in B THEN base[i] ELSE G[i][<<f[l[i]], f[r[i]]>>]
           From(n, f) == f \in [D -> V] /\ \A i \in D : i > N - n => At(f, i)
           Bad == {n \in 0..(N + 1) : ~ \E f : From(n, f)}
<1>0. \A i \in D : i \in Nat /\ i <= N
  OBVIOUS
<1>1. Bad = {}
  <2>1. SUFFICES ASSUME Bad # {} PROVE FALSE
    OBVIOUS
  <2>2. PICK m \in Bad : \A k \in Bad : m <= k
    <3>1. Bad \in SUBSET Nat
      OBVIOUS
    <3> HIDE DEF Bad
    <3> QED  BY <2>1, <3>1, LeastNatural
  <2>3. m # 0
    <3>1. From(0, base)
      BY <1>0
    <3> QED  BY <2>2, <3>1
  <2>4. m \in Nat /\ m - 1 \in 0..(N + 1) /\ ~(m <= m - 1) /\ m <= N + 1
    BY <2>3
  <2>5. PICK f : From(m - 1, f)
    <3>1. m - 1 \notin Bad
      <4> HIDE DEF Bad
      <4> QED  BY <2>2, <2>4
    <3> QED  BY <2>4, <3>1
  <2>6. PICK j \in Nat : j = N - (m - 1)
    BY <2>4
  <2>7. CASE j \notin D
    <3>1. From(m, f)
      <4>1. ASSUME NEW i \in D, i > N - m PROVE i > N - (m - 1)
        <5>1. i \in Nat /\ i # j /\ N - m = j - 1
          BY <1>0, <2>4, <2>6, <2>7, <4>1
        <5>2. i > j - 1
          BY <4>1, <5>1
        <5> QED  BY <2>6, <5>1, <5>2
      <4> QED  BY <2>5, <4>1
    <3> QED  BY <2>2, <3>1
  <2>8. CASE j \in D
    <3>1. PICK w \in V : w = IF j \in B THEN base[j] ELSE G[j][<<f[l[j]], f[r[j]]>>]
      <4>1. j \in B => base[j] \in V
        OBVIOUS
      <4>2. j \notin B => G[j][<<f[l[j]], f[r[j]]>>] \in V
        <5>1. SUFFICES ASSUME j \notin B PROVE G[j][<<f[l[j]], f[r[j]]>>] \in V
          OBVIOUS
        <5>2. PICK x \in V, y \in V : x = f[l[j]] /\ y = f[r[j]]
          BY <2>5, <2>8, <5>1
        <5>3. G[j] \in [V \X V -> V] /\ <<x, y>> \in V \X V
          BY <2>8
        <5> QED  BY <5>2, <5>3
      <4> QED  BY <4>1, <4>2
    <3>2. PICK g \in [D -> V] : g[j] = w /\ \A i \in D : i # j => g[i] = f[i]
      <4>1. [f EXCEPT ![j] = w] \in [D -> V]
        BY <2>5
      <4> QED  BY <2>5, <2>8, <4>1
    <3>3. ASSUME NEW i \in D, i > N - m PROVE At(g, i)
      <4>1. i \in D /\ i \in Nat /\ (i = j \/ i > j)
        BY <1>0, <2>4, <2>6, <3>3
      <4>2. i \notin B => l[i] # j /\ r[i] # j /\ l[i] \in D /\ r[i] \in D
        BY <1>0, <4>1
      <4>3. i \notin B => g[l[i]] = f[l[i]] /\ g[r[i]] = f[r[i]]
        BY <3>2, <4>2
      <4>4. CASE i = j
        BY <3>1, <3>2, <4>3, <4>4
      <4>5. CASE i # j
        <5>1. i > N - (m - 1)
          BY <2>6, <4>1, <4>5
        <5>2. At(f, i)
          BY <2>5, <5>1
        <5> QED  BY <3>2, <4>3, <4>5, <5>2
      <4> QED  BY <4>4, <4>5
    <3>4. From(m, g)
      BY <3>3
    <3> QED  BY <2>2, <3>4
  <2> QED  BY <2>7, <2>8
<1>2. PICK f : From(N + 1, f)
  <2>1. N + 1 \in 0..(N + 1) /\ N + 1 \notin Bad
    <3> HIDE DEF Bad
    <3> QED  BY <1>1
  <2> QED  BY <2>1
<1>3. \A i \in D : i > N - (N + 1)
  BY <1>0
<1> QED  BY <1>2, <1>3

(* So the tree that buddy_alloc_pages leaves satisfies its own recursion   *)
(* ...                                                                     *)
LEMMA TakenIs ==
  ASSUME NEW size \in Powers, NEW t \in [Nodes(size) -> Nat], NEW i \in Nodes(size)
  PROVE  /\ Taken(size, t, i) \in [Nodes(size) -> Nat]
         /\ \A j \in Nodes(size) :
               Taken(size, t, i)[j] =
                  IF j = i THEN 0
                  ELSE IF j \in Ancestors(size, i)
                       THEN MAX(Taken(size, t, i)[LEFT_LEAF(j)], Taken(size, t, i)[RIGHT_LEAF(j)])
                  ELSE t[j]
<1> DEFINE D == Nodes(size)
           B == Nodes(size) \ Ancestors(size, i)
           base == [j \in D |-> IF j = i THEN 0 ELSE t[j]]
           G == [j \in D |-> [x \in Nat \X Nat |-> MAX(x[1], x[2])]]
           l == [j \in D |-> LEFT_LEAF(j)]
           r == [j \in D |-> RIGHT_LEAF(j)]
<1>1. PICK N \in Nat : D = 0..N
  <2>1. 2 * size - 2 \in Nat
    BY PowersOrder
  <2> QED  BY <2>1 DEF Nodes
<1>2. \A j \in D \ B : LEFT_LEAF(j) \in D /\ LEFT_LEAF(j) > j /\ RIGHT_LEAF(j) \in D /\ RIGHT_LEAF(j) > j
  <2>1. ASSUME NEW j \in D \ B
        PROVE  LEFT_LEAF(j) \in D /\ LEFT_LEAF(j) > j /\ RIGHT_LEAF(j) \in D /\ RIGHT_LEAF(j) > j
    <3>1. j \in Nodes(size) /\ NodeSize(size, j) # 1
      BY AncestorsOf DEF AncestorsFine
    <3> QED  BY <3>1, Children
  <2> QED  BY <2>1
<1>3. i \notin Ancestors(size, i)
  <2>1. i \in Nat
    BY NodeIs
  <2> QED  BY <2>1, AncestorsOf DEF AncestorsFine
<1>4. base \in [D -> Nat] /\ G \in [D -> [Nat \X Nat -> Nat]]
  BY DEF MAX
<1>5. PICK f \in [D -> Nat] :
         \A j \in D : f[j] = IF j \in B THEN base[j] ELSE G[j][<<f[l[j]], f[r[j]]>>]
  <2>1. \A j \in D \ B : l[j] \in D /\ l[j] > j /\ r[j] \in D /\ r[j] > j
    BY <1>2
  <2>2. D \in SUBSET (0..N) /\ B \in SUBSET D
    BY <1>1
  <2> HIDE DEF D, B, base, G, l, r
  <2>3. Downward(N, D, Nat, B, base, G, l, r)
    BY <1>4, <2>1, <2>2 DEF Downward
  <2> QED  BY <2>3, Downwards
<1>6. ASSUME NEW j \in D
      PROVE  f[j] = IF j = i THEN 0
                    ELSE IF j \in Ancestors(size, i) THEN MAX(f[LEFT_LEAF(j)], f[RIGHT_LEAF(j)])
                    ELSE t[j]
  <2>1. CASE j \in B
    BY <1>3, <1>5, <2>1
  <2>2. CASE j \notin B
    <3>1. j \in Ancestors(size, i) /\ j # i
      BY <1>3, <2>2
    <3>2. <<f[LEFT_LEAF(j)], f[RIGHT_LEAF(j)]>> \in Nat \X Nat
      BY <1>2, <2>2
    <3>3. f[j] = G[j][<<f[LEFT_LEAF(j)], f[RIGHT_LEAF(j)]>>]
      BY <1>5, <2>2
    <3> QED  BY <3>1, <3>2, <3>3
  <2> QED  BY <2>1, <2>2
<1>7. f = [j \in Nodes(size) |->
             IF j = i THEN 0
             ELSE IF j \in Ancestors(size, i) THEN MAX(f[LEFT_LEAF(j)], f[RIGHT_LEAF(j)])
             ELSE t[j]]
  BY <1>6
<1>8. PICK g : g = Taken(size, t, i) /\
        g = [j \in Nodes(size) |->
             IF j = i THEN 0
             ELSE IF j \in Ancestors(size, i) THEN MAX(g[LEFT_LEAF(j)], g[RIGHT_LEAF(j)])
             ELSE t[j]]
  BY <1>7 DEF Taken
<1>9. ASSUME NEW j \in Nodes(size) PROVE g[j] \in Nat
  <2> DEFINE Bad == {k \in Nodes(size) : g[k] \notin Nat}
  <2>1. SUFFICES ASSUME Bad # {} PROVE FALSE
    OBVIOUS
  <2>2. PICK m \in Bad : \A k \in Bad : k <= m
    <3>1. Bad \in SUBSET Nodes(size)
      OBVIOUS
    <3> HIDE DEF Bad
    <3> QED  BY <2>1, <3>1, GreatestNode
  <2>3. m \in Ancestors(size, i) /\ m \in D \ B /\ m \in Nat /\ m # i
    BY <1>8, <2>2, NodeIs
  <2>4. LEFT_LEAF(m) \notin Bad /\ RIGHT_LEAF(m) \notin Bad
    <3>1. ~(LEFT_LEAF(m) <= m) /\ ~(RIGHT_LEAF(m) <= m)
      BY <2>3 DEF LEFT_LEAF, RIGHT_LEAF
    <3> HIDE DEF Bad
    <3> QED  BY <2>2, <3>1
  <2>5. g[m] = MAX(g[LEFT_LEAF(m)], g[RIGHT_LEAF(m)])
    BY <1>8, <2>3
  <2> QED  BY <1>2, <2>2, <2>3, <2>4, <2>5 DEF MAX
<1> QED  BY <1>8, <1>9

(* ... and so does the one that buddy_free_pages leaves.                   *)
LEMMA GivenIs ==
  ASSUME NEW size \in Powers, NEW t \in [Nodes(size) -> Nat], NEW i \in Nodes(size)
  PROVE  /\ Given(size, t, i) \in [Nodes(size) -> Nat]
         /\ \A j \in Nodes(size) :
               Given(size, t, i)[j] =
                  IF j = i THEN NodeSize(size, i)
                  ELSE IF j \in Ancestors(size, i)
                       THEN Merged(size, j, Given(size, t, i)[LEFT_LEAF(j)], Given(size, t, i)[RIGHT_LEAF(j)])
                  ELSE t[j]
<1> DEFINE D == Nodes(size)
           B == Nodes(size) \ Ancestors(size, i)
           base == [j \in D |-> IF j = i THEN NodeSize(size, i) ELSE t[j]]
           G == [j \in D |-> [x \in Nat \X Nat |-> Merged(size, j, x[1], x[2])]]
           l == [j \in D |-> LEFT_LEAF(j)]
           r == [j \in D |-> RIGHT_LEAF(j)]
<1>0. \A j \in D : NodeSize(size, j) \in Nat /\ \A x, y \in Nat : Merged(size, j, x, y) \in Nat
  BY NodeIs DEF Merged, MAX
<1>1. PICK N \in Nat : D = 0..N
  <2>1. 2 * size - 2 \in Nat
    BY PowersOrder
  <2> QED  BY <2>1 DEF Nodes
<1>2. \A j \in D \ B : LEFT_LEAF(j) \in D /\ LEFT_LEAF(j) > j /\ RIGHT_LEAF(j) \in D /\ RIGHT_LEAF(j) > j
  <2>1. ASSUME NEW j \in D \ B
        PROVE  LEFT_LEAF(j) \in D /\ LEFT_LEAF(j) > j /\ RIGHT_LEAF(j) \in D /\ RIGHT_LEAF(j) > j
    <3>1. j \in Nodes(size) /\ NodeSize(size, j) # 1
      BY AncestorsOf DEF AncestorsFine
    <3> QED  BY <3>1, Children
  <2> QED  BY <2>1
<1>3. i \notin Ancestors(size, i)
  <2>1. i \in Nat
    BY NodeIs
  <2> QED  BY <2>1, AncestorsOf DEF AncestorsFine
<1>4. base \in [D -> Nat] /\ G \in [D -> [Nat \X Nat -> Nat]]
  BY <1>0
<1>5. PICK f \in [D -> Nat] :
         \A j \in D : f[j] = IF j \in B THEN base[j] ELSE G[j][<<f[l[j]], f[r[j]]>>]
  <2>1. \A j \in D \ B : l[j] \in D /\ l[j] > j /\ r[j] \in D /\ r[j] > j
    BY <1>2
  <2>2. D \in SUBSET (0..N) /\ B \in SUBSET D
    BY <1>1
  <2> HIDE DEF D, B, base, G, l, r
  <2>3. Downward(N, D, Nat, B, base, G, l, r)
    BY <1>4, <2>1, <2>2 DEF Downward
  <2> QED  BY <2>3, Downwards
<1>6. ASSUME NEW j \in D
      PROVE  f[j] = IF j = i THEN NodeSize(size, i)
                    ELSE IF j \in Ancestors(size, i) THEN Merged(size, j, f[LEFT_LEAF(j)], f[RIGHT_LEAF(j)])
                    ELSE t[j]
  <2>1. CASE j \in B
    BY <1>3, <1>5, <2>1
  <2>2. CASE j \notin B
    <3>1. j \in Ancestors(size, i) /\ j # i
      BY <1>3, <2>2
    <3>2. <<f[LEFT_LEAF(j)], f[RIGHT_LEAF(j)]>> \in Nat \X Nat
      BY <1>2, <2>2
    <3>3. f[j] = G[j][<<f[LEFT_LEAF(j)], f[RIGHT_LEAF(j)]>>]
      BY <1>5, <2>2
    <3> QED  BY <3>1, <3>2, <3>3
  <2> QED  BY <2>1, <2>2
<1>7. f = [j \in Nodes(size) |->
             IF j = i THEN NodeSize(size, i)
             ELSE IF j \in Ancestors(size, i) THEN Merged(size, j, f[LEFT_LEAF(j)], f[RIGHT_LEAF(j)])
             ELSE t[j]]
  BY <1>6
<1>8. PICK g : g = Given(size, t, i) /\
        g = [j \in Nodes(size) |->
             IF j = i THEN NodeSize(size, i)
             ELSE IF j \in Ancestors(size, i) THEN Merged(size, j, g[LEFT_LEAF(j)], g[RIGHT_LEAF(j)])
             ELSE t[j]]
  BY <1>7 DEF Given
<1>9. ASSUME NEW j \in Nodes(size) PROVE g[j] \in Nat
  <2> DEFINE Bad == {k \in Nodes(size) : g[k] \notin Nat}
  <2>1. SUFFICES ASSUME Bad # {} PROVE FALSE
    OBVIOUS
  <2>2. PICK m \in Bad : \A k \in Bad : k <= m
    <3>1. Bad \in SUBSET Nodes(size)
      OBVIOUS
    <3> HIDE DEF Bad
    <3> QED  BY <2>1, <3>1, GreatestNode
  <2>3. m \in Ancestors(size, i) /\ m \in D \ B /\ m \in Nat /\ m # i
    BY <1>0, <1>8, <2>2, NodeIs
  <2>4. LEFT_LEAF(m) \notin Bad /\ RIGHT_LEAF(m) \notin Bad
    <3>1. ~(LEFT_LEAF(m) <= m) /\ ~(RIGHT_LEAF(m) <= m)
      BY <2>3 DEF LEFT_LEAF, RIGHT_LEAF
    <3> HIDE DEF Bad
    <3> QED  BY <2>2, <3>1
  <2>5. g[m] = Merged(size, m, g[LEFT_LEAF(m)], g[RIGHT_LEAF(m)])
    BY <1>8, <2>3
  <2>6. m \in D /\ LEFT_LEAF(m) \in D /\ RIGHT_LEAF(m) \in D
    BY <1>2, <2>3
  <2>7. g[LEFT_LEAF(m)] \in Nat /\ g[RIGHT_LEAF(m)] \in Nat
    BY <2>4, <2>6
  <2>8. PICK x \in Nat, y \in Nat : x = g[LEFT_LEAF(m)] /\ y = g[RIGHT_LEAF(m)]
    BY <2>7
  <2>9. Merged(size, m, x, y) \in Nat
    BY <1>0, <2>6
  <2> QED  BY <2>2, <2>5, <2>8, <2>9
<1> QED  BY <1>8, <1>9

(* Before the first allocation every node is full.                         *)
LEMMA FullShape ==
  ASSUME NEW size \in Powers
  PROVE  Shape(size, [i \in Nodes(size) |-> NodeSize(size, i)], {})
<1> DEFINE t == [i \in Nodes(size) |-> NodeSize(size, i)]
<1>1. t \in [Nodes(size) -> Nat]
  BY NodeIs
<1>2. ASSUME NEW i \in Nodes(size) PROVE ShapeAt(size, t, {}, i)
  <2>1. CASE NodeSize(size, i) = 1
    BY <2>1 DEF ShapeAt
  <2>2. CASE NodeSize(size, i) # 1
    <3>1. PICK h \in Nat : /\ LEFT_LEAF(i) \in Nodes(size) /\ RIGHT_LEAF(i) \in Nodes(size)
                           /\ NodeSize(size, i) = 2 * h
                           /\ NodeSize(size, LEFT_LEAF(i)) = h /\ NodeSize(size, RIGHT_LEAF(i)) = h
      <4>1. \A h \in Powers : h \in Nat
        BY PowersOrder
      <4> QED  BY <2>2, <4>1, Children
    <3>2. Merged(size, i, t[LEFT_LEAF(i)], t[RIGHT_LEAF(i)]) = NodeSize(size, i)
      BY <3>1 DEF Merged
    <3> QED  BY <2>2, <3>2 DEF ShapeAt, Live
  <2> QED  BY <2>1, <2>2
<1> QED  BY <1>1, <1>2 DEF Shape

(* Allocating a full node outside of every allocated block adds it to them. *)
LEMMA TakenShape ==
  ASSUME NEW size \in Powers, NEW t, NEW A, Shape(size, t, A),
         NEW i \in Nodes(size), Live(size, A, i), t[i] = NodeSize(size, i)
  PROVE  Shape(size, Taken(size, t, i), A \cup {i})
<1>1. PICK g \in [Nodes(size) -> Nat] :
         /\ g = Taken(size, t, i)
         /\ \A j \in Nodes(size) :
               g[j] = IF j = i THEN 0
                      ELSE IF j \in Ancestors(size, i) THEN MAX(g[LEFT_LEAF(j)], g[RIGHT_LEAF(j)])
                      ELSE t[j]
  BY TakenIs DEF Shape
<1>2. \A j \in Nodes(size) : j \in Nat /\ NodeSize(size, j) \in Nat /\ NodeSize(size, j) >= 1 /\ t[j] \in Nat /\ g[j] \in Nat
  BY NodeIs DEF Shape
<1>3. i \notin A /\ Below(size, i) \cap A = {} /\ A \subseteq Nodes(size)
  BY <1>2, ShapeFull DEF Shape, ShapeAt
<1>4. i \notin Ancestors(size, i)
  BY <1>2, AncestorsOf DEF AncestorsFine
<1>5. ASSUME NEW a \in A \cup {i} PROVE Live(size, A \cup {i}, a)
  BY <1>3, <1>4 DEF Shape, Live, Below
<1>6. \A x \in Nodes(size) : g[x] <= NodeSize(size, x) /\ (x = i \/ x \in Ancestors(size, i) => g[x] < NodeSize(size, x))
  <2> DEFINE Bad == {x \in Nodes(size) :
                ~(g[x] <= NodeSize(size, x) /\ (x = i \/ x \in Ancestors(size, i) => g[x] < NodeSize(size, x)))}
  <2>1. SUFFICES ASSUME Bad # {} PROVE FALSE
    OBVIOUS
  <2>2. PICK m \in Bad : \A k \in Bad : k <= m
    <3>1. Bad \in SUBSET Nodes(size)
      OBVIOUS
    <3> HIDE DEF Bad
    <3> QED  BY <2>1, <3>1, GreatestNode
  <2>3. m \in Ancestors(size, i) /\ m # i
    <3>1. m # i
      BY <1>1, <1>2, <2>2
    <3>2. m \in Nodes(size) /\ t[m] <= NodeSize(size, m)
      BY <2>2, ShapeBounds
    <3> QED  BY <1>1, <2>2, <3>1, <3>2
  <2>4. NodeSize(size, m) # 1
    BY <2>3, AncestorsOf DEF AncestorsFine
  <2>5. PICK l \in Nodes(size), r \in Nodes(size), h \in Nat :
         /\ l = LEFT_LEAF(m) /\ r = RIGHT_LEAF(m) /\ l > m /\ r > m /\ h >= 1
         /\ NodeSize(size, m) = 2 * h /\ NodeSize(size, l) = h /\ NodeSize(size, r) = h
    <3>1. \A h \in Powers : h \in Nat /\ h >= 1
      BY PowersOrder
    <3> QED  BY <2>2, <2>4, <3>1, Children
  <2>6. l \notin Bad /\ r \notin Bad
    <3>1. ~(l <= m) /\ ~(r <= m)
      BY <1>2, <2>2, <2>5
    <3> HIDE DEF Bad
    <3> QED  BY <2>2, <3>1
  <2>7. g[l] <= h /\ g[r] <= h
    BY <2>5, <2>6
  <2>8. g[m] = MAX(g[l], g[r])
    BY <1>1, <2>2, <2>3, <2>5
  <2>9. g[m] < NodeSize(size, m)
    BY <1>2, <2>5, <2>7, <2>8 DEF MAX
  <2> QED  BY <1>2, <2>2, <2>9
<1>7. ASSUME NEW j \in Nodes(size) PROVE ShapeAt(size, g, A \cup {i}, j)
  <2>1. CASE j = i
    BY <1>1, <2>1 DEF ShapeAt
  <2>2. CASE j \in Ancestors(size, i)
    <3>1. j # i /\ j \notin A /\ NodeSize(size, j) # 1
      BY <1>4, <2>2, AncestorsOf DEF AncestorsFine, Live
    <3>2. PICK l \in Nodes(size), r \in Nodes(size), h \in Nat :
         /\ l = LEFT_LEAF(j) /\ r = RIGHT_LEAF(j)
         /\ NodeSize(size, j) = 2 * h /\ NodeSize(size, l) = h /\ NodeSize(size, r) = h
      <4>1. \A h \in Powers : h \in Nat
        BY PowersOrder
      <4> QED  BY <3>1, <4>1, Children
    <3>3. l = i \/ l \in Ancestors(size, i) \/ r = i \/ r \in Ancestors(size, i)
      BY <2>2, <3>2, AncestorsOf DEF AncestorsFine
    <3>4. g[l] <= h /\ g[r] <= h /\ (g[l] < h \/ g[r] < h)
      BY <1>6, <3>2, <3>3
    <3>5. g[j] = Merged(size, j, g[l], g[r])
      <4>1. g[j] = MAX(g[l], g[r])
        BY <1>1, <2>2, <3>1, <3>2
      <4>2. g[l] + g[r] # NodeSize(size, j)
        BY <1>2, <3>2, <3>4
      <4> QED  BY <4>1, <4>2 DEF Merged
    <3>6. Live(size, A \cup {i}, j)
      <4>1. Ancestors(size, j) \subseteq Ancestors(size, i)
        BY <2>2, AncestorsOf DEF AncestorsFine
      <4> QED  BY <1>4, <4>1 DEF Live
    <3> QED  BY <3>1, <3>2, <3>5, <3>6 DEF ShapeAt
  <2>3. CASE j # i /\ j \notin Ancestors(size, i)
    <3>1. g[j] = t[j] /\ ShapeAt(size, t, A, j)
      BY <1>1, <2>3 DEF Shape
    <3>2. CASE j \in A \/ NodeSize(size, j) = 1 \/ ~Live(size, A, j)
      BY <2>3, <3>1, <3>2 DEF ShapeAt, Live
    <3>3. CASE i \in Ancestors(size, j)
      <4>1. Below(size, j) \cap A = {}
        BY <1>3, <3>3, AncestorsOf DEF Below, AncestorsFine
      <4>2. t[j] = NodeSize(size, j)
        BY <4>1, ShapeEmpty
      <4>3. ~Live(size, A \cup {i}, j) /\ j \notin A
        BY <3>3, <4>1 DEF Live, Below
      <4> QED  BY <2>3, <3>1, <4>2, <4>3 DEF ShapeAt
    <3>4. CASE i \notin Ancestors(size, j) /\ j \notin A /\ NodeSize(size, j) # 1 /\ Live(size, A, j)
      <4>1. PICK l \in Nodes(size), r \in Nodes(size) :
               /\ l = LEFT_LEAF(j) /\ r = RIGHT_LEAF(j)
               /\ j \in Ancestors(size, l) /\ j \in Ancestors(size, r)
        BY <3>4, Children, BelowIs
      <4>2. l # i /\ r # i /\ l \notin Ancestors(size, i) /\ r \notin Ancestors(size, i)
        BY <2>3, <4>1, AncestorsOf DEF AncestorsFine
      <4>3. g[l] = t[l] /\ g[r] = t[r]
        BY <1>1, <4>2
      <4>4. t[j] = Merged(size, j, t[l], t[r])
        BY <3>1, <3>4, <4>1 DEF ShapeAt
      <4>5. Live(size, A \cup {i}, j)
        BY <3>4 DEF Live
      <4> QED  BY <2>3, <3>1, <3>4, <4>1, <4>3, <4>4, <4>5 DEF ShapeAt
    <3> QED  BY <3>2, <3>3, <3>4
  <2> QED  BY <2>1, <2>2, <2>3
<1> QED  BY <1>1, <1>3, <1>5, <1>7 DEF Shape

(* Giving an allocated block back removes its node from them. *)
LEMMA GivenShape ==
  ASSUME NEW size \in Powers, NEW t, NEW A, Shape(size, t, A), NEW i \in A
  PROVE  Shape(size, Given(size, t, i), A \ {i})
<1>0. i \in Nodes(size) /\ Live(size, A, i) /\ A \subseteq Nodes(size)
  BY DEF Shape
<1>1. PICK g \in [Nodes(size) -> Nat] :
         /\ g = Given(size, t, i)
         /\ \A j \in Nodes(size) :
               g[j] = IF j = i THEN NodeSize(size, i)
                      ELSE IF j \in Ancestors(size, i)
                           THEN Merged(size, j, g[LEFT_LEAF(j)], g[RIGHT_LEAF(j)])
                      ELSE t[j]
  BY <1>0, GivenIs DEF Shape
<1>2. \A j \in Nodes(size) : j \in Nat /\ NodeSize(size, j) \in Nat
  BY NodeIs
<1>4. i \notin Ancestors(size, i)
  BY <1>0, <1>2, AncestorsOf DEF AncestorsFine
<1>5. ASSUME NEW a \in A \ {i} PROVE Live(size, A \ {i}, a)
  BY DEF Shape, Live
<1>6. ASSUME NEW j \in Nodes(size), j \notin Ancestors(size, i), NodeSize(size, j) # 1
      PROVE  /\ LEFT_LEAF(j) \in Nodes(size) /\ RIGHT_LEAF(j) \in Nodes(size)
             /\ g[LEFT_LEAF(j)] = t[LEFT_LEAF(j)] /\ g[RIGHT_LEAF(j)] = t[RIGHT_LEAF(j)]
  <2>1. PICK l \in Nodes(size), r \in Nodes(size) :
           /\ l = LEFT_LEAF(j) /\ r = RIGHT_LEAF(j)
           /\ j \in Ancestors(size, l) /\ j \in Ancestors(size, r)
    BY <1>6, Children, BelowIs
  <2>2. l # i /\ r # i /\ l \notin Ancestors(size, i) /\ r \notin Ancestors(size, i)
    BY <1>0, <1>6, <2>1, AncestorsOf DEF AncestorsFine
  <2> QED  BY <1>1, <2>1, <2>2
<1>7. ASSUME NEW j \in Nodes(size), j = i \/ ~Live(size, A, j), NodeSize(size, j) # 1
      PROVE  Merged(size, j, t[LEFT_LEAF(j)], t[RIGHT_LEAF(j)]) = NodeSize(size, j)
  <2>1. PICK l \in Nodes(size), r \in Nodes(size), h \in Nat :
         /\ l = LEFT_LEAF(j) /\ r = RIGHT_LEAF(j)
         /\ NodeSize(size, j) = 2 * h /\ NodeSize(size, l) = h /\ NodeSize(size, r) = h
    <3>1. \A h \in Powers : h \in Nat
      BY PowersOrder
    <3> QED  BY <1>7, <3>1, Children
  <2>2. Ancestors(size, l) = Ancestors(size, j) \cup {j} /\ Ancestors(size, r) = Ancestors(size, j) \cup {j}
    BY <1>7, <2>1, BelowIs
  <2>3. ~Live(size, A, l) /\ ~Live(size, A, r)
    BY <1>7, <2>2 DEF Live
  <2>4. l \notin A /\ r \notin A
    BY <2>3 DEF Shape
  <2>5. t[l] = h /\ t[r] = h
    BY <2>1, <2>3, <2>4 DEF Shape, ShapeAt
  <2> QED  BY <2>1, <2>5 DEF Merged
<1>8. ASSUME NEW j \in Nodes(size) PROVE ShapeAt(size, g, A \ {i}, j)
  <2>1. CASE j = i
    <3>1. g[j] = NodeSize(size, j) /\ j \notin A \ {i}
      BY <1>1, <2>1
    <3>2. NodeSize(size, j) # 1 => Merged(size, j, g[LEFT_LEAF(j)], g[RIGHT_LEAF(j)]) = NodeSize(size, j)
      BY <1>4, <1>6, <1>7, <2>1
    <3> QED  BY <3>1, <3>2 DEF ShapeAt
  <2>2. CASE j \in Ancestors(size, i)
    <3>1. j # i /\ j \notin A /\ NodeSize(size, j) # 1 /\ Ancestors(size, j) \subseteq Ancestors(size, i)
      BY <1>0, <1>4, <2>2, AncestorsOf DEF AncestorsFine, Live
    <3>2. g[j] = Merged(size, j, g[LEFT_LEAF(j)], g[RIGHT_LEAF(j)])
      BY <1>1, <2>2, <3>1
    <3>3. Live(size, A \ {i}, j)
      BY <1>0, <3>1 DEF Live
    <3> QED  BY <3>1, <3>2, <3>3 DEF ShapeAt
  <2>3. CASE j # i /\ j \notin Ancestors(size, i)
    <3>1. g[j] = t[j] /\ ShapeAt(size, t, A, j)
      BY <1>1, <2>3 DEF Shape
    <3>2. CASE j \in A \/ NodeSize(size, j) = 1
      BY <2>3, <3>1, <3>2 DEF ShapeAt
    <3>3. CASE j \notin A /\ NodeSize(size, j) # 1 /\ Live(size, A, j)
      <4>1. Live(size, A \ {i}, j)
        BY <3>3 DEF Live
      <4> QED  BY <1>6, <2>3, <3>1, <3>3, <4>1 DEF ShapeAt
    <3>4. CASE j \notin A /\ NodeSize(size, j) # 1 /\ ~Live(size, A, j)
      <4>1. Merged(size, j, g[LEFT_LEAF(j)], g[RIGHT_LEAF(j)]) = NodeSize(size, j)
        BY <1>6, <1>7, <2>3, <3>4
      <4>2. g[j] = NodeSize(size, j)
        BY <3>1, <3>4 DEF ShapeAt
      <4> QED  BY <3>4, <4>1, <4>2 DEF ShapeAt
    <3> QED  BY <3>2, <3>3, <3>4
  <2> QED  BY <2>1, <2>2, <2>3
<1> QED  BY <1>0, <1>1, <1>5, <1>8 DEF Shape

(* The nodes without an allocated page. *)
Vacant(size, A) == {j \in Nodes(size) : Live(size, A, j) /\ Below(size, j) \cap A = {}}

(* A node outside of every allocated block holds the size of the largest   *)
(* vacant node below it.                                                   *)
ValueAt(size, t, A, i) ==
    /\ \A j \in Below(size, i) \cap Vacant(size, A) : NodeSize(size, j) <= t[i]
    /\ t[i] = 0 \/ \E j \in Below(size, i) \cap Vacant(size, A) : NodeSize(size, j) = t[i]

(* In a tree with the allocated nodes A, longest is at every node that is  *)
(* not inside one of them the size of the largest vacant node below it.    *)
LEMMA ShapeValue ==
  ASSUME NEW size \in Powers, NEW t, NEW A, Shape(size, t, A),
         NEW i \in Nodes(size), Live(size, A, i)
  PROVE  ValueAt(size, t, A, i)
<1> DEFINE Bad == {k \in Nodes(size) : Live(size, A, k) /\ ~ValueAt(size, t, A, k)}
<1>1. SUFFICES ASSUME Bad # {} PROVE FALSE
  OBVIOUS
<1>2. PICK m \in Bad : \A k \in Bad : k <= m
  <2>1. Bad \in SUBSET Nodes(size)
    OBVIOUS
  <2> HIDE DEF Bad
  <2> QED  BY <1>1, <2>1, GreatestNode
<1>3. \A j \in Nodes(size) : j \in Nat /\ NodeSize(size, j) \in Nat /\ t[j] \in Nat /\ t[j] <= NodeSize(size, j)
  BY NodeIs, ShapeBounds DEF Shape
<1>4. /\ m \in Nodes(size) /\ Live(size, A, m) /\ ~ValueAt(size, t, A, m)
      /\ ShapeAt(size, t, A, m) /\ m \in Below(size, m)
  BY <1>2 DEF Shape, Below
<1>5. m \notin A
  <2>1. m \in A => t[m] = 0 /\ Below(size, m) \cap Vacant(size, A) = {}
    BY <1>4 DEF ShapeAt, Vacant, Below, Live
  <2> QED  BY <1>4, <2>1 DEF ValueAt
<1>6. ASSUME NEW j \in Below(size, m) PROVE j \in Nodes(size) /\ NodeSize(size, j) <= NodeSize(size, m)
  <2>1. j \in Nodes(size)
    BY DEF Below
  <2>2. j = m \/ NodeSize(size, j) < NodeSize(size, m)
    BY <2>1, AncestorsOf DEF Below, AncestorsFine
  <2> QED  BY <1>3, <1>4, <2>1, <2>2
<1>7. Below(size, m) \cap A # {}
  <2>1. ASSUME Below(size, m) \cap A = {} PROVE FALSE
    <3>1. t[m] = NodeSize(size, m) /\ m \in Vacant(size, A)
      BY <1>4, <2>1, ShapeEmpty DEF Vacant
    <3> QED  BY <1>4, <1>6, <3>1 DEF ValueAt
  <2> QED  BY <2>1
<1>8. t[m] # NodeSize(size, m) /\ m \notin Vacant(size, A)
  BY <1>4, <1>7, ShapeFull DEF Vacant
<1>9. NodeSize(size, m) # 1
  BY <1>4, <1>5, <1>8 DEF ShapeAt
<1>10. PICK l \in Nodes(size), r \in Nodes(size) : l = LEFT_LEAF(m) /\ r = RIGHT_LEAF(m) /\ l > m /\ r > m
  BY <1>4, <1>9, Children
<1>11. /\ Below(size, m) = {m} \cup Below(size, l) \cup Below(size, r)
       /\ Ancestors(size, l) = Ancestors(size, m) \cup {m} /\ Ancestors(size, r) = Ancestors(size, m) \cup {m}
  BY <1>4, <1>9, <1>10, BelowIs
<1>12. ValueAt(size, t, A, l) /\ ValueAt(size, t, A, r)
  <2>1. Live(size, A, l) /\ Live(size, A, r)
    BY <1>4, <1>5, <1>11 DEF Live
  <2>2. l \notin Bad /\ r \notin Bad
    <3>1. ~(l <= m) /\ ~(r <= m)
      BY <1>3, <1>4, <1>10
    <3> HIDE DEF Bad
    <3> QED  BY <1>2, <3>1
  <2> QED  BY <2>1, <2>2
<1>13. t[m] = MAX(t[l], t[r])
  BY <1>4, <1>5, <1>8, <1>9, <1>10 DEF ShapeAt, Merged
<1>14. t[l] <= t[m] /\ t[r] <= t[m] /\ (t[m] = t[l] \/ t[m] = t[r])
  BY <1>3, <1>13 DEF MAX
<1>15. ASSUME NEW j \in Below(size, m) \cap Vacant(size, A) PROVE NodeSize(size, j) <= t[m]
  <2>1. j \in Below(size, l) \/ j \in Below(size, r)
    BY <1>8, <1>11
  <2>2. NodeSize(size, j) <= t[l] \/ NodeSize(size, j) <= t[r]
    BY <1>12, <2>1 DEF ValueAt
  <2> QED  BY <1>3, <1>4, <1>6, <1>14, <2>2
<1>16. t[m] = 0 \/ \E j \in Below(size, m) \cap Vacant(size, A) : NodeSize(size, j) = t[m]
  BY <1>11, <1>12, <1>14 DEF ValueAt
<1> QED  BY <1>4, <1>15, <1>16 DEF ValueAt

(* Powers of two are positive numbers.                                     *)
LEMMA PowersNat == \A p \in Powers : p \in Nat /\ p >= 1
BY PowersOrder

(* A tree of n pages whose root says that a node of size pages is free,    *)
(* and what the walk of buddy_alloc finds in it.                           *)
HasRoom(n, b, A, size) ==
  n \in Powers /\ size \in Powers /\ b.size = n /\ Shape(n, b.longest, A) /\ b.longest[0] >= size

FindsFree(n, b, A, size) ==
  /\ Found(b, size) \in Nodes(n) /\ NodeSize(n, Found(b, size)) = size
  /\ Live(n, A, Found(b, size)) /\ b.longest[Found(b, size)] = size

(* The walk down from the root ends at a free node of the size asked for.  *)
LEMMA FoundIs ==
  ASSUME NEW n, NEW b, NEW A, NEW size, HasRoom(n, b, A, size)
  PROVE  FindsFree(n, b, A, size)
<1> n \in Powers /\ size \in Powers /\ b.size = n /\ Shape(n, b.longest, A) /\ b.longest[0] >= size
  BY DEF HasRoom
<1> DEFINE D == {j \in Nodes(n) : NodeSize(n, j) >= size}
           B == {j \in D : NodeSize(n, j) = size}
           V == Nodes(n)
           base == [j \in D |-> j]
           G == [j \in D |-> [x \in V \X V |-> IF b.longest[LEFT_LEAF(j)] >= size THEN x[1] ELSE x[2]]]
           l == [j \in D |-> LEFT_LEAF(j)]
           r == [j \in D |-> RIGHT_LEAF(j)]
<1>1. PICK N \in Nat : V = 0..N
  <2>1. 2 * n - 2 \in Nat
    BY PowersNat
  <2> QED  BY <2>1 DEF Nodes
<1>2. /\ size \in Nat /\ size >= 1
      /\ \A j \in V : /\ j \in Nat /\ NodeSize(n, j) \in Nat /\ b.longest[j] \in Nat
                      /\ b.longest[j] <= NodeSize(n, j)
  BY PowersNat, NodeIs, ShapeBounds DEF Shape
<1>3. \A j \in D \ B :
         /\ LEFT_LEAF(j) \in D /\ LEFT_LEAF(j) > j /\ RIGHT_LEAF(j) \in D /\ RIGHT_LEAF(j) > j
         /\ \E h \in Nat : /\ NodeSize(n, j) = 2 * h
                           /\ NodeSize(n, LEFT_LEAF(j)) = h /\ NodeSize(n, RIGHT_LEAF(j)) = h
  <2>1. SUFFICES ASSUME NEW j \in D \ B
        PROVE  /\ LEFT_LEAF(j) \in D /\ LEFT_LEAF(j) > j /\ RIGHT_LEAF(j) \in D /\ RIGHT_LEAF(j) > j
               /\ \E h \in Nat : /\ NodeSize(n, j) = 2 * h
                                 /\ NodeSize(n, LEFT_LEAF(j)) = h /\ NodeSize(n, RIGHT_LEAF(j)) = h
    OBVIOUS
  <2>2. j \in Nodes(n) /\ NodeSize(n, j) > size /\ NodeSize(n, j) # 1
    BY <1>2
  <2>3. PICK h \in Nat :
           /\ LEFT_LEAF(j) \in Nodes(n) /\ RIGHT_LEAF(j) \in Nodes(n)
           /\ LEFT_LEAF(j) > j /\ RIGHT_LEAF(j) > j
           /\ NodeSize(n, j) = 2 * h
           /\ NodeSize(n, LEFT_LEAF(j)) = h /\ NodeSize(n, RIGHT_LEAF(j)) = h
    <3>1. \A h \in Powers : h \in Nat
      BY PowersOrder
    <3> QED  BY <2>2, <3>1, Children
  <2>4. h >= size
    <3>1. PICK s \in Powers : s = NodeSize(n, j)
      BY <2>2, NodeIs
    <3>2. 2 * size <= s
      BY <2>2, <3>1, <1>2, PowersOrder
    <3> QED  BY <1>2, <2>3, <3>1, <3>2
  <2> QED  BY <2>3, <2>4
<1>4. base \in [D -> V] /\ G \in [D -> [V \X V -> V]]
  OBVIOUS
<1>5. PICK f \in [D -> V] :
         \A j \in D : f[j] = IF j \in B THEN base[j] ELSE G[j][<<f[l[j]], f[r[j]]>>]
  <2>1. \A j \in D \ B : l[j] \in D /\ l[j] > j /\ r[j] \in D /\ r[j] > j
    BY <1>3
  <2>2. D \in SUBSET (0..N) /\ B \in SUBSET D
    BY <1>1
  <2> HIDE DEF D, B, V, base, G, l, r
  <2>3. Downward(N, D, V, B, base, G, l, r)
    BY <1>4, <2>1, <2>2 DEF Downward
  <2> QED  BY <2>3, Downwards
<1>6. ASSUME NEW j \in D
      PROVE  f[j] = IF NodeSize(n, j) = size THEN j
                    ELSE IF b.longest[LEFT_LEAF(j)] >= size THEN f[LEFT_LEAF(j)]
                    ELSE f[RIGHT_LEAF(j)]
  <2>1. CASE j \in B
    BY <1>5, <2>1
  <2>2. CASE j \notin B
    <3>1. NodeSize(n, j) # size /\ LEFT_LEAF(j) \in D /\ RIGHT_LEAF(j) \in D
      BY <1>3, <2>2
    <3>2. <<f[LEFT_LEAF(j)], f[RIGHT_LEAF(j)]>> \in V \X V
      BY <1>5, <3>1
    <3>3. f[j] = G[j][<<f[LEFT_LEAF(j)], f[RIGHT_LEAF(j)]>>]
      BY <1>5, <2>2
    <3> QED  BY <3>1, <3>2, <3>3
  <2> QED  BY <2>1, <2>2
<1>7. f = [j \in {j \in Nodes(b.size) : NodeSize(b.size, j) >= size} |->
             IF NodeSize(b.size, j) = size THEN j
             ELSE IF b.longest[LEFT_LEAF(j)] >= size THEN f[LEFT_LEAF(j)]
             ELSE f[RIGHT_LEAF(j)]]
  <2>1. f = [j \in D |->
                IF NodeSize(n, j) = size THEN j
                ELSE IF b.longest[LEFT_LEAF(j)] >= size THEN f[LEFT_LEAF(j)]
                ELSE f[RIGHT_LEAF(j)]]
    BY <1>6
  <2> QED  BY <2>1, b.size = n
<1>8. PICK g : g[0] = Found(b, size) /\
        g = [j \in {j \in Nodes(b.size) : NodeSize(b.size, j) >= size} |->
             IF NodeSize(b.size, j) = size THEN j
             ELSE IF b.longest[LEFT_LEAF(j)] >= size THEN g[LEFT_LEAF(j)]
             ELSE g[RIGHT_LEAF(j)]]
  BY <1>7 DEF Found
<1>8a. ASSUME NEW j \in D
       PROVE  g[j] = IF NodeSize(n, j) = size THEN j
                     ELSE IF b.longest[LEFT_LEAF(j)] >= size THEN g[LEFT_LEAF(j)]
                     ELSE g[RIGHT_LEAF(j)]
  BY <1>8, b.size = n
<1> DEFINE Good(i) == /\ i \in Nodes(n) /\ NodeSize(n, i) = size
                      /\ Live(n, A, i) /\ b.longest[i] = size
           Bad == {j \in D : Live(n, A, j) /\ b.longest[j] >= size /\ ~Good(g[j])}
<1>9. Bad = {}
  <2>1. SUFFICES ASSUME Bad # {} PROVE FALSE
    OBVIOUS
  <2>2. PICK m \in Bad : \A k \in Bad : k <= m
    <3>1. Bad \in SUBSET Nodes(n)
      OBVIOUS
    <3> HIDE DEF Bad
    <3> QED  BY <2>1, <3>1, GreatestNode
  <2>3. /\ m \in D /\ m \in Nodes(n) /\ Live(n, A, m) /\ b.longest[m] >= size /\ ~Good(g[m])
        /\ m \in Nat
    BY <1>2, <2>2
  <2>4. NodeSize(n, m) # size
    BY <1>2, <1>8a, <2>3
  <2>5. m \notin A /\ NodeSize(n, m) # 1
    BY <1>2, <2>3, <2>4 DEF Shape, ShapeAt
  <2>6. PICK h \in Nat, x \in D, y \in D :
           /\ x = LEFT_LEAF(m) /\ y = RIGHT_LEAF(m) /\ x > m /\ y > m
           /\ NodeSize(n, m) = 2 * h /\ NodeSize(n, x) = h /\ NodeSize(n, y) = h
    <3>1. m \in D \ B
      BY <2>3, <2>4
    <3> QED  BY <1>3, <3>1
  <2>7. b.longest[m] = Merged(n, m, b.longest[x], b.longest[y])
    BY <2>3, <2>5, <2>6 DEF Shape, ShapeAt
  <2>8. h >= size
    BY <2>6
  <2>9. b.longest[x] >= size \/ b.longest[y] >= size
    <3>1. /\ b.longest[x] \in Nat /\ b.longest[y] \in Nat /\ b.longest[x] <= h /\ b.longest[y] <= h
      BY <1>2, <2>6
    <3> QED  BY <1>2, <2>3, <2>6, <2>7, <2>8, <3>1 DEF Merged, MAX
  <2>10. Live(n, A, x) /\ Live(n, A, y)
    <3>1. Ancestors(n, x) = Ancestors(n, m) \cup {m} /\ Ancestors(n, y) = Ancestors(n, m) \cup {m}
      BY <2>3, <2>5, <2>6, BelowIs
    <3> QED  BY <2>3, <2>5, <3>1 DEF Live
  <2>11. x \notin Bad /\ y \notin Bad
    <3>1. ~(x <= m) /\ ~(y <= m)
      BY <1>2, <2>3, <2>6
    <3> HIDE DEF Bad
    <3> QED  BY <2>2, <3>1
  <2>12. (b.longest[x] >= size => Good(g[x])) /\ (b.longest[y] >= size => Good(g[y]))
    BY <2>10, <2>11
  <2>13. g[m] = IF b.longest[x] >= size THEN g[x] ELSE g[y]
    BY <1>8a, <2>3, <2>4, <2>6
  <2> QED  BY <2>3, <2>9, <2>12, <2>13
<1>10. 0 \in D /\ Live(n, A, 0)
  <2>1. 0 \in Nodes(n) /\ Ancestors(n, 0) = {}
    BY RootIs, AncestorsAre
  <2>2. NodeSize(n, 0) >= size
    BY <1>2, <2>1
  <2> QED  BY <2>1, <2>2 DEF Live
<1>11. Good(g[0])
  BY <1>9, <1>10
<1> QED  BY <1>8, <1>11 DEF FindsFree

-----------------------------------------------------------------------------
(* Requests and regions                                                    *)

(* next_power_of_2 finds a power for every number of pages of memory ...   *)
LEMMA NextPower ==
  ASSUME NEW n \in 1..NPage
  PROVE  /\ next_power_of_2(n) \in Powers
         /\ next_power_of_2(n) > n /\ next_power_of_2(n) <= 2 * n
<1>1. PICK top \in Powers : top = Power[NPage] /\ n \in Nat /\ n >= 1 /\ n < top
  <2>1. NPage \in 0..NPage
    BY PowerIs
  <2> QED  BY <2>1, PowerIs, PowerPositive DEF Powers
<1>2. PICK p \in Powers : p <= n /\ n < 2 * p
  <2>1. n \in Nat /\ n >= 1 /\ n <= Power[NPage]
    BY <1>1, PowersNat
  <2> QED  BY <2>1, Bracket
<1>3. p \in Nat /\ p < top
  BY <1>1, <1>2, PowersNat
<1>4. 2 * p \in Powers /\ 2 * p > n /\ 2 * p <= 2 * n
  <2>1. 2 * p \in Powers
    BY <1>3, PowersOrder
  <2> QED  BY <1>1, <1>2, <1>3, <2>1
<1>5. /\ next_power_of_2(n) \in Powers
      /\ next_power_of_2(n) > n /\ (next_power_of_2(n) = 1 \/ next_power_of_2(n) <= 2 * n)
  BY <1>4 DEF next_power_of_2
<1> QED  BY <1>1, <1>5

(* ... and a request is rounded up to less than twice its size.            *)
LEMMA RoundedIs ==
  ASSUME NEW n \in 1..(NPage + 1)
  PROVE  Rounded(n) \in Powers /\ n <= Rounded(n) /\ Rounded(n) < 2 * n
<1>1. PICK top \in Powers : top = Power[NPage] /\ n \in Nat /\ n >= 1 /\ n <= top
  <2>1. NPage \in 0..NPage
    BY PowerIs
  <2> QED  BY <2>1, PowerIs, PowerPositive DEF Powers
<1>2. CASE n \in Powers
  BY <1>1, <1>2 DEF Rounded, IS_POWER_OF_2
<1>3. CASE n \notin Powers
  <2>1. PICK p \in Powers : p <= n /\ n < 2 * p
    BY <1>1, Bracket
  <2>2. p \in Nat /\ p < n /\ p < top
    BY <1>1, <1>3, <2>1, PowersNat
  <2>3. 2 * p \in Powers /\ 2 * p > n /\ 2 * p <= 2 * n
    <3>1. 2 * p \in Powers
      BY <2>2, PowersOrder
    <3> QED  BY <1>1, <2>1, <2>2, <3>1
  <2>4. PICK q \in Powers : q = next_power_of_2(n) /\ q > n /\ (q = 1 \/ q <= 2 * n)
    BY <2>3 DEF next_power_of_2
  <2>5. q \in Nat /\ q <= 2 * n
    BY <1>1, <2>4, PowersNat
  <2>6. q # 2 * n
    <3>1. ASSUME q = 2 * n PROVE FALSE
      <4>1. PICK h \in Powers : q = 2 * h
        <5>1. q # 1
          BY <1>1, <2>4, <2>5
        <5> QED  BY <5>1, PowersOrder
      <4> QED  BY <1>1, <1>3, <3>1, <4>1, PowersNat
    <3> QED  BY <3>1
  <2>7. Rounded(n) = q
    BY <1>3, <2>4 DEF Rounded, IS_POWER_OF_2
  <2> QED  BY <1>1, <2>4, <2>5, <2>6, <2>7
<1> QED  BY <1>2, <1>3

(* The node that init_memmap takes out of the tree of a region.            *)
EndNode(l) == 2 * (l.size \div l.v_alloced_size) - 2

(* What buddy_init_memmap computes for a region: the tree begins behind at *)
(* least one page of array, it gives away fewer pages than the region has, *)
(* and the block cut off its right end is a node, EndNode.                 *)
LEMMA LayoutIs ==
  ASSUME NEW k \in 1..Len(Zones)
  PROVE  /\ Zones[k].base \in Nat /\ Zones[k].n \in Nat
         /\ Layout(Zones[k]).size \in Powers
         /\ Layout(Zones[k]).begin_page \in Nat /\ Layout(Zones[k]).begin_page > Zones[k].base
         /\ Layout(Zones[k]).free_size \in Nat /\ Layout(Zones[k]).free_size < Zones[k].n
         /\ Layout(Zones[k]).free_size < Layout(Zones[k]).size
         /\ EndNode(Layout(Zones[k])) \in Nodes(Layout(Zones[k]).size)
         /\ NodeOffset(Layout(Zones[k]).size, EndNode(Layout(Zones[k]))) = Layout(Zones[k]).free_size
         /\ NodeSize(Layout(Zones[k]).size, EndNode(Layout(Zones[k]))) =
               Layout(Zones[k]).size - Layout(Zones[k]).free_size
<1>1. PICK z \in [base : Nat, n : Nat \ {0}] : z = Zones[k] /\ Run(z.base, z.n) \subseteq Page
  <2>1. Zones[k] \in [base : Nat, n : Nat \ {0}]
    BY ZonesAssumption, ToSetIndex
  <2> QED  BY <2>1, ZonesAssumption
<1>2. z.base \in Nat /\ z.n \in 1..NPage
  <2>1. z.base + z.n - 1 \in Run(z.base, z.n)
    BY DEF Run
  <2> QED  BY <1>1, <2>1, BuddyAssumption DEF Page
<1>3. PICK n \in Nat, v \in Nat :
         z.n = n /\ v = next_power_of_2(n) /\ v \in Powers /\ n >= 1 /\ n < v /\ v <= 2 * n
  <2>1. PICK n \in 1..NPage : z.n = n
    BY <1>2
  <2>2. next_power_of_2(n) \in Powers /\ next_power_of_2(n) > n /\ next_power_of_2(n) <= 2 * n
    BY NextPower
  <2> QED  BY <2>1, <2>2, PowersNat
<1>4. v - n \in 1..NPage
  BY <1>2, <1>3, BuddyAssumption
<1>5. PICK a \in Nat : a = next_power_of_2(v - n) /\ a \in Powers /\ a > v - n /\ a <= 2 * (v - n)
  BY <1>4, NextPower, PowersNat
<1>6. a <= v /\ a >= 1
  BY <1>3, <1>5
<1>7. PICK c \in Nat : v = a * c /\ c >= 1
  <2>1. PICK c \in Powers : v = a * c
    BY <1>3, <1>5, <1>6, PowersOrder
  <2> QED  BY <2>1, PowersOrder
<1>8. PICK l : l = Layout(z)
  OBVIOUS
<1>9. PICK e \in Nat : e = (v + PerPage - 1) \div PerPage /\ e >= 1
  <2>1. PICK d \in Nat : d = PerPage /\ d >= 1
    BY BuddyAssumption
  <2>2. v >= 1 /\ d >= 1
    BY <1>3, <2>1
  <2>3. (v + d - 1) \div d \in Nat /\ (v + d - 1) \div d >= 1
    BY ONLY <2>2, v \in Nat, d \in Nat
  <2> QED  BY <2>1, <2>3
<1>10. l.size = v /\ l.begin_page = z.base + e /\ l.free_size = v - a /\ l.v_alloced_size = a
  BY <1>3, <1>5, <1>8, <1>9 DEF Layout
<1>11. EndNode(l) = 2 * c - 2
  <2>1. v \div a = c
    BY <1>6, <1>7
  <2> QED  BY <1>10, <2>1 DEF EndNode
<1>12. 2 * c - 2 \in Nat /\ (2 * c - 2) + 1 = 2 * c - 1 /\ (2 * c - 1) * a = 2 * v - a
  <2>1. 2 * c - 1 \in Nat /\ (2 * c - 1) * a = 2 * (a * c) - a
    BY ONLY <1>7, a \in Nat, c \in Nat
  <2> QED  BY <1>7, <2>1
<1>13. 2 * c - 2 \in Nodes(v)
  <2>1. c <= a * c
    BY ONLY <1>6, <1>7, a \in Nat, c \in Nat
  <2> QED  BY <1>7, <1>12, <2>1 DEF Nodes
<1>14. NodeBounds(v, 2 * c - 2, a)
  BY <1>3, <1>6, <1>12 DEF NodeBounds
<1>15. NodeSize(v, 2 * c - 2) = a
  BY <1>3, <1>5, <1>12, <1>14, NodeSizeIs
<1>16. NodeOffset(v, 2 * c - 2) = v - a
  <2>1. NodeOffset(v, 2 * c - 2) = ((2 * c - 2) + 1) * a - v
    BY <1>15 DEF NodeOffset
  <2> QED  BY <1>12, <2>1
<1>17. v - a \in Nat /\ v - a < n /\ v - a < v /\ v - (v - a) = a
  <2>1. a <= v /\ a >= 1 /\ a > v - n
    BY <1>5, <1>6
  <2> QED  BY ONLY <2>1, a \in Nat, v \in Nat, n \in Nat
<1>18. l.size \in Powers /\ l.begin_page \in Nat /\ l.begin_page > z.base
  BY <1>2, <1>3, <1>9, <1>10
<1>19. l.free_size \in Nat /\ l.free_size < z.n /\ l.free_size < l.size
  BY <1>3, <1>10, <1>17
<1>20. /\ EndNode(l) \in Nodes(l.size) /\ NodeOffset(l.size, EndNode(l)) = l.free_size
       /\ NodeSize(l.size, EndNode(l)) = l.size - l.free_size
  BY <1>10, <1>11, <1>13, <1>15, <1>16, <1>17
<1>21. l = Layout(Zones[k]) /\ z.base \in Nat /\ z.n \in Nat /\ z = Zones[k]
  BY <1>1, <1>8
<1> QED  BY <1>18, <1>19, <1>20, <1>21

(* The tree it builds has this node allocated and no other.                *)
LEMMA InitialShape ==
  ASSUME NEW k \in 1..Len(Zones)
  PROVE  Shape(Layout(Zones[k]).size, InitialTree(Layout(Zones[k])), {EndNode(Layout(Zones[k]))})
<1>1. PICK l : l = Layout(Zones[k])
  OBVIOUS
<1>2. PICK size \in Powers : size = l.size
  BY <1>1, LayoutIs
<1>3. PICK i \in Nodes(size) : i = EndNode(l)
  BY <1>1, <1>2, LayoutIs
<1> DEFINE t == [j \in Nodes(size) |-> NodeSize(size, j)]
<1>4. Shape(size, t, {}) /\ Live(size, {}, i) /\ t[i] = NodeSize(size, i)
  BY FullShape DEF Live
<1>5. Shape(size, Taken(size, t, i), {} \cup {i})
  <2> HIDE DEF t
  <2> QED  BY <1>4, TakenShape
<1>6. InitialTree(l) = Taken(size, t, i)
  BY <1>2, <1>3 DEF InitialTree, EndNode
<1> QED  BY <1>1, <1>2, <1>3, <1>5, <1>6

-----------------------------------------------------------------------------
(* The invariant of the manager                                            *)

(* The layout of the tree of region k, and the node cut off its right end. *)
Size(k) == Layouts[k].size
First(k) == Layouts[k].begin_page
Room(k) == Layouts[k].free_size
End(k) == EndNode(Layouts[k])

(* The nodes of a tree in the pages it gives away, and their blocks.       *)
Give(k) == {i \in Nodes(Size(k)) : NodeOffset(Size(k), i) + NodeSize(Size(k), i) <= Room(k)}
Block(k, i) == [base |-> First(k) + NodeOffset(Size(k), i), size |-> NodeSize(Size(k), i)]

(* The nodes whose blocks callers hold, and the pages that remain.         *)
HeldIn(k) == {i \in Give(k) : Block(k, i) \in held}
Rest(size, room, H) == {p \in 0..(room - 1) : \A i \in H : ~Holds(size, i, p)}

(* The values of a struct buddy.                                           *)
Buddies ==
    [size : Powers, begin_page : Nat, free_size : Nat,
     longest : UNION {[Nodes(s) -> Nat] : s \in Powers}]

(* One struct buddy: the layout of its region, with the nodes of the held  *)
(* blocks and the end as the allocated ones.                               *)
TreeInv(k) ==
    /\ mem_buddy[k].size = Size(k)
    /\ mem_buddy[k].begin_page = First(k)
    /\ mem_buddy[k].free_size = Cardinality(Rest(Size(k), Room(k), HeldIn(k)))
    /\ Shape(Size(k), mem_buddy[k].longest, HeldIn(k) \cup {End(k)})

(* The inductive invariant.                                                *)
Inv ==
    /\ mem_buddy \in Seq(Buddies)
    /\ Len(mem_buddy) <= Len(Zones)
    /\ Len(mem_buddy) < Len(Zones) => held = {}
    /\ reserved \subseteq Page
    /\ \A k \in 1..Len(mem_buddy) : TreeInv(k)
    /\ \A block \in held : \E k \in 1..Len(mem_buddy) : \E i \in Give(k) : block = Block(k, i)

(* The pages a tree gives away end before the next tree begins.            *)
Apart == \A j, k \in 1..Len(Zones) : j < k => First(j) + Room(j) <= First(k)

(* The regions are a sequence.                                             *)
LEMMA ZonesLen == Len(Zones) \in Nat /\ Layouts = [k \in 1..Len(Zones) |-> Layout(Zones[k])]
BY ZonesAssumption DEF Layouts

(* The layout of a region in the words of the invariant.                   *)
LEMMA TreeIs ==
  ASSUME NEW k \in 1..Len(Zones)
  PROVE  /\ Size(k) \in Powers /\ Size(k) \in Nat /\ First(k) \in Nat
         /\ Room(k) \in Nat /\ Room(k) < Size(k) /\ Room(k) < NPage
         /\ End(k) \in Nodes(Size(k)) /\ End(k) \in Nat /\ NodeOffset(Size(k), End(k)) = Room(k)
         /\ NodeSize(Size(k), End(k)) = Size(k) - Room(k)
<1>1. Layouts[k] = Layout(Zones[k])
  BY ZonesLen
<1>2. Size(k) \in Powers => Size(k) \in Nat
  BY PowersNat
<1>3. /\ Zones[k].base \in Nat /\ Zones[k].n \in Nat /\ Run(Zones[k].base, Zones[k].n) \subseteq Page
      /\ Room(k) \in Nat /\ Room(k) < Zones[k].n
  BY <1>1, LayoutIs, ZonesAssumption DEF Room
<1>4. Room(k) < NPage
  <2>1. PICK b \in Nat, n \in Nat : b = Zones[k].base /\ n = Zones[k].n
    BY <1>3
  <2>2. n >= 1 /\ b + n - 1 \in Run(b, n)
    <3>1. n >= 1
      BY <1>3, <2>1
    <3> QED  BY ONLY <3>1, b \in Nat, n \in Nat DEF Run
  <2>3. b + n - 1 \in 0..(NPage - 1)
    BY <1>3, <2>1, <2>2 DEF Page
  <2> QED  BY <1>3, <2>1, <2>3, BuddyAssumption
<1>5. End(k) \in Nodes(Size(k)) /\ Size(k) \in Powers => End(k) \in Nat
  BY NodeIs
<1> QED  BY <1>1, <1>2, <1>3, <1>4, <1>5, LayoutIs DEF Size, First, Room, End

(* A node in the pages a tree gives away has nothing to do with the end.   *)
LEMMA GiveIs ==
  ASSUME NEW k \in 1..Len(Zones)
  PROVE  \A i \in Give(k) : /\ i \in Nodes(Size(k)) /\ Disjoint(Size(k), i, End(k)) /\ i # End(k)
                            /\ i \notin Ancestors(Size(k), End(k)) /\ End(k) \notin Ancestors(Size(k), i)
                            /\ NodeOffset(Size(k), i) \in Nat /\ NodeSize(Size(k), i) \in Nat
                            /\ NodeSize(Size(k), i) >= 1
                            /\ NodeOffset(Size(k), i) + NodeSize(Size(k), i) <= Room(k)
<1>1. PICK size \in Powers, e \in Nat, room \in Nat :
         /\ size = Size(k) /\ e = End(k) /\ room = Room(k) /\ e \in Nodes(size) /\ room < size
         /\ NodeOffset(size, e) = room /\ NodeSize(size, e) = size - room
  BY TreeIs
<1>2. ASSUME NEW i \in Give(k)
      PROVE  /\ i \in Nodes(size) /\ Disjoint(size, i, e) /\ i # e
             /\ i \notin Ancestors(size, e) /\ e \notin Ancestors(size, i)
             /\ NodeOffset(size, i) \in Nat /\ NodeSize(size, i) \in Nat
             /\ NodeSize(size, i) >= 1
             /\ NodeOffset(size, i) + NodeSize(size, i) <= room
  <2>1. /\ i \in Nodes(size) /\ NodeOffset(size, i) \in Nat /\ NodeSize(size, i) \in Nat
        /\ NodeSize(size, i) >= 1 /\ NodeOffset(size, i) + NodeSize(size, i) <= room /\ size \in Nat
    BY <1>1, NodeIs DEF Give
  <2>2. Disjoint(size, i, e) /\ i # e /\ ~Inside(size, e, i) /\ ~Inside(size, i, e)
    <3>1. PICK o, s, n, r \in Nat : /\ o = NodeOffset(size, i) /\ s = NodeSize(size, i)
                                    /\ n = size /\ r = room /\ s >= 1 /\ o + s <= r /\ r < n
      BY <1>1, <2>1
    <3>2. o + s <= r /\ o # r /\ ~(o <= r /\ r + (n - r) <= o + s) /\ ~(r <= o)
      BY ONLY <3>1
    <3>3. NodeOffset(size, e) = r /\ NodeSize(size, e) = n - r
      BY <1>1, <3>1
    <3>4. Disjoint(size, i, e)
      BY <3>1, <3>2, <3>3 DEF Disjoint
    <3>5. i # e
      BY <3>1, <3>2, <3>3
    <3>6. ~Inside(size, e, i)
      BY <3>1, <3>2, <3>3 DEF Inside
    <3>7. ~Inside(size, i, e)
      BY <3>1, <3>2, <3>3 DEF Inside
    <3> QED  BY <3>4, <3>5, <3>6, <3>7
  <2> QED  BY <1>1, <2>1, <2>2, AncestorsOf DEF AncestorsFine
<1> QED  BY <1>1, <1>2

(* A node that overlaps no allocated one can be given away.                *)
LEMMA GiveVacant ==
  ASSUME NEW k \in 1..Len(Zones), NEW H, NEW i \in Vacant(Size(k), H \cup {End(k)})
  PROVE  i \in Give(k)
<1>1. PICK size \in Powers, e \in Nat, room \in Nat :
         /\ size = Size(k) /\ e = End(k) /\ room = Room(k) /\ e \in Nodes(size) /\ room < size
         /\ NodeOffset(size, e) = room /\ NodeSize(size, e) = size - room
  BY TreeIs
<1>2. i \in Nodes(size) /\ i # e /\ i \notin Ancestors(size, e) /\ e \notin Ancestors(size, i)
  BY <1>1 DEF Vacant, Live, Below
<1>3. Disjoint(size, i, e)
  BY <1>1, <1>2, Nested DEF Related
<1>4. /\ NodeOffset(size, i) \in Nat /\ NodeSize(size, i) \in Nat /\ NodeSize(size, i) >= 1
      /\ NodeOffset(size, i) + NodeSize(size, i) <= size /\ size \in Nat
  BY <1>2, NodeIs
<1>5. NodeOffset(size, i) + NodeSize(size, i) <= room
  BY <1>1, <1>3, <1>4 DEF Disjoint
<1> QED  BY <1>1, <1>2, <1>5 DEF Give

(* Blocks of different trees have no page in common.                       *)
LEMMA BlocksApart ==
  ASSUME Apart, NEW j \in 1..Len(Zones), NEW k \in 1..Len(Zones), NEW i \in Give(j), NEW m \in Give(k)
  PROVE  /\ j # k => Run(Block(j, i).base, Block(j, i).size) \cap Run(Block(k, m).base, Block(k, m).size) = {}
         /\ Block(j, i) = Block(k, m) => j = k /\ i = m
<1>1. PICK a, b, c, d, x, y, u, v \in Nat :
         /\ a = NodeOffset(Size(j), i) /\ b = NodeSize(Size(j), i)
         /\ c = NodeOffset(Size(k), m) /\ d = NodeSize(Size(k), m)
         /\ x = First(j) /\ y = First(k) /\ u = Room(j) /\ v = Room(k)
         /\ b >= 1 /\ d >= 1 /\ a + b <= u /\ c + d <= v
  BY TreeIs, GiveIs
<1>2. Block(j, i) = [base |-> x + a, size |-> b] /\ Block(k, m) = [base |-> y + c, size |-> d]
  BY <1>1 DEF Block
<1>3. (j < k => x + u <= y) /\ (k < j => y + v <= x) /\ (j # k => j < k \/ k < j)
  <2>1. (j < k => First(j) + Room(j) <= First(k)) /\ (k < j => First(k) + Room(k) <= First(j))
    BY DEF Apart
  <2>2. j # k => j < k \/ k < j
    BY ZonesLen
  <2> QED  BY <1>1, <2>1, <2>2
<1>4. j # k => Run(x + a, b) \cap Run(y + c, d) = {} /\ ~(x + a = y + c)
  <2>1. a + b <= u /\ c + d <= v /\ b >= 1 /\ d >= 1 /\ (j # k => x + u <= y \/ y + v <= x)
    BY <1>1, <1>3
  <2>2. j # k => (x + a) + b <= y + c \/ (y + c) + d <= x + a
    BY ONLY <2>1, a \in Nat, b \in Nat, c \in Nat, d \in Nat, x \in Nat, y \in Nat, u \in Nat, v \in Nat
  <2>3. ASSUME NEW p \in Nat, NEW q \in Nat, p + b <= q \/ q + d <= p
        PROVE  Run(p, b) \cap Run(q, d) = {} /\ ~(p = q)
    BY ONLY <2>1, <2>3, b \in Nat, d \in Nat DEF Run
  <2>4. x + a \in Nat /\ y + c \in Nat
    OBVIOUS
  <2> QED  BY <2>2, <2>3, <2>4
<1>5. ASSUME j = k, x + a = y + c, b = d PROVE i = m
  <2>1. a = c
    <3>1. x = y
      BY <1>1, <1>5
    <3> QED  BY ONLY <1>5, <3>1, a \in Nat, c \in Nat, x \in Nat, y \in Nat
  <2>2. i \in Nodes(Size(k)) /\ m \in Nodes(Size(k)) /\ Size(k) \in Powers
    BY <1>5, GiveIs, TreeIs
  <2> QED  BY <1>1, <1>5, <2>1, <2>2, SameNode
<1> QED  BY <1>2, <1>4, <1>5

(* What an allocation takes from the pages that remain, and a free returns. *)
LEMMA RestIs ==
  ASSUME NEW size \in Powers, NEW room \in Nat, NEW H \in SUBSET Nodes(size), NEW i \in Nodes(size),
         NodeOffset(size, i) + NodeSize(size, i) <= room,
         \A h \in H : Disjoint(size, i, h)
  PROVE  /\ IsFiniteSet(Rest(size, room, H)) /\ IsFiniteSet(Rest(size, room, H \cup {i}))
         /\ Cardinality(Rest(size, room, H)) \in Nat /\ Cardinality(Rest(size, room, H \cup {i})) \in Nat
         /\ Cardinality(Rest(size, room, H)) = Cardinality(Rest(size, room, H \cup {i})) + NodeSize(size, i)
<1> DEFINE S == Rest(size, room, H)
           T == Rest(size, room, H \cup {i})
<1>1. PICK o \in Nat, s \in Nat : o = NodeOffset(size, i) /\ s = NodeSize(size, i) /\ s >= 1 /\ o + s <= room
  BY NodeIs
<1> DEFINE R == o..(o + s - 1)
<1>2. IsFiniteSet(S) /\ IsFiniteSet(T) /\ IsFiniteSet(R)
  <2>1. IsFiniteSet(0..(room - 1)) /\ IsFiniteSet(o..(o + s - 1))
    BY FS_Interval
  <2>2. S \subseteq 0..(room - 1) /\ T \subseteq 0..(room - 1)
    BY DEF Rest
  <2> HIDE DEF S, T
  <2> QED  BY <2>1, <2>2, FS_Subset
<1>3. S = T \cup R /\ T \cap R = {}
  <2>1. ASSUME NEW p \in R PROVE p \in S /\ p \notin T
    <3>1. p \in 0..(room - 1) /\ Holds(size, i, p)
      BY <1>1 DEF Holds
    <3>2. ASSUME NEW h \in H PROVE ~Holds(size, h, p)
      <4>1. NodeOffset(size, h) \in Nat /\ NodeSize(size, h) \in Nat
        BY NodeIs
      <4> QED  BY <1>1, <3>1, <4>1 DEF Holds, Disjoint
    <3> QED  BY <3>1, <3>2 DEF Rest
  <2>2. ASSUME NEW p \in S, p \notin R PROVE p \in T
    BY <1>1, <2>2 DEF Rest, Holds
  <2>3. T \subseteq S
    BY DEF Rest
  <2> QED  BY <2>1, <2>2, <2>3
<1>4. Cardinality(R) = s
  <2>1. Cardinality(o..(o + s - 1)) = IF o > o + s - 1 THEN 0 ELSE (o + s - 1) - o + 1
    BY FS_Interval
  <2> QED  BY <1>1, <2>1
<1>5. Cardinality(S) = Cardinality(T) + Cardinality(R) - Cardinality(T \cap R)
  <2> HIDE DEF S, T, R
  <2> QED  BY <1>2, <1>3, FS_Union
<1>6. Cardinality(T \cap R) = 0 /\ Cardinality(T) \in Nat /\ Cardinality(S) \in Nat
  <2> HIDE DEF S, T, R
  <2> QED  BY <1>2, <1>3, FS_EmptySet, FS_CardinalityType
<1> QED  BY <1>1, <1>2, <1>4, <1>5, <1>6

(* The fields of a struct buddy.                                           *)
LEMMA BuddyIs ==
  ASSUME NEW m \in Seq(Buddies), NEW k \in 1..Len(m)
  PROVE  /\ m[k].size \in Powers /\ m[k].begin_page \in Nat /\ m[k].free_size \in Nat
         /\ m[k] \in Buddies
<1>1. m[k] \in Buddies
  BY ToSetIndex
<1> QED  BY <1>1 DEF Buddies

(* An update of one element of a sequence.                                 *)
LEMMA PutIs ==
  ASSUME NEW S, NEW m \in Seq(S), NEW k \in 1..Len(m), NEW s \in S, NEW u, u = [m EXCEPT ![k] = s]
  PROVE  /\ u \in Seq(S) /\ Len(u) = Len(m) /\ u[k] = s
         /\ \A j \in 1..Len(m) : j # k => u[j] = m[j]
OBVIOUS

(* The update that an allocation or a free makes to one tree.              *)
Updated(m, k, t, f) == [m EXCEPT ![k].longest = t, ![k].free_size = f]

(* What alloc_pages and free_pages change in mem_buddy.                    *)
LEMMA BuddyUpdate ==
  ASSUME NEW m \in Seq(Buddies), NEW k \in 1..Len(m), NEW t \in [Nodes(m[k].size) -> Nat], NEW f \in Nat
  PROVE  /\ Updated(m, k, t, f) \in Seq(Buddies) /\ Len(Updated(m, k, t, f)) = Len(m)
         /\ Updated(m, k, t, f)[k].size = m[k].size /\ Updated(m, k, t, f)[k].begin_page = m[k].begin_page
         /\ Updated(m, k, t, f)[k].longest = t /\ Updated(m, k, t, f)[k].free_size = f
         /\ \A j \in 1..Len(m) : j # k => Updated(m, k, t, f)[j] = m[j]
<1>0. PICK u : u = Updated(m, k, t, f)
  OBVIOUS
<1>1. PICK r \in Buddies : r = m[k]
  BY BuddyIs
<1>2. PICK s \in Buddies :
         s = [size |-> r.size, begin_page |-> r.begin_page, free_size |-> f, longest |-> t]
  <2>1. r.size \in Powers /\ r.begin_page \in Nat /\ t \in [Nodes(r.size) -> Nat]
    BY <1>1 DEF Buddies
  <2>2. t \in UNION {[Nodes(q) -> Nat] : q \in Powers}
    BY <2>1
  <2> QED  BY <2>1, <2>2 DEF Buddies
<1>3. [[r EXCEPT !.longest = t] EXCEPT !.free_size = f] = s
  <2>1. r = [size |-> r.size, begin_page |-> r.begin_page, free_size |-> r.free_size, longest |-> r.longest]
    BY DEF Buddies
  <2>2. [r EXCEPT !.longest = t] =
           [size |-> r.size, begin_page |-> r.begin_page, free_size |-> r.free_size, longest |-> t]
    BY ONLY <2>1
  <2>3. [[size |-> r.size, begin_page |-> r.begin_page, free_size |-> r.free_size, longest |-> t]
            EXCEPT !.free_size = f] = s
    BY <1>2
  <2> QED  BY <2>2, <2>3
<1>4. u = [m EXCEPT ![k] = s]
  <2>1. [m EXCEPT ![k].longest = t] = [m EXCEPT ![k] = [r EXCEPT !.longest = t]]
    BY <1>1
  <2>2. [m EXCEPT ![k] = [r EXCEPT !.longest = t]][k] = [r EXCEPT !.longest = t]
    OBVIOUS
  <2> QED  BY <1>0, <1>1, <1>3, <2>1, <2>2 DEF Updated
<1>5. u \in Seq(Buddies) /\ Len(u) = Len(m) /\ u[k] = s /\ \A j \in 1..Len(m) : j # k => u[j] = m[j]
  BY ONLY <1>4, PutIs, m \in Seq(Buddies), k \in 1..Len(m), s \in Buddies
<1> QED  BY <1>0, <1>1, <1>2, <1>5

(* A tree after its set of held blocks changed by one node. *)
LEMMA TreeChange ==
  ASSUME NEW k \in 1..Len(Zones), NEW H \in SUBSET Give(k), NEW i \in Give(k),
         \A h \in H : Disjoint(Size(k), i, h)
  PROVE  /\ Cardinality(Rest(Size(k), Room(k), H)) \in Nat
         /\ Cardinality(Rest(Size(k), Room(k), H \cup {i})) \in Nat
         /\ Cardinality(Rest(Size(k), Room(k), H)) =
               Cardinality(Rest(Size(k), Room(k), H \cup {i})) + NodeSize(Size(k), i)
<1>1. Size(k) \in Powers /\ Room(k) \in Nat
  BY TreeIs
<1>2. /\ H \in SUBSET Nodes(Size(k)) /\ i \in Nodes(Size(k))
      /\ NodeOffset(Size(k), i) + NodeSize(Size(k), i) <= Room(k)
  BY DEF Give
<1> QED  BY <1>1, <1>2, RestIs

(* Blocks held of one tree have no page in common.                         *)
LEMMA HeldDisjoint ==
  ASSUME NEW size \in Powers, NEW t, NEW A, Shape(size, t, A), NEW i \in A, NEW j \in A, i # j
  PROVE  Disjoint(size, i, j)
<1>1. i \in Nodes(size) /\ j \in Nodes(size) /\ i \notin Ancestors(size, j) /\ j \notin Ancestors(size, i)
  BY DEF Shape, Live
<1> QED  BY <1>1, Nested DEF Related

(* At boot no region has been received.                                    *)
LEMMA InvInit == Init => Inv
BY ZonesLen DEF Init, Inv

(* buddy_init_memmap adds a tree that satisfies the invariant.             *)
LEMMA InvZone ==
  ASSUME Inv, NextZone
  PROVE  Inv'
<1>0. PICK k : k = Len(mem_buddy) + 1
  OBVIOUS
<1>1. /\ mem_buddy \in Seq(Buddies) /\ Len(mem_buddy) \in Nat /\ k \in 1..Len(Zones) /\ held = {}
  BY <1>0, ZonesLen DEF Inv, NextZone
<1>2. PICK b : /\ b = [size |-> Size(k), begin_page |-> First(k), free_size |-> Room(k),
                       longest |-> InitialTree(Layout(Zones[k]))]
               /\ mem_buddy' = Append(mem_buddy, b)
  <2>1. Layouts[k] = Layout(Zones[k])
    BY <1>1, ZonesLen
  <2> QED  BY <1>0, <2>1 DEF NextZone, InitMemmap, Size, First, Room
<1>3. Shape(Size(k), b.longest, {End(k)})
  <2>1. Layouts[k] = Layout(Zones[k])
    BY <1>1, ZonesLen
  <2>2. b.longest = InitialTree(Layout(Zones[k]))
    BY <1>2
  <2> QED  BY <1>1, <2>1, <2>2, InitialShape DEF Size, End
<1>4. b \in Buddies
  <2>1. b.longest \in [Nodes(Size(k)) -> Nat] /\ Size(k) \in Powers /\ First(k) \in Nat /\ Room(k) \in Nat
    BY <1>1, <1>3, TreeIs DEF Shape
  <2>2. b.longest \in UNION {[Nodes(q) -> Nat] : q \in Powers}
    BY <2>1
  <2> QED  BY <1>2, <2>1, <2>2 DEF Buddies
<1>5. /\ mem_buddy' \in Seq(Buddies) /\ Len(mem_buddy') = k /\ mem_buddy'[k] = b
      /\ \A j \in 1..Len(mem_buddy) : mem_buddy'[j] = mem_buddy[j]
  BY <1>0, <1>1, <1>2, <1>4
<1>6. held' = {}
  BY <1>1 DEF NextZone
<1>7. \A j : HeldIn(j) = {} /\ HeldIn(j)' = {}
  BY <1>1, <1>6 DEF HeldIn
<1>8. TreeInv(k)'
  <2>1. Cardinality(Rest(Size(k), Room(k), {})) = Room(k)
    <3>1. Rest(Size(k), Room(k), {}) = 0..(Room(k) - 1) /\ Room(k) \in Nat
      BY <1>1, TreeIs DEF Rest
    <3>2. \A n \in Nat : Cardinality(0..(n - 1)) = n
      <4>1. SUFFICES ASSUME NEW n \in Nat PROVE Cardinality(0..(n - 1)) = n
        OBVIOUS
      <4>2. Cardinality(0..(n - 1)) = IF 0 > n - 1 THEN 0 ELSE (n - 1) - 0 + 1
        BY FS_Interval
      <4> QED  BY <4>2
    <3> QED  BY <3>1, <3>2
  <2>2. /\ b.size = Size(k) /\ b.begin_page = First(k) /\ b.free_size = Room(k)
    BY <1>2
  <2> QED  BY <1>3, <1>5, <1>7, <2>1, <2>2 DEF TreeInv
<1>9. ASSUME NEW j \in 1..Len(mem_buddy) PROVE TreeInv(j)'
  <2>1. TreeInv(j) /\ mem_buddy'[j] = mem_buddy[j]
    BY <1>5 DEF Inv
  <2> QED  BY <1>7, <2>1 DEF TreeInv
<1>10. \A j \in 1..Len(mem_buddy') : j = k \/ j \in 1..Len(mem_buddy)
  BY <1>0, <1>1, <1>5
<1>11. reserved' \subseteq Page
  BY DEF Inv, NextZone, InitMemmap
<1>12. Len(mem_buddy') <= Len(Zones)
  BY <1>1, <1>5
<1> QED  BY <1>5, <1>6, <1>8, <1>9, <1>10, <1>11, <1>12 DEF Inv

(* buddy_alloc_pages takes a vacant node: one more node is allocated.      *)
LEMMA InvAlloc ==
  ASSUME Apart, Inv, Len(mem_buddy) = Len(Zones), NEW n \in 1..(NPage + 1), AllocOk(n), reserved' = reserved
  PROVE  Inv'
<1>1. PICK k, i :
         /\ k \in 1..Len(mem_buddy)
         /\ i = Found(mem_buddy[k], Rounded(n))
         /\ mem_buddy[k].longest[0] >= Rounded(n)
         /\ mem_buddy' = [mem_buddy EXCEPT ![k].longest = Taken(mem_buddy[k].size, mem_buddy[k].longest, i),
                                           ![k].free_size = mem_buddy[k].free_size - Rounded(n)]
         /\ held' = held \cup {[base |-> mem_buddy[k].begin_page + NodeOffset(mem_buddy[k].size, i),
                                size |-> Rounded(n)]}
  BY DEF AllocOk, FirstZone
<1> k \in 1..Len(mem_buddy)
  BY <1>1
<1>2. /\ mem_buddy \in Seq(Buddies) /\ k \in 1..Len(Zones) /\ TreeInv(k) /\ Rounded(n) \in Powers
      /\ \A j \in 1..Len(mem_buddy) : TreeInv(j)
  BY RoundedIs DEF Inv
<1>3. PICK b : /\ b = mem_buddy[k] /\ b.size = Size(k) /\ b.begin_page = First(k)
               /\ b.free_size = Cardinality(Rest(Size(k), Room(k), HeldIn(k)))
               /\ Shape(Size(k), b.longest, HeldIn(k) \cup {End(k)})
  BY <1>2 DEF TreeInv
<1>4. Size(k) \in Powers /\ End(k) \in Nodes(Size(k))
  BY <1>2, TreeIs
<1>5. /\ i \in Nodes(Size(k)) /\ NodeSize(Size(k), i) = Rounded(n)
      /\ Live(Size(k), HeldIn(k) \cup {End(k)}, i) /\ b.longest[i] = NodeSize(Size(k), i)
  <2>1. PICK size, tree, A : size = Rounded(n) /\ tree = Size(k) /\ A = HeldIn(k) \cup {End(k)}
    OBVIOUS
  <2>2. b.size = tree /\ Shape(tree, b.longest, A) /\ b.longest[0] >= size
    BY <1>1, <1>3, <2>1
  <2>3. size \in Powers /\ tree \in Powers
    BY <1>2, <1>4, <2>1
  <2>4. HasRoom(tree, b, A, size)
    BY <2>2, <2>3 DEF HasRoom
  <2>5. FindsFree(tree, b, A, size)
    BY ONLY <2>4, FoundIs, Zenon
  <2> QED  BY <1>1, <1>3, <2>1, <2>5 DEF FindsFree
<1>6. Below(Size(k), i) \cap (HeldIn(k) \cup {End(k)}) = {}
  BY <1>3, <1>4, <1>5, ShapeFull
<1>7. i \in Give(k)
  BY <1>2, <1>5, <1>6, GiveVacant DEF Vacant
<1>8. \A h \in HeldIn(k) : Disjoint(Size(k), i, h)
  <2>1. ASSUME NEW h \in HeldIn(k) PROVE Disjoint(Size(k), i, h)
    <3>1. h \in Nodes(Size(k)) /\ i # h /\ h \notin Ancestors(Size(k), i) /\ i \notin Ancestors(Size(k), h)
      BY <1>3, <1>5, <1>6 DEF Shape, Live, Below
    <3> QED  BY <1>4, <1>5, <3>1, Nested DEF Related
  <2> QED  BY <2>1
<1>9. held' = held \cup {Block(k, i)}
  BY <1>1, <1>3, <1>5 DEF Block
<1>10. HeldIn(k)' = HeldIn(k) \cup {i} /\ \A j \in 1..Len(Zones) : j # k => HeldIn(j)' = HeldIn(j)
  <2>1. \A j \in 1..Len(Zones) : \A m \in Give(j) : Block(j, m) = Block(k, i) => j = k /\ m = i
    BY <1>2, <1>7, BlocksApart
  <2> QED  BY <1>7, <1>9, <2>1 DEF HeldIn
<1>11. Shape(Size(k), Taken(Size(k), b.longest, i), HeldIn(k)' \cup {End(k)})
  <2>1. HeldIn(k)' \cup {End(k)} = (HeldIn(k) \cup {End(k)}) \cup {i}
    BY <1>10
  <2>2. Shape(Size(k), Taken(Size(k), b.longest, i), (HeldIn(k) \cup {End(k)}) \cup {i})
    BY <1>3, <1>4, <1>5, TakenShape
  <2> QED  BY <2>1, <2>2
<1>12. /\ b.free_size - Rounded(n) = Cardinality(Rest(Size(k), Room(k), HeldIn(k)'))
       /\ b.free_size - Rounded(n) \in Nat
  <2>1. HeldIn(k) \in SUBSET Give(k)
    BY DEF HeldIn
  <2>2. PICK c \in Nat, d \in Nat, s \in Nat :
           /\ c = Cardinality(Rest(Size(k), Room(k), HeldIn(k)))
           /\ d = Cardinality(Rest(Size(k), Room(k), HeldIn(k) \cup {i}))
           /\ s = NodeSize(Size(k), i) /\ c = d + s
    <3>1. NodeSize(Size(k), i) \in Nat
      BY <1>4, <1>5, NodeIs
    <3> QED  BY <1>2, <1>7, <1>8, <2>1, <3>1, TreeChange
  <2>3. c - s = d
    BY <2>2
  <2> QED  BY <1>3, <1>5, <1>10, <2>2, <2>3
<1>13. /\ mem_buddy' \in Seq(Buddies) /\ Len(mem_buddy') = Len(mem_buddy)
       /\ mem_buddy'[k].size = Size(k) /\ mem_buddy'[k].begin_page = First(k)
       /\ mem_buddy'[k].longest = Taken(Size(k), b.longest, i)
       /\ mem_buddy'[k].free_size = b.free_size - Rounded(n)
       /\ \A j \in 1..Len(mem_buddy) : j # k => mem_buddy'[j] = mem_buddy[j]
  <2>1. Taken(Size(k), b.longest, i) \in [Nodes(mem_buddy[k].size) -> Nat]
    BY <1>3, <1>11 DEF Shape
  <2>2. mem_buddy' = Updated(mem_buddy, k, Taken(Size(k), b.longest, i), b.free_size - Rounded(n))
    BY <1>1, <1>3 DEF Updated
  <2> QED  BY <1>2, <1>3, <1>12, <2>1, <2>2, BuddyUpdate
<1>14. ASSUME NEW j \in 1..Len(mem_buddy) PROVE TreeInv(j)'
  <2>1. CASE j = k
    BY <1>11, <1>12, <1>13, <2>1 DEF TreeInv
  <2>2. CASE j # k
    <3>1. j \in 1..Len(Zones)
      BY DEF Inv
    <3> QED  BY <1>2, <1>10, <1>13, <2>2, <3>1 DEF TreeInv
  <2> QED  BY <2>1, <2>2
<1>15. ASSUME NEW block \in held'
       PROVE  \E j \in 1..Len(mem_buddy') : \E m \in Give(j) : block = Block(j, m)
  <2>1. CASE block \in held
    BY <1>13, <2>1 DEF Inv
  <2>2. CASE block = Block(k, i)
    BY <1>7, <1>13, <2>2
  <2> QED  BY <1>9, <2>1, <2>2
<1>16. Len(mem_buddy') <= Len(Zones) /\ ~(Len(mem_buddy') < Len(Zones))
  BY <1>13, ZonesLen DEF Inv
<1> QED  BY <1>13, <1>14, <1>15, <1>16 DEF Inv

(* Where a held block is found when it is given back.                      *)
LEMMA OwnerIs ==
  ASSUME Apart, Inv, Len(mem_buddy) = Len(Zones), NEW j \in 1..Len(mem_buddy), NEW i \in Give(j)
  PROVE  /\ Covers(mem_buddy[j], Block(j, i).base)
         /\ \A k \in 1..Len(mem_buddy) : Owner(k, Block(j, i).base) => k = j
<1>0. j \in 1..Len(Zones) /\ Len(mem_buddy) \in Nat
  BY ZonesLen DEF Inv
<1>1. PICK page \in Nat, o \in Nat, s \in Nat :
         /\ page = Block(j, i).base /\ o = NodeOffset(Size(j), i) /\ s = NodeSize(Size(j), i)
         /\ page = First(j) + o /\ s >= 1 /\ o + s <= Room(j)
  <2>1. First(j) \in Nat
    BY <1>0, TreeIs
  <2> QED  BY <1>0, <2>1, GiveIs DEF Block
<1>2. /\ \A k \in 1..Len(mem_buddy) : /\ First(k) \in Nat /\ Room(k) \in Nat /\ Size(k) \in Nat /\ Room(k) < Size(k)
                                      /\ mem_buddy[k].size = Size(k) /\ mem_buddy[k].begin_page = First(k)
  BY TreeIs DEF Inv, TreeInv
<1>3. Covers(mem_buddy[j], page)
  <2>1. First(j) \in Nat /\ Room(j) \in Nat /\ Size(j) \in Nat /\ Room(j) < Size(j)
    BY <1>2
  <2>2. PICK f, z, r \in Nat : f = First(j) /\ z = Size(j) /\ r = Room(j) /\ r < z
    BY <2>1
  <2>3. page = f + o /\ s >= 1 /\ o + s <= r
    BY <1>1, <2>2
  <2>4. page \in f..(f + z - 1)
    BY ONLY <2>2, <2>3, page \in Nat, o \in Nat, s \in Nat
  <2> QED  BY <1>2, <2>2, <2>4 DEF Covers, Run
<1>4. ASSUME NEW k \in 1..Len(mem_buddy), Owner(k, page) PROVE k = j
  <2>1. ~(k < j)
    <3>1. k < j => j \in (k + 1)..Len(mem_buddy)
      BY <1>0
    <3> QED  BY <1>3, <1>4, <3>1 DEF Owner
  <2>2. ~(j < k)
    <3>1. ASSUME j < k PROVE FALSE
      <4>1. First(j) + Room(j) <= First(k)
        BY <3>1 DEF Apart
      <4>2. First(k) <= page
        <5>1. page \in First(k)..(First(k) + Size(k) - 1)
          BY <1>2, <1>4 DEF Owner, Covers, Run
        <5> QED  BY <1>2, <5>1
      <4>3. PICK x, y, z \in Nat : x = First(j) /\ y = First(k) /\ z = Room(j)
        BY <1>2
      <4>4. page = x + o /\ s >= 1 /\ o + s <= z /\ x + z <= y /\ y <= page
        BY <1>1, <4>1, <4>2, <4>3
      <4> QED  BY ONLY <4>4, page \in Nat, o \in Nat, s \in Nat, x \in Nat, y \in Nat, z \in Nat
    <3> QED  BY <3>1
  <2> QED  BY <1>0, <2>1, <2>2
<1> QED  BY <1>1, <1>3, <1>4

(* The first allocated node above the first page of a held block is its own. *)
LEMMA FirstZero ==
  ASSUME NEW size \in Powers, NEW t, NEW A, Shape(size, t, A), NEW i \in A,
         NEW zeros, zeros = {z \in Path(size, NodeOffset(size, i)) : t[z] = 0}
  PROVE  zeros # {} /\ Max(zeros) = i
<1>1. /\ i \in Nodes(size) /\ NodeOffset(size, i) \in 0..(size - 1)
      /\ NodeSize(size, i) \in Nat /\ NodeSize(size, i) >= 1
  BY NodeIs DEF Shape
<1>2. Path(size, NodeOffset(size, i)) = {z \in Nodes(size) : Holds(size, z, NodeOffset(size, i))}
  BY <1>1, PathIs
<1>3. i \in zeros
  BY <1>1, <1>2 DEF Holds, Shape, ShapeAt
<1>4. ASSUME NEW z \in zeros PROVE z \in Nat /\ z <= i
  <2>1. z \in Nodes(size) /\ Holds(size, z, NodeOffset(size, i)) /\ t[z] = 0
    BY <1>2
  <2>2. /\ z \in Nat /\ i \in Nat /\ NodeOffset(size, z) \in Nat /\ NodeSize(size, z) \in Nat
        /\ NodeSize(size, z) >= 1
    BY <1>1, <2>1, NodeIs
  <2>3. ~Disjoint(size, z, i)
    BY <1>1, <2>1, <2>2 DEF Holds, Disjoint
  <2>4. i \notin Ancestors(size, z)
    <3>1. i \in Ancestors(size, z) => ~Live(size, A, z)
      BY DEF Live
    <3> QED  BY <2>1, <2>2, <3>1 DEF Shape, ShapeAt
  <2>5. z = i \/ z \in Ancestors(size, i)
    BY <1>1, <2>1, <2>3, <2>4, Nested DEF Related
  <2>6. z \in Ancestors(size, i) => z < i
    BY <1>1, AncestorsOf DEF AncestorsFine
  <2> QED  BY <2>2, <2>5, <2>6
<1>5. \A y \in zeros : i >= y
  BY <1>3, <1>4
<1>6. Max(zeros) \in zeros /\ \A y \in zeros : Max(zeros) >= y
  BY <1>3, <1>5 DEF Max
<1>7. Max(zeros) = i
  BY <1>3, <1>4, <1>5, <1>6
<1> QED  BY <1>3, <1>7

(* buddy_free_pages finds the node of the block again: one node less is    *)
(* allocated.                                                              *)
LEMMA InvFree ==
  ASSUME Apart, Inv, Len(mem_buddy) = Len(Zones), NEW block \in held, Free(block), reserved' = reserved
  PROVE  Inv'
<1>1. PICK k, i : k \in 1..Len(mem_buddy) /\ i \in Give(k) /\ block = Block(k, i)
  BY DEF Inv
<1> k \in 1..Len(mem_buddy)
  BY <1>1
<1>2. /\ mem_buddy \in Seq(Buddies) /\ k \in 1..Len(Zones) /\ TreeInv(k)
      /\ \A j \in 1..Len(mem_buddy) : TreeInv(j)
  BY DEF Inv
<1>3. PICK b : /\ b = mem_buddy[k] /\ b.size = Size(k) /\ b.begin_page = First(k)
               /\ b.free_size = Cardinality(Rest(Size(k), Room(k), HeldIn(k)))
               /\ Shape(Size(k), b.longest, HeldIn(k) \cup {End(k)})
  BY <1>2 DEF TreeInv
<1>4. /\ Size(k) \in Powers /\ Size(k) \in Nat /\ End(k) \in Nodes(Size(k)) /\ First(k) \in Nat
      /\ i \in Nodes(Size(k)) /\ NodeOffset(Size(k), i) \in Nat /\ i # End(k)
  BY <1>1, <1>2, TreeIs, GiveIs
<1>5. i \in HeldIn(k)
  BY <1>1 DEF HeldIn
<1> DEFINE page == NodeOffset(Size(k), i)
           zeros == {z \in Path(Size(k), page) : b.longest[z] = 0}
<1>6. zeros # {} /\ Max(zeros) = i
  BY <1>3, <1>4, <1>5, FirstZero
<1>7. Allocated(b, block.base - b.begin_page + b.size - 1) = zeros
  <2>1. block.base - b.begin_page + b.size - 1 = page + Size(k) - 1
    <3>1. block.base = First(k) + page
      BY <1>1 DEF Block
    <3> QED  BY <1>3, <1>4, <3>1
  <2> QED  BY <1>3, <2>1 DEF Allocated, Path
<1>8. /\ mem_buddy' = [mem_buddy EXCEPT ![k].longest = Given(Size(k), b.longest, i),
                                       ![k].free_size = b.free_size + NodeSize(Size(k), i)]
      /\ held' = held \ {block}
  <2>1. Covers(mem_buddy[k], block.base) /\ \A j \in 1..Len(mem_buddy) : Owner(j, block.base) => j = k
    BY <1>1, OwnerIs
  <2>2. PICK j, nodes :
           /\ j \in 1..Len(mem_buddy)
           /\ Owner(j, block.base)
           /\ nodes = Allocated(mem_buddy[j], block.base - mem_buddy[j].begin_page + mem_buddy[j].size - 1)
           /\ nodes # {} => mem_buddy' = [mem_buddy EXCEPT
                 ![j].longest = Given(mem_buddy[j].size, mem_buddy[j].longest, Max(nodes)),
                 ![j].free_size = mem_buddy[j].free_size + NodeSize(mem_buddy[j].size, Max(nodes))]
    BY <2>1 DEF Free, FreeBlock
  <2> j \in 1..Len(mem_buddy)
    BY <2>2
  <2>3. j = k
    BY <2>1, <2>2
  <2>4. nodes = zeros
    BY <1>3, <1>7, <2>2, <2>3
  <2> HIDE DEF zeros
  <2>5. mem_buddy' = [mem_buddy EXCEPT ![k].longest = Given(b.size, b.longest, i),
                                       ![k].free_size = b.free_size + NodeSize(b.size, i)]
    BY <1>3, <1>6, <2>2, <2>3, <2>4
  <2> QED  BY <1>3, <2>5 DEF Free
<1>10. HeldIn(k)' = HeldIn(k) \ {i} /\ \A j \in 1..Len(Zones) : j # k => HeldIn(j)' = HeldIn(j)
  <2>1. \A j \in 1..Len(Zones) : \A m \in Give(j) : Block(j, m) = Block(k, i) => j = k /\ m = i
    BY <1>1, <1>2, BlocksApart
  <2> QED  BY <1>1, <1>8, <2>1 DEF HeldIn
<1>11. Shape(Size(k), Given(Size(k), b.longest, i), HeldIn(k)' \cup {End(k)})
  <2>1. HeldIn(k)' \cup {End(k)} = (HeldIn(k) \cup {End(k)}) \ {i}
    BY <1>4, <1>10
  <2>2. Shape(Size(k), Given(Size(k), b.longest, i), (HeldIn(k) \cup {End(k)}) \ {i})
    BY <1>3, <1>4, <1>5, GivenShape
  <2> QED  BY <2>1, <2>2
<1>12. /\ b.free_size + NodeSize(Size(k), i) = Cardinality(Rest(Size(k), Room(k), HeldIn(k)'))
       /\ b.free_size + NodeSize(Size(k), i) \in Nat
  <2>1. HeldIn(k)' \in SUBSET Give(k)
    BY <1>10 DEF HeldIn
  <2>2. \A h \in HeldIn(k)' : Disjoint(Size(k), i, h)
    BY <1>3, <1>4, <1>5, <1>10, HeldDisjoint
  <2>3. HeldIn(k)' \cup {i} = HeldIn(k)
    BY <1>5, <1>10
  <2>4. PICK H \in SUBSET Give(k) : H = HeldIn(k)'
    BY <2>1
  <2>5. /\ Cardinality(Rest(Size(k), Room(k), H)) \in Nat
        /\ Cardinality(Rest(Size(k), Room(k), H)) =
              Cardinality(Rest(Size(k), Room(k), H \cup {i})) + NodeSize(Size(k), i)
    BY <1>1, <1>2, <2>2, <2>4, TreeChange
  <2> QED  BY <1>3, <2>3, <2>4, <2>5
<1>13. /\ mem_buddy' \in Seq(Buddies) /\ Len(mem_buddy') = Len(mem_buddy)
       /\ mem_buddy'[k].size = Size(k) /\ mem_buddy'[k].begin_page = First(k)
       /\ mem_buddy'[k].longest = Given(Size(k), b.longest, i)
       /\ mem_buddy'[k].free_size = b.free_size + NodeSize(Size(k), i)
       /\ \A j \in 1..Len(mem_buddy) : j # k => mem_buddy'[j] = mem_buddy[j]
  <2>1. Given(Size(k), b.longest, i) \in [Nodes(mem_buddy[k].size) -> Nat]
    BY <1>3, <1>11 DEF Shape
  <2>2. mem_buddy' = Updated(mem_buddy, k, Given(Size(k), b.longest, i), b.free_size + NodeSize(Size(k), i))
    BY <1>8 DEF Updated
  <2> QED  BY <1>2, <1>3, <1>12, <2>1, <2>2, BuddyUpdate
<1>14. ASSUME NEW j \in 1..Len(mem_buddy) PROVE TreeInv(j)'
  <2>1. CASE j = k
    BY <1>11, <1>12, <1>13, <2>1 DEF TreeInv
  <2>2. CASE j # k
    <3>1. j \in 1..Len(Zones)
      BY DEF Inv
    <3> QED  BY <1>2, <1>10, <1>13, <2>2, <3>1 DEF TreeInv
  <2> QED  BY <2>1, <2>2
<1>15. ASSUME NEW x \in held'
       PROVE  \E j \in 1..Len(mem_buddy') : \E m \in Give(j) : x = Block(j, m)
  BY <1>8, <1>13 DEF Inv
<1>16. Len(mem_buddy') <= Len(Zones) /\ ~(Len(mem_buddy') < Len(Zones))
  BY <1>13, ZonesLen DEF Inv
<1> QED  BY <1>13, <1>14, <1>15, <1>16 DEF Inv

(* Every step keeps the invariant.                                         *)
LEMMA InvNext ==
  ASSUME Apart, Inv, [Next]_vars
  PROVE  Inv'
<1>1. CASE NextZone
  BY <1>1, InvZone
<1>2. ASSUME NEW n \in 1..(NPage + 1), AllocOk(n), Len(mem_buddy) = Len(Zones), reserved' = reserved PROVE Inv'
  BY <1>2, InvAlloc
<1>3. ASSUME UNCHANGED <<mem_buddy, held, reserved>> PROVE Inv'
  BY <1>3 DEF Inv, TreeInv, HeldIn
<1>4. ASSUME NEW block \in held, Free(block), Len(mem_buddy) = Len(Zones), reserved' = reserved PROVE Inv'
  BY <1>4, InvFree
<1> QED  BY <1>1, <1>2, <1>3, <1>4 DEF Next, Alloc, AllocFail, vars

(* The trees are exact at every step of every behaviour: the nodes         *)
(* allocated in a tree are those of the blocks callers hold and its cut-   *)
(* off end, longest is what they determine and free_size counts the pages  *)
(* that remain.                                                            *)
THEOREM Invariance == ASSUME Apart PROVE Spec => []Inv
<1>1. Init => Inv
  BY InvInit
<1>2. Inv /\ [Next]_vars => Inv'
  BY InvNext
<1> QED  BY <1>1, <1>2, PTL DEF Spec

-----------------------------------------------------------------------------
(* What follows from the invariant                                         *)

(* The free pages of a tree are those it gives away that no held block has. *)
LEMMA FreeInIs ==
  ASSUME Inv, NEW k \in 1..Len(mem_buddy)
  PROVE  /\ FreeIn(mem_buddy[k]) = {First(k) + p : p \in Rest(Size(k), Room(k), HeldIn(k))}
         /\ IsFiniteSet(FreeIn(mem_buddy[k]))
         /\ Cardinality(FreeIn(mem_buddy[k])) = mem_buddy[k].free_size
<1>1. TreeInv(k) /\ k \in 1..Len(Zones)
  BY ZonesLen DEF Inv
<1>2. PICK size, first, room, H, e, t :
         /\ size \in Powers /\ first \in Nat /\ room \in Nat
         /\ size = Size(k) /\ first = First(k) /\ room = Room(k)
         /\ H = HeldIn(k) /\ e = End(k) /\ t = mem_buddy[k].longest
         /\ size \in Nat /\ room < size /\ e \in Nodes(size)
         /\ NodeOffset(size, e) = room /\ NodeSize(size, e) = size - room
         /\ Shape(size, t, H \cup {e})
         /\ mem_buddy[k].size = size /\ mem_buddy[k].begin_page = first
  BY <1>1, TreeIs DEF TreeInv
<1> size \in Powers /\ first \in Nat /\ room \in Nat
  BY <1>2
<1> DEFINE S == Rest(size, room, H)
           T == {first + p : p \in S}
<1>3. ASSUME NEW p \in 0..(size - 1)
      PROVE  Allocated(mem_buddy[k], p + size - 1) = {} <=> p \in S
  <2>1. Allocated(mem_buddy[k], p + size - 1) = {z \in Path(size, p) : t[z] = 0}
    BY <1>2 DEF Allocated, Path
  <2>2. ASSUME NEW z \in Path(size, p), t[z] = 0 PROVE p \notin S
    <3>1. PICK a \in H \cup {e} : Holds(size, a, p)
      BY <1>2, <2>2, ShapeZero
    <3>2. CASE a \in H
      BY <3>1, <3>2 DEF Rest
    <3>3. CASE a = e
      <4>1. ~(p <= room - 1)
        BY <1>2, <3>1, <3>3 DEF Holds
      <4> QED  BY <1>2, <4>1 DEF Rest
    <3> QED  BY <3>2, <3>3
  <2>3. ASSUME p \notin S PROVE \E z \in Path(size, p) : t[z] = 0
    <3>1. PICK a \in H \cup {e} : Holds(size, a, p)
      <4>1. CASE p <= room - 1
        <5>1. p \in 0..(room - 1)
          BY <4>1, <1>2
        <5> QED  BY <2>3, <5>1 DEF Rest
      <4>2. CASE ~(p <= room - 1)
        <5>1. size \in Nat /\ room \in Nat /\ room < size
          BY <1>2
        <5>2. room <= p /\ p < room + (size - room)
          BY ONLY <4>2, <5>1, p \in 0..(size - 1)
        <5>3. Holds(size, e, p)
          BY <1>2, <5>2 DEF Holds
        <5> QED  BY <5>3
      <4> QED  BY <4>1, <4>2
    <3>2. a \in Nodes(size) /\ t[a] = 0
      BY <1>2 DEF Shape, ShapeAt
    <3> QED  BY <3>1, <3>2, PathIs
  <2> QED  BY <2>1, <2>2, <2>3
<1>4. FreeIn(mem_buddy[k]) = T
  <2>1. FreeIn(mem_buddy[k]) =
          {page \in first..(first + size - 1) : Allocated(mem_buddy[k], page - first + size - 1) = {}}
    BY <1>2 DEF FreeIn, Run
  <2>2. ASSUME NEW page \in FreeIn(mem_buddy[k]) PROVE page \in T
    <3>1. page \in first..(first + size - 1) /\ Allocated(mem_buddy[k], page - first + size - 1) = {}
      BY <2>1, <2>2
    <3>2. PICK p \in 0..(size - 1) : p = page - first /\ page = first + p
      <4>1. page \in first..(first + size - 1) /\ size \in Nat
        BY <1>2, <3>1
      <4>2. page - first \in 0..(size - 1) /\ page = first + (page - first)
        BY ONLY <4>1, first \in Nat
      <4> QED  BY <4>2
    <3> QED  BY <1>3, <3>1, <3>2
  <2>3. ASSUME NEW p \in S PROVE first + p \in FreeIn(mem_buddy[k])
    <3>1. p \in 0..(size - 1) /\ p \in Nat /\ size \in Nat
      BY <1>2 DEF Rest
    <3>2. first + p \in first..(first + size - 1) /\ (first + p) - first = p
      BY ONLY <3>1, first \in Nat
    <3> QED  BY <1>3, <2>1, <3>1, <3>2
  <2> QED  BY <2>2, <2>3
<1>5. IsFiniteSet(T) /\ Cardinality(T) = Cardinality(S)
  <2>1. S \subseteq 0..(room - 1) /\ IsFiniteSet(0..(room - 1))
    BY FS_Interval DEF Rest
  <2>2. IsFiniteSet(S)
    <3> HIDE DEF S
    <3> QED  BY <2>1, FS_Subset
  <2>3. [p \in S |-> first + p] \in Bijection(S, T)
    <3>1. \A p \in S : p \in Nat
      BY <2>1
    <3>2. \A p, q \in S : first + p = first + q => p = q
      BY <3>1
    <3> HIDE DEF S
    <3> QED  BY <3>2 DEF Bijection, Injection, Surjection, IsInjective
  <2>4. ExistsBijection(S, T)
    BY <2>3 DEF ExistsBijection
  <2> HIDE DEF S, T
  <2> QED  BY <2>2, <2>4, FS_Bijection
<1>6. mem_buddy[k].free_size = Cardinality(S)
  BY <1>1, <1>2 DEF TreeInv
<1> QED  BY <1>2, <1>4, <1>5, <1>6

(* The free pages of the first k trees.                                    *)
FreeUpTo(k) == UNION {FreeIn(mem_buddy[j]) : j \in 1..k}

(* The free pages of two trees are different pages ...                     *)
LEMMA FreeApart ==
  ASSUME Apart, Inv, NEW j \in 1..Len(mem_buddy), NEW k \in 1..Len(mem_buddy), j < k
  PROVE  FreeIn(mem_buddy[j]) \cap FreeIn(mem_buddy[k]) = {}
<1>1. j \in 1..Len(Zones) /\ k \in 1..Len(Zones)
  BY ZonesLen DEF Inv
<1>2. First(j) \in Nat /\ Room(j) \in Nat /\ First(k) \in Nat /\ First(j) + Room(j) <= First(k)
  BY <1>1, TreeIs DEF Apart
<1>3. ASSUME NEW l \in 1..Len(Zones), l \in 1..Len(mem_buddy), NEW p \in FreeIn(mem_buddy[l])
      PROVE  p \in Nat /\ First(l) <= p /\ p < First(l) + Room(l)
  <2>1. PICK q \in Rest(Size(l), Room(l), HeldIn(l)) : p = First(l) + q
    BY <1>3, FreeInIs
  <2>2. PICK x \in Nat, y \in Nat : x = First(l) /\ y = Room(l)
    BY TreeIs
  <2>3. q \in 0..(y - 1)
    BY <2>2 DEF Rest
  <2>4. x + q \in Nat /\ x <= x + q /\ x + q < x + y
    BY ONLY <2>3, x \in Nat, y \in Nat
  <2> QED  BY <2>1, <2>2, <2>4
<1>4. ASSUME NEW p \in FreeIn(mem_buddy[j]), p \in FreeIn(mem_buddy[k]) PROVE FALSE
  <2>1. p \in Nat /\ p < First(j) + Room(j) /\ First(k) <= p
    BY <1>1, <1>3, <1>4
  <2> QED  BY <1>2, <2>1
<1> QED  BY <1>4

(* ... so the numbers of free pages of the trees add up ...                *)
LEMMA FreeUpToIs ==
  ASSUME Apart, Inv
  PROVE  \A k \in 0..Len(mem_buddy) :
            /\ IsFiniteSet(FreeUpTo(k))
            /\ Cardinality(FreeUpTo(k)) =
                  IF k = 0 THEN 0 ELSE Cardinality(FreeUpTo(k - 1)) + mem_buddy[k].free_size
<1> DEFINE Bad == {k \in 0..Len(mem_buddy) : ~ IsFiniteSet(FreeUpTo(k))}
<1>0. Len(mem_buddy) \in Nat
  BY DEF Inv
<1>1. FreeUpTo(0) = {}
  BY DEF FreeUpTo
<1>2. ASSUME NEW k \in 1..Len(mem_buddy), IsFiniteSet(FreeUpTo(k - 1))
      PROVE  /\ IsFiniteSet(FreeUpTo(k))
             /\ Cardinality(FreeUpTo(k)) = Cardinality(FreeUpTo(k - 1)) + mem_buddy[k].free_size
  <2>1. FreeUpTo(k) = FreeUpTo(k - 1) \cup FreeIn(mem_buddy[k])
    <3>1. \A j : j \in 1..k <=> j \in 1..(k - 1) \/ j = k
      BY <1>0
    <3> QED  BY <3>1 DEF FreeUpTo
  <2>2. FreeUpTo(k - 1) \cap FreeIn(mem_buddy[k]) = {}
    <3>1. \A j \in 1..(k - 1) : j \in 1..Len(mem_buddy) /\ j < k
      BY <1>0
    <3> QED  BY <3>1, FreeApart DEF FreeUpTo
  <2>3. IsFiniteSet(FreeIn(mem_buddy[k])) /\ Cardinality(FreeIn(mem_buddy[k])) = mem_buddy[k].free_size
    BY FreeInIs
  <2>4. PICK x, y : x = FreeUpTo(k - 1) /\ y = FreeIn(mem_buddy[k])
    OBVIOUS
  <2>5. /\ IsFiniteSet(x \cup y)
        /\ Cardinality(x \cup y) = Cardinality(x) + Cardinality(y) - Cardinality(x \cap y)
    BY <1>2, <2>3, <2>4, FS_Union
  <2>6. Cardinality(x) \in Nat /\ Cardinality(y) \in Nat /\ Cardinality(x \cap y) = 0
    BY <1>2, <2>2, <2>3, <2>4, FS_CardinalityType, FS_EmptySet
  <2>7. Cardinality(x \cup y) = Cardinality(x) + Cardinality(y)
    BY <2>5, <2>6
  <2> QED  BY <2>1, <2>3, <2>4, <2>5, <2>7
<1>3. Bad = {}
  <2>1. SUFFICES ASSUME Bad # {} PROVE FALSE
    OBVIOUS
  <2>2. PICK m \in Bad : \A k \in Bad : m <= k
    <3>1. Bad \in SUBSET Nat
      BY <1>0
    <3> HIDE DEF Bad
    <3> QED  BY <2>1, <3>1, LeastNatural
  <2>3. m # 0
    BY <1>1, <2>2, FS_EmptySet
  <2>4. m \in 1..Len(mem_buddy) /\ m - 1 \in 0..Len(mem_buddy) /\ ~(m <= m - 1)
    BY <1>0, <2>2, <2>3
  <2>5. m - 1 \notin Bad
    <3> HIDE DEF Bad
    <3> QED  BY <2>2, <2>4
  <2>6. IsFiniteSet(FreeUpTo(m - 1))
    BY <2>4, <2>5
  <2> QED  BY <1>2, <2>2, <2>4, <2>6
<1>4. \A k \in 0..Len(mem_buddy) : IsFiniteSet(FreeUpTo(k))
  <2>1. \A k \in 0..Len(mem_buddy) : k \notin Bad
    <3> HIDE DEF Bad
    <3> QED  BY <1>3
  <2> QED  BY <2>1
<1>5. ASSUME NEW k \in 0..Len(mem_buddy), k # 0
      PROVE  Cardinality(FreeUpTo(k)) = Cardinality(FreeUpTo(k - 1)) + mem_buddy[k].free_size
  <2>1. k \in 1..Len(mem_buddy) /\ k - 1 \in 0..Len(mem_buddy)
    BY <1>0, <1>5
  <2> QED  BY <1>2, <1>4, <2>1
<1> QED  BY <1>1, <1>4, <1>5, FS_EmptySet

(* ... to what buddy_nr_free_pages returns.                                *)
LEMMA NrFreePagesIs ==
  ASSUME Apart, Inv
  PROVE  NrFreePages = Cardinality(FreePages)
<1> DEFINE N == Len(mem_buddy)
           c == [k \in 0..N |-> Cardinality(FreeUpTo(k))]
<1>0. N \in Nat /\ DOMAIN mem_buddy = 1..N
  BY DEF Inv
<1>1. c = [k \in 0..N |-> IF k = 0 THEN 0 ELSE c[k - 1] + mem_buddy[k].free_size]
  <2>1. ASSUME NEW k \in 0..N
        PROVE  c[k] = IF k = 0 THEN 0 ELSE c[k - 1] + mem_buddy[k].free_size
    <3>1. k # 0 => k - 1 \in 0..N
      BY <1>0
    <3> QED  BY <3>1, FreeUpToIs
  <2> QED  BY <2>1
<1>2. PICK g : /\ NrFreePages = g[N]
               /\ g = [k \in 0..N |-> IF k = 0 THEN 0 ELSE g[k - 1] + mem_buddy[k].free_size]
  <2> HIDE DEF c
  <2> QED  BY <1>1 DEF NrFreePages
<1> DEFINE Bad == {k \in 0..N : g[k] # c[k]}
<1>3. Bad = {}
  <2>1. SUFFICES ASSUME Bad # {} PROVE FALSE
    OBVIOUS
  <2>2. PICK m \in Bad : \A k \in Bad : m <= k
    <3>1. Bad \in SUBSET Nat
      BY <1>0
    <3> HIDE DEF Bad
    <3> QED  BY <2>1, <3>1, LeastNatural
  <2> HIDE DEF c
  <2>3. m # 0
    <3>1. 0 \in 0..N
      BY <1>0
    <3> QED  BY <1>1, <1>2, <2>2, <3>1
  <2>4. m \in 0..N /\ m - 1 \in 0..N /\ ~(m <= m - 1)
    BY <1>0, <2>2, <2>3
  <2>5. m - 1 \notin Bad
    <3> HIDE DEF Bad
    <3> QED  BY <2>2, <2>4
  <2>6. g[m] = g[m - 1] + mem_buddy[m].free_size /\ c[m] = c[m - 1] + mem_buddy[m].free_size
    BY <1>1, <1>2, <2>3, <2>4
  <2> QED  BY <2>2, <2>4, <2>5, <2>6
<1>4. g[N] = c[N]
  <2>1. N \in 0..N
    BY <1>0
  <2>2. N \notin Bad
    <3> HIDE DEF Bad
    <3> QED  BY <1>3
  <2> QED  BY <2>1, <2>2
<1>5. FreeUpTo(N) = FreePages /\ c[N] = Cardinality(FreeUpTo(N))
  BY <1>0 DEF FreeUpTo, FreePages
<1> QED  BY <1>2, <1>4, <1>5

(* The pages of a block are those its node holds.                          *)
LEMMA BlockPages ==
  ASSUME NEW k \in 1..Len(Zones), NEW i \in Nodes(Size(k)), NEW p \in Nat
  PROVE  First(k) + p \in Run(Block(k, i).base, Block(k, i).size) <=> Holds(Size(k), i, p)
<1>1. PICK o, s, x \in Nat : o = NodeOffset(Size(k), i) /\ s = NodeSize(Size(k), i) /\ x = First(k)
  BY TreeIs, NodeIs
<1>2. x + p \in (x + o)..((x + o) + s - 1) <=> o <= p /\ p < o + s
  BY ONLY o \in Nat, s \in Nat, x \in Nat, p \in Nat
<1> QED  BY <1>1, <1>2 DEF Block, Run, Holds

(* The pages of a block that a tree gives away are pages it gives away.    *)
LEMMA BlockWithin ==
  ASSUME NEW k \in 1..Len(Zones), NEW i \in Give(k), NEW q \in Run(Block(k, i).base, Block(k, i).size)
  PROVE  \E p \in 0..(Room(k) - 1) : q = First(k) + p /\ Holds(Size(k), i, p)
<1>1. PICK o, s, x, room \in Nat :
         /\ o = NodeOffset(Size(k), i) /\ s = NodeSize(Size(k), i) /\ x = First(k) /\ room = Room(k)
         /\ o + s <= room
  BY TreeIs, GiveIs
<1>2. q \in (x + o)..((x + o) + s - 1)
  BY <1>1 DEF Block, Run
<1>3. q - x \in 0..(room - 1) /\ q = x + (q - x) /\ o <= q - x /\ q - x < o + s
  <2>1. o + s <= room
    BY <1>1
  <2> QED  BY ONLY <1>2, <2>1, o \in Nat, s \in Nat, x \in Nat, room \in Nat
<1> QED  BY <1>1, <1>3 DEF Holds

(* No page is given away by two trees.                                     *)
LEMMA RoomsApart ==
  ASSUME Apart, NEW j \in 1..Len(Zones), NEW k \in 1..Len(Zones), j # k,
         NEW p \in 0..(Room(j) - 1), NEW q \in 0..(Room(k) - 1)
  PROVE  First(j) + p # First(k) + q
<1>1. PICK x, y, u, v \in Nat : x = First(j) /\ y = First(k) /\ u = Room(j) /\ v = Room(k)
  BY TreeIs
<1>2. x + u <= y \/ y + v <= x
  <2>1. (j < k => First(j) + Room(j) <= First(k)) /\ (k < j => First(k) + Room(k) <= First(j))
    BY DEF Apart
  <2>2. j < k \/ k < j
    BY ZonesLen
  <2> QED  BY <1>1, <2>1, <2>2
<1>3. p \in 0..(u - 1) /\ q \in 0..(v - 1)
  BY <1>1
<1>4. x + p # y + q
  BY ONLY <1>2, <1>3, x \in Nat, y \in Nat, u \in Nat, v \in Nat
<1> QED  BY <1>1, <1>4

(* The pages of a tree that callers own are those of its held blocks.      *)
LEMMA OwnedIn ==
  ASSUME Apart, Inv, NEW k \in 1..Len(mem_buddy), NEW p \in 0..(Room(k) - 1)
  PROVE  First(k) + p \in Owned <=> \E i \in HeldIn(k) : Holds(Size(k), i, p)
<1>1. k \in 1..Len(Zones) /\ Room(k) \in Nat /\ p \in Nat
  BY ZonesLen, TreeIs DEF Inv
<1>2. ASSUME NEW i \in HeldIn(k), Holds(Size(k), i, p) PROVE First(k) + p \in Owned
  <2>1. i \in Nodes(Size(k)) /\ Block(k, i) \in held
    BY <1>1 DEF HeldIn, Give
  <2> QED  BY <1>1, <1>2, <2>1, BlockPages DEF Owned
<1>3. ASSUME First(k) + p \in Owned PROVE \E i \in HeldIn(k) : Holds(Size(k), i, p)
  <2>1. PICK block \in held : First(k) + p \in Run(block.base, block.size)
    BY <1>3 DEF Owned
  <2>2. PICK j, i : j \in 1..Len(mem_buddy) /\ i \in Give(j) /\ block = Block(j, i)
    BY <2>1 DEF Inv
  <2> j \in 1..Len(mem_buddy)
    BY <2>2
  <2>3. j \in 1..Len(Zones)
    BY ZonesLen DEF Inv
  <2>4. PICK q \in 0..(Room(j) - 1) : First(k) + p = First(j) + q /\ Holds(Size(j), i, q)
    BY <2>1, <2>2, <2>3, BlockWithin
  <2>5. j = k
    BY <1>1, <2>3, <2>4, RoomsApart
  <2>6. i \in Nodes(Size(k)) /\ i \in HeldIn(k)
    BY <2>1, <2>2, <2>5 DEF HeldIn, Give
  <2> QED  BY <1>1, <2>1, <2>2, <2>5, <2>6, BlockPages
<1> QED  BY <1>2, <1>3

(* Blocks that callers hold have no page in common.                        *)
LEMMA HeldApart ==
  ASSUME Apart, Inv, NEW x \in held, NEW y \in held, x # y
  PROVE  Run(x.base, x.size) \cap Run(y.base, y.size) = {}
<1>1. PICK j, i : j \in 1..Len(mem_buddy) /\ i \in Give(j) /\ x = Block(j, i)
  BY DEF Inv
<1> j \in 1..Len(mem_buddy)
  BY <1>1
<1>2. PICK k, m : k \in 1..Len(mem_buddy) /\ m \in Give(k) /\ y = Block(k, m)
  BY DEF Inv
<1> k \in 1..Len(mem_buddy)
  BY <1>2
<1>3. j \in 1..Len(Zones) /\ k \in 1..Len(Zones)
  BY ZonesLen DEF Inv
<1>4. CASE j # k
  BY <1>1, <1>2, <1>3, <1>4, BlocksApart
<1>5. CASE j = k
  <2>1. i # m /\ i \in HeldIn(k) /\ m \in HeldIn(k)
    BY <1>1, <1>2, <1>5 DEF HeldIn
  <2>2. Disjoint(Size(k), i, m)
    <3>1. Size(k) \in Powers /\ Shape(Size(k), mem_buddy[k].longest, HeldIn(k) \cup {End(k)})
      BY <1>3, TreeIs DEF Inv, TreeInv
    <3> QED  BY <2>1, <3>1, HeldDisjoint
  <2>3. PICK a, b, c, d, u \in Nat :
           /\ a = NodeOffset(Size(k), i) /\ b = NodeSize(Size(k), i)
           /\ c = NodeOffset(Size(k), m) /\ d = NodeSize(Size(k), m)
           /\ u = First(k)
    BY <1>1, <1>2, <1>3, <1>5, TreeIs, GiveIs
  <2>4. a + b <= c \/ c + d <= a
    BY <2>2, <2>3 DEF Disjoint
  <2>5. (u + a)..((u + a) + b - 1) \cap (u + c)..((u + c) + d - 1) = {}
    BY ONLY <2>4, a \in Nat, b \in Nat, c \in Nat, d \in Nat, u \in Nat
  <2> QED  BY <1>1, <1>2, <1>5, <2>3, <2>5 DEF Block, Run
<1> QED  BY <1>4, <1>5

(* The pages a tree gives away. *)
LEMMA OwnIs ==
  ASSUME NEW k \in 1..Len(Zones)
  PROVE  Run(Layouts[k].begin_page, Layouts[k].free_size) = {First(k) + p : p \in 0..(Room(k) - 1)}
<1>1. PICK x, u \in Nat : x = First(k) /\ u = Room(k)
  BY TreeIs
<1>2. x..(x + u - 1) = {x + p : p \in 0..(u - 1)}
  <2>1. ASSUME NEW q \in x..(x + u - 1) PROVE q - x \in 0..(u - 1) /\ q = x + (q - x)
    BY ONLY <2>1, x \in Nat, u \in Nat
  <2>2. ASSUME NEW p \in 0..(u - 1) PROVE x + p \in x..(x + u - 1)
    BY ONLY <2>2, x \in Nat, u \in Nat
  <2> QED  BY <2>1, <2>2
<1> QED  BY <1>1, <1>2 DEF Run, First, Room

(* A page of a tree is free or owned, and never both.                      *)
LEMMA FreeAndOwned ==
  ASSUME Apart, Inv
  PROVE  FreePages \cap Owned = {} /\ FreePages \cup Owned = Managed
<1>1. DOMAIN mem_buddy = 1..Len(mem_buddy) /\ \A k \in 1..Len(mem_buddy) : k \in 1..Len(Zones)
  BY ZonesLen DEF Inv
<1>2. ASSUME NEW q \in FreePages PROVE q \in Managed /\ q \notin Owned
  <2>1. PICK k \in 1..Len(mem_buddy) : q \in FreeIn(mem_buddy[k])
    BY <1>1, <1>2 DEF FreePages
  <2>2. PICK p \in Rest(Size(k), Room(k), HeldIn(k)) : q = First(k) + p
    BY <2>1, FreeInIs
  <2>3. p \in 0..(Room(k) - 1) /\ \A i \in HeldIn(k) : ~Holds(Size(k), i, p)
    BY DEF Rest
  <2>4. q \notin Owned
    BY <2>2, <2>3, OwnedIn
  <2>5. q \in Managed
    BY <1>1, <2>2, <2>3, OwnIs DEF Managed
  <2> QED  BY <2>4, <2>5
<1>3. ASSUME NEW q \in Owned PROVE q \in Managed
  <2>1. PICK block \in held : q \in Run(block.base, block.size)
    BY <1>3 DEF Owned
  <2>2. PICK j, i : j \in 1..Len(mem_buddy) /\ i \in Give(j) /\ block = Block(j, i)
    BY <2>1 DEF Inv
  <2> j \in 1..Len(mem_buddy)
    BY <2>2
  <2>3. PICK p \in 0..(Room(j) - 1) : q = First(j) + p
    BY <1>1, <2>1, <2>2, BlockWithin
  <2> QED  BY <1>1, <2>3, OwnIs DEF Managed
<1>4. ASSUME NEW q \in Managed, q \notin Owned PROVE q \in FreePages
  <2>1. PICK k \in 1..Len(mem_buddy) : q \in Run(Layouts[k].begin_page, Layouts[k].free_size)
    BY <1>1, <1>4 DEF Managed
  <2>2. PICK p \in 0..(Room(k) - 1) : q = First(k) + p
    BY <1>1, <2>1, OwnIs
  <2>3. p \in Rest(Size(k), Room(k), HeldIn(k))
    BY <1>4, <2>2, OwnedIn DEF Rest
  <2> QED  BY <1>1, <2>2, <2>3, FreeInIs DEF FreePages
<1> QED  BY <1>2, <1>3, <1>4

(* No page is lost or given away twice by buddy_alloc_pages and            *)
(* buddy_free_pages, whatever blocks callers hold and in whatever order    *)
(* they return them, and buddy_nr_free_pages is the number of free pages.  *)
THEOREM PagesConserved == ASSUME Apart PROVE Spec => []Conservation
<1>1. Inv => Conservation
  <2> SUFFICES ASSUME Inv PROVE Conservation
    OBVIOUS
  <2> QED  BY HeldApart, FreeAndOwned, NrFreePagesIs DEF Conservation
<1> QED  BY <1>1, Invariance, PTL

(* The nodes whose pages nobody holds are those the tree has vacant.       *)
LEMMA VacantIs ==
  ASSUME Apart, Inv, NEW k \in 1..Len(mem_buddy), NEW j \in Nodes(Size(k))
  PROVE  /\ Run(Block(k, j).base, Block(k, j).size) \subseteq
               Run(Layouts[k].begin_page, Layouts[k].free_size) \ Owned
         <=> j \in Vacant(Size(k), HeldIn(k) \cup {End(k)})
<1>1. k \in 1..Len(Zones)
  BY ZonesLen DEF Inv
<1>0. /\ Size(k) \in Powers /\ End(k) \in Nat /\ Room(k) \in Nat /\ First(k) \in Nat
      /\ End(k) \in Nodes(Size(k)) /\ Room(k) < Size(k) /\ NodeOffset(Size(k), End(k)) = Room(k)
      /\ NodeSize(Size(k), End(k)) = Size(k) - Room(k)
      /\ HeldIn(k) \subseteq Give(k) /\ HeldIn(k) \subseteq Nodes(Size(k))
  BY <1>1, TreeIs DEF HeldIn, Give
<1>2. PICK size, e, room, x, H :
         /\ size \in Powers /\ e \in Nat /\ room \in Nat /\ x \in Nat
         /\ size = Size(k) /\ e = End(k) /\ room = Room(k) /\ x = First(k) /\ H = HeldIn(k)
         /\ e \in Nodes(size) /\ room < size /\ NodeOffset(size, e) = room
         /\ NodeSize(size, e) = size - room /\ H \subseteq Give(k) /\ H \subseteq Nodes(size)
  BY ONLY <1>0, Zenon
<1> size \in Powers /\ e \in Nat /\ room \in Nat /\ x \in Nat
  BY <1>2
<1> DEFINE Pages == Run(Block(k, j).base, Block(k, j).size)
           Own == Run(Layouts[k].begin_page, Layouts[k].free_size)
<1>3. j \in Nodes(size) /\ NodeOffset(size, j) \in Nat /\ NodeSize(size, j) \in Nat /\ NodeSize(size, j) >= 1
  BY <1>2, NodeIs
<1>4. \A p \in Nat : x + p \in Pages <=> Holds(size, j, p)
  BY <1>1, <1>2, BlockPages
<1>5. Own = {x + p : p \in 0..(room - 1)}
  BY <1>1, <1>2, OwnIs
<1>6. \A p \in 0..(room - 1) : x + p \in Owned <=> \E i \in H : Holds(size, i, p)
  BY <1>2, OwnedIn
<1>7. ASSUME j \in Vacant(size, H \cup {e}), NEW q \in Pages PROVE q \in Own \ Owned
  <2>1. j \in Give(k)
    BY <1>1, <1>2, <1>7, GiveVacant
  <2>2. PICK p \in 0..(room - 1) : q = x + p /\ Holds(size, j, p)
    BY <1>1, <1>2, <1>7, <2>1, BlockWithin
  <2>3. ASSUME NEW i \in H, Holds(size, i, p) PROVE FALSE
    <3>1. i \in Nodes(size) /\ i # j /\ i \notin Ancestors(size, j) /\ j \notin Ancestors(size, i)
      BY <1>2, <1>3, <1>7 DEF Vacant, Live, Below
    <3>2. Disjoint(size, i, j)
      BY <1>3, <3>1, Nested DEF Related
    <3>3. NodeOffset(size, i) \in Nat /\ NodeSize(size, i) \in Nat /\ p \in Nat
      BY <3>1, NodeIs
    <3> QED  BY <1>3, <2>2, <2>3, <3>2, <3>3 DEF Disjoint, Holds
  <2> QED  BY <1>5, <1>6, <2>2, <2>3
<1>8. ASSUME Pages \subseteq Own \ Owned PROVE j \in Vacant(size, H \cup {e})
  <2>1. ASSUME NEW a \in H \cup {e}, NEW p \in Nat, Holds(size, a, p), Holds(size, j, p) PROVE FALSE
    <3>1. x + p \in Own /\ x + p \notin Owned
      BY <1>4, <1>8, <2>1
    <3>2. PICK q \in 0..(room - 1) : x + p = x + q
      BY <1>5, <3>1
    <3>3. p = q
      BY ONLY <3>2, x \in Nat, p \in Nat, room \in Nat
    <3>4. CASE a \in H
      BY <1>6, <2>1, <3>1, <3>3, <3>4
    <3>5. CASE a = e
      <4>1. room <= p /\ p <= room - 1
        BY <1>2, <2>1, <3>3, <3>5 DEF Holds
      <4> QED  BY <4>1
    <3> QED  BY <3>4, <3>5
  <2>2. ASSUME NEW a \in H \cup {e}, Inside(size, j, a) \/ Inside(size, a, j) PROVE FALSE
    <3>1. PICK o, s, c, d \in Nat : /\ o = NodeOffset(size, a) /\ s = NodeSize(size, a) /\ s >= 1
                                    /\ c = NodeOffset(size, j) /\ d = NodeSize(size, j) /\ d >= 1
      BY <1>2, <1>3, NodeIs
    <3>0. o \in Nat /\ s \in Nat /\ c \in Nat /\ d \in Nat /\ s >= 1 /\ d >= 1
      BY <3>1
    <3>2. CASE Inside(size, j, a)
      <4>1. o <= c /\ c + d <= o + s
        BY <3>1, <3>2 DEF Inside
      <4>2. o <= c /\ c < o + s /\ c <= c /\ c < c + d
        BY ONLY <3>0, <4>1
      <4>3. Holds(size, a, c) /\ Holds(size, j, c)
        BY <3>1, <4>2 DEF Holds
      <4> QED  BY <2>1, <4>3
    <3>3. CASE Inside(size, a, j)
      <4>1. c <= o /\ o + s <= c + d
        BY <3>1, <3>3 DEF Inside
      <4>2. o <= o /\ o < o + s /\ c <= o /\ o < c + d
        BY ONLY <3>0, <4>1
      <4>3. Holds(size, a, o) /\ Holds(size, j, o)
        BY <3>1, <4>2 DEF Holds
      <4> QED  BY <2>1, <4>3
    <3> QED  BY <2>2, <3>2, <3>3
  <2>3. ASSUME NEW a \in H \cup {e}
        PROVE  a \in Nodes(size) /\ a # j /\ a \notin Ancestors(size, j) /\ j \notin Ancestors(size, a)
    <3>1. a \in Nodes(size) /\ NodeOffset(size, a) \in Nat /\ NodeSize(size, a) \in Nat
      BY <1>2, NodeIs
    <3>2. a = j => Inside(size, j, a)
      BY <3>1 DEF Inside
    <3>3. /\ a \in Ancestors(size, j) => Inside(size, j, a)
          /\ j \in Ancestors(size, a) => Inside(size, a, j)
      BY <1>3, <3>1, AncestorsOf DEF AncestorsFine
    <3> QED  BY <2>2, <3>1, <3>2, <3>3
  <2> QED  BY <1>3, <2>3 DEF Vacant, Live, Below
<1> QED  BY <1>2, <1>7, <1>8

(* The maximum of a set with a greatest element.                           *)
LEMMA MaxUnique ==
  ASSUME NEW S \in SUBSET Int, NEW m \in S, \A y \in S : y <= m
  PROVE  Max(S) = m
<1>1. \E x \in S : \A y \in S : x >= y
  OBVIOUS
<1>2. Max(S) \in S /\ \A y \in S : Max(S) >= y
  BY <1>1 DEF Max
<1>3. PICK x : x = Max(S)
  OBVIOUS
<1>4. x \in Int /\ m \in Int /\ x >= m /\ x <= m
  BY <1>2, <1>3
<1>5. x = m
  BY ONLY <1>4
<1> QED  BY <1>3, <1>5

(* With the pages nobody owns as the vacant nodes, ShapeValue is what      *)
(* TreeExact says.                                                         *)
LEMMA TreeExactly ==
  ASSUME Apart, Inv
  PROVE  TreeExact
<1> SUFFICES ASSUME NEW k \in DOMAIN mem_buddy,
                    NEW i \in Nodes(mem_buddy[k].size),
                    \A a \in Ancestors(mem_buddy[k].size, i) : mem_buddy[k].longest[a] # 0
             PROVE  LET b == mem_buddy[k]
                        Pages(j) == Run(b.begin_page + NodeOffset(b.size, j), NodeSize(b.size, j))
                        Own == Run(b.begin_page, Layouts[k].free_size)
                        V == {j \in Nodes(b.size) : Pages(j) \subseteq Own \ Owned}
                    IN  b.longest[i] =
                          Max({0} \cup {NodeSize(b.size, j) : j \in
                                 {v \in V : v = i \/ i \in Ancestors(b.size, v)}})
  BY DEF TreeExact
<1>1. k \in 1..Len(mem_buddy) /\ k \in 1..Len(Zones)
  BY ZonesLen DEF Inv
<1>2. PICK size, t, A :
         /\ size \in Powers
         /\ size = Size(k) /\ t = mem_buddy[k].longest /\ A = HeldIn(k) \cup {End(k)}
         /\ Shape(size, t, A) /\ mem_buddy[k].size = size /\ mem_buddy[k].begin_page = First(k)
         /\ Layouts[k].begin_page = First(k)
  BY <1>1, TreeIs DEF Inv, TreeInv, First
<1> size \in Powers
  BY <1>2
<1> DEFINE Pages(j) == Run(First(k) + NodeOffset(size, j), NodeSize(size, j))
           Own == Run(First(k), Layouts[k].free_size)
           V == {j \in Nodes(size) : Pages(j) \subseteq Own \ Owned}
           S == {0} \cup {NodeSize(size, j) : j \in {v \in V : v = i \/ i \in Ancestors(size, v)}}
<1>3. i \in Nodes(size) /\ Live(size, A, i)
  <2>1. \A a \in A : t[a] = 0
    BY <1>2 DEF Shape, ShapeAt
  <2> QED  BY <1>2, <2>1 DEF Live
<1>4. V = Vacant(size, A)
  <2>1. \A j \in Nodes(size) : Pages(j) \subseteq Own \ Owned <=> j \in Vacant(size, A)
    BY <1>1, <1>2, VacantIs DEF Block
  <2>2. Vacant(size, A) \subseteq Nodes(size)
    BY DEF Vacant
  <2> QED  BY <2>1, <2>2
<1>5. S = {0} \cup {NodeSize(size, j) : j \in Below(size, i) \cap Vacant(size, A)}
  BY <1>4 DEF Below, Vacant
<1>6. ValueAt(size, t, A, i) /\ t[i] \in Nat
  BY <1>2, <1>3, ShapeValue DEF Shape
<1>7. t[i] \in S /\ \A y \in S : y <= t[i]
  BY <1>5, <1>6 DEF ValueAt
<1>8. S \in SUBSET Int
  <2>1. \A j \in Below(size, i) : NodeSize(size, j) \in Int
    BY NodeIs DEF Below
  <2> QED  BY <1>5, <2>1
<1>9. t[i] = Max(S)
  <2> HIDE DEF S
  <2> QED  BY <1>7, <1>8, MaxUnique
<1> QED  BY <1>2, <1>9

(* Every entry of longest that a walk can read is the size of the largest  *)
(* free node below it, as report_ex4 has it: an allocation never walks     *)
(* into a tree that cannot serve it, and never passes one over that can.   *)
THEOREM LongestIsExact == ASSUME Apart PROVE Spec => []TreeExact
<1>1. Inv => TreeExact
  BY TreeExactly
<1> QED  BY <1>1, Invariance, PTL

(* The entries of longest are powers of two or zero, and no tree counts    *)
(* more free pages than it has pages.                                      *)
THEOREM TypeCorrect == ASSUME Apart PROVE Spec => []TypeOK
<1>1. ASSUME Inv PROVE TypeOK
  <2>1. DOMAIN mem_buddy = 1..Len(mem_buddy) /\ \A k \in 1..Len(mem_buddy) : k \in 1..Len(Zones)
    BY <1>1, ZonesLen DEF Inv
  <2>2. ASSUME NEW k \in 1..Len(mem_buddy)
        PROVE  /\ mem_buddy[k].size \in Powers
               /\ mem_buddy[k].free_size \in 0..mem_buddy[k].size
               /\ mem_buddy[k].longest \in [Nodes(mem_buddy[k].size) -> Powers \cup {0}]
    <3>1. /\ mem_buddy[k].size = Size(k)
          /\ mem_buddy[k].free_size = Cardinality(Rest(Size(k), Room(k), HeldIn(k)))
          /\ Shape(Size(k), mem_buddy[k].longest, HeldIn(k) \cup {End(k)})
      BY <1>1 DEF Inv, TreeInv
    <3>2. PICK size, room, t, f :
             /\ size \in Powers /\ room \in Nat
             /\ size = Size(k) /\ room = Room(k) /\ size \in Nat /\ room < size
             /\ t = mem_buddy[k].longest /\ f = mem_buddy[k].free_size
      BY <2>1, TreeIs
    <3> size \in Powers /\ room \in Nat
      BY <3>2
    <3>3. t \in [Nodes(size) -> Powers \cup {0}]
      <4>1. t \in [Nodes(size) -> Nat] /\ \A i \in Nodes(size) : t[i] \in Powers \cup {0}
        BY <3>1, <3>2, ShapeBounds DEF Shape
      <4> QED  BY <4>1
    <3>4. f \in 0..size
      <4>1. Rest(size, room, HeldIn(k)) \subseteq 0..(room - 1)
        BY DEF Rest
      <4>2. IsFiniteSet(0..(room - 1)) /\ Cardinality(0..(room - 1)) = room
        <5>1. Cardinality(0..(room - 1)) = IF 0 > room - 1 THEN 0 ELSE (room - 1) - 0 + 1
          BY FS_Interval
        <5> QED  BY <5>1, FS_Interval
      <4>3. f <= room /\ f \in Nat
        BY <3>1, <3>2, <4>1, <4>2, FS_Subset, FS_CardinalityType
      <4> QED  BY <3>2, <4>3
    <3> QED  BY <3>1, <3>2, <3>3, <3>4
  <2>3. ASSUME NEW block \in held PROVE block.size \in Powers
    <3>1. PICK k, i : k \in 1..Len(mem_buddy) /\ i \in Give(k) /\ block = Block(k, i)
      BY <1>1 DEF Inv
    <3> k \in 1..Len(mem_buddy)
      BY <3>1
    <3> QED  BY <2>1, <3>1, TreeIs, NodeIs DEF Block, Give
  <2> QED  BY <1>1, <2>1, <2>2, <2>3 DEF TypeOK, Inv
<1> QED  BY <1>1, Invariance, PTL

(* Every region has room for the array before the pages its tree gives     *)
(* away.                                                                   *)
RoomForArray == \A k \in 1..Len(Zones) : First(k) + Room(k) <= Zones[k].base + Zones[k].n

(* The regions come in ascending order, not only from one to the next.     *)
LEMMA ZonesAscend ==
  ASSUME NEW j \in 1..Len(Zones), NEW k \in 1..Len(Zones), j < k
  PROVE  Zones[j].base + Zones[j].n <= Zones[k].base
<1> DEFINE B(m) == Zones[m].base
           E(m) == Zones[m].base + Zones[m].n
           Bad == {m \in 1..Len(Zones) : j < m /\ ~(E(j) <= B(m))}
<1>0. Len(Zones) \in Nat
  BY ZonesLen
<1>1. \A m \in 1..Len(Zones) : B(m) \in Nat /\ E(m) \in Nat /\ B(m) <= E(m)
  BY LayoutIs
<1>2. \A m \in 1..(Len(Zones) - 1) : E(m) <= B(m + 1)
  BY ZonesAssumption
<1>3. Bad = {}
  <2>1. SUFFICES ASSUME Bad # {} PROVE FALSE
    OBVIOUS
  <2>2. PICK m \in Bad : \A i \in Bad : m <= i
    <3>1. Bad \in SUBSET Nat
      BY <1>0
    <3> HIDE DEF Bad
    <3> QED  BY <2>1, <3>1, LeastNatural
  <2>3. m \in 1..Len(Zones) /\ j < m /\ ~(E(j) <= B(m))
    BY <2>2
  <2> HIDE DEF B, E
  <2>4. m - 1 \in 1..(Len(Zones) - 1) /\ m - 1 \in 1..Len(Zones) /\ (m - 1) + 1 = m /\ ~(m <= m - 1)
    BY <1>0, <2>3
  <2>5. E(m - 1) <= B(m)
    BY <1>2, <2>4
  <2>6. CASE m - 1 = j
    BY <2>3, <2>5, <2>6
  <2>7. CASE m - 1 # j
    <3>1. m - 1 \notin Bad
      <4> HIDE DEF Bad
      <4> QED  BY <2>2, <2>4
    <3>2. j < m - 1
      BY <2>3, <2>7
    <3>3. E(j) <= B(m - 1)
      BY <2>4, <3>1, <3>2
    <3>4. PICK a, b, c, d \in Nat : a = E(j) /\ b = B(m - 1) /\ c = E(m - 1) /\ d = B(m)
      BY <1>1, <2>3, <2>4
    <3>5. a <= b /\ b <= c /\ c <= d /\ ~(a <= d)
      BY <1>1, <2>3, <2>4, <2>5, <3>3, <3>4
    <3> QED  BY ONLY <3>5, a \in Nat, b \in Nat, c \in Nat, d \in Nat
  <2> QED  BY <2>6, <2>7
<1>4. k \notin Bad
  <2> HIDE DEF Bad
  <2> QED  BY <1>3
<1> QED  BY <1>4

(* With room for the arrays the pages the trees give away do not overlap.  *)
LEMMA RoomApart == RoomForArray => Apart
<1> SUFFICES ASSUME RoomForArray, NEW j \in 1..Len(Zones), NEW k \in 1..Len(Zones), j < k
             PROVE  First(j) + Room(j) <= First(k)
  BY DEF Apart
<1>1. First(j) + Room(j) <= Zones[j].base + Zones[j].n
  BY DEF RoomForArray
<1>2. Zones[j].base + Zones[j].n <= Zones[k].base
  BY ZonesAscend
<1>3. First(k) \in Nat /\ First(k) > Zones[k].base
  BY ZonesLen, LayoutIs DEF First
<1>4. PICK x, y, u, a, b, c \in Nat :
         /\ x = First(j) /\ u = Room(j) /\ y = First(k)
         /\ a = Zones[j].base /\ b = Zones[j].n /\ c = Zones[k].base
  BY TreeIs, LayoutIs
<1>5. x + u <= a + b /\ a + b <= c /\ y > c
  BY <1>1, <1>2, <1>3, <1>4
<1>6. x + u <= y
  BY ONLY <1>5, x \in Nat, y \in Nat, u \in Nat, a \in Nat, b \in Nat, c \in Nat
<1> QED  BY <1>4, <1>6

(* When every region has room for its array, no caller gets a page outside *)
(* the regions or one that holds an array.                                 *)
THEOREM BlocksInside == ASSUME RoomForArray PROVE Spec => []InsideRegion
<1>1. Apart
  BY RoomApart
<1>2. Spec => []Inv
  BY <1>1, Invariance
<1>3. ASSUME Inv PROVE InsideRegion
  <2>1. DOMAIN mem_buddy = 1..Len(mem_buddy) /\ \A k \in 1..Len(mem_buddy) : k \in 1..Len(Zones)
    BY <1>3, ZonesLen DEF Inv
  <2>2. ASSUME NEW block \in held
        PROVE  \E k \in DOMAIN mem_buddy :
                  Run(block.base, block.size) \subseteq
                     Layouts[k].begin_page..(Zones[k].base + Zones[k].n - 1)
    <3>1. PICK k, i : k \in 1..Len(mem_buddy) /\ i \in Give(k) /\ block = Block(k, i)
      BY <1>3 DEF Inv
    <3> k \in 1..Len(mem_buddy)
      BY <3>1
    <3>2. PICK x, u, b, n \in Nat : /\ x = First(k) /\ u = Room(k) /\ b = Zones[k].base /\ n = Zones[k].n
                                    /\ First(k) + Room(k) <= Zones[k].base + Zones[k].n
      BY <2>1, TreeIs, LayoutIs DEF RoomForArray
    <3>3. ASSUME NEW q \in Run(block.base, block.size) PROVE q \in x..(b + n - 1)
      <4>1. PICK p \in 0..(u - 1) : q = x + p
        BY <2>1, <3>1, <3>2, <3>3, BlockWithin
      <4>2. x + p \in x..(b + n - 1)
        <5>1. x + u <= b + n
          BY <3>2
        <5> QED  BY ONLY <5>1, x \in Nat, u \in Nat, b \in Nat, n \in Nat, p \in 0..(u - 1)
      <4> QED  BY <4>1, <4>2
    <3>4. k \in DOMAIN mem_buddy /\ Layouts[k].begin_page..(Zones[k].base + Zones[k].n - 1) = x..(b + n - 1)
      BY <2>1, <3>2 DEF First
    <3> QED  BY <3>3, <3>4
  <2> QED  BY <2>2 DEF InsideRegion
<1> QED  BY <1>2, <1>3, PTL

-----------------------------------------------------------------------------
(* The promise of pmm_manager                                              *)

(* Every node is below the root.                                           *)
LEMMA RootAbove ==
  ASSUME NEW size \in Powers, NEW i \in Nodes(size)
  PROVE  i \in Below(size, 0) /\ Ancestors(size, 0) = {}
<1>1. 0 \in Nodes(size) /\ NodeSize(size, 0) = size /\ NodeOffset(size, 0) = 0 /\ Ancestors(size, 0) = {}
  BY RootIs, AncestorsAre
<1>2. NodeOffset(size, i) \in Nat /\ NodeSize(size, i) \in Nat /\ NodeSize(size, i) >= 1
      /\ NodeOffset(size, i) + NodeSize(size, i) <= size /\ size \in Nat
  BY NodeIs
<1>3. ~Disjoint(size, 0, i)
  BY <1>1, <1>2 DEF Disjoint
<1> QED  BY <1>1, <1>3, Nested DEF Below, Related

(* A block answers a request exactly when it is a node of the rounded size *)
(* in the pages its tree gives away.                                       *)
LEMMA PlacesAre ==
  ASSUME NEW n \in 1..(NPage + 1)
  PROVE  Places[n] = UNION {{Block(k, i) : i \in {j \in Give(k) : NodeSize(Size(k), j) = Rounded(n)}} :
                              k \in 1..Len(Zones)}
<1> DEFINE P(k) == LET l == Layouts[k] IN
                    {[base |-> l.begin_page + NodeOffset(l.size, i), size |-> Rounded(n)] :
                        i \in {j \in Nodes(l.size) :
                                  /\ NodeSize(l.size, j) = Rounded(n)
                                  /\ NodeOffset(l.size, j) + NodeSize(l.size, j) <= l.free_size}}
           Q(k) == {Block(k, i) : i \in {j \in Give(k) : NodeSize(Size(k), j) = Rounded(n)}}
<1>1. Places[n] = UNION {P(k) : k \in 1..Len(Zones)}
  BY DEF Places
<1>2. ASSUME NEW k \in 1..Len(Zones) PROVE P(k) = Q(k)
  <2>1. ASSUME NEW x PROVE x \in P(k) <=> x \in Q(k)
    BY DEF Block, Give, Size, First, Room
  <2> HIDE DEF P, Q
  <2> QED  BY <2>1
<1>3. UNION {P(k) : k \in 1..Len(Zones)} = UNION {Q(k) : k \in 1..Len(Zones)}
  <2> HIDE DEF P, Q
  <2> QED  BY <1>2
<1> QED  BY <1>1, <1>3

(* The free pages in the words of the abstract specification.              *)
LEMMA FreeIs ==
  ASSUME Apart, Inv
  PROVE  FreePages = Managed \ Owned /\ Owned \subseteq Managed
BY FreeAndOwned

(* An allocation takes a node of the rounded size that is free.            *)
LEMMA PromiseTake ==
  ASSUME Apart, Inv, Inv', NEW n \in 1..(NPage + 1), AllocOk(n)
  PROVE  Promise!AllocOk(n)
<1>1. PICK k, index, size, page, block :
         /\ k \in 1..Len(mem_buddy)
         /\ size = Rounded(n) /\ index = Found(mem_buddy[k], size)
         /\ page = mem_buddy[k].begin_page + NodeOffset(mem_buddy[k].size, index)
         /\ block = [base |-> page, size |-> size]
         /\ mem_buddy[k].longest[0] >= size
         /\ DOMAIN mem_buddy' = DOMAIN mem_buddy
         /\ held' = held \cup {block}
         /\ ret' = [page |-> page, refused |-> 0]
  BY DEF AllocOk, FirstZone
<1> k \in 1..Len(mem_buddy)
  BY <1>1
<1>2. k \in 1..Len(Zones) /\ size \in Powers
  BY <1>1, ZonesLen, RoundedIs DEF Inv
<1>3. PICK tree, A :
         /\ tree \in Powers
         /\ tree = Size(k) /\ A = HeldIn(k) \cup {End(k)}
         /\ mem_buddy[k].size = tree /\ mem_buddy[k].begin_page = First(k)
         /\ Shape(tree, mem_buddy[k].longest, A)
  BY <1>2, TreeIs DEF Inv, TreeInv
<1> tree \in Powers
  BY <1>3
<1>4. /\ index \in Nodes(tree) /\ NodeSize(tree, index) = size
      /\ Live(tree, A, index) /\ mem_buddy[k].longest[index] = size
  <2>1. PICK b : b = mem_buddy[k]
    OBVIOUS
  <2>2. b.size = tree /\ Shape(tree, b.longest, A) /\ b.longest[0] >= size
    BY <1>1, <1>3, <2>1
  <2>3. HasRoom(tree, b, A, size)
    BY <1>2, <2>2 DEF HasRoom
  <2>4. FindsFree(tree, b, A, size)
    BY ONLY <2>3, FoundIs, Zenon
  <2> QED  BY <1>1, <2>1, <2>4 DEF FindsFree
<1>5. index \in Vacant(tree, A)
  BY <1>3, <1>4, ShapeFull DEF Vacant
<1>6. block = Block(k, index)
  BY <1>1, <1>3, <1>4 DEF Block
<1>7. block \in Places[n]
  <2>1. index \in Give(k)
    BY <1>2, <1>3, <1>5, GiveVacant
  <2> QED  BY <1>1, <1>2, <1>3, <1>4, <1>6, <2>1, PlacesAre
<1>8. Run(block.base, block.size) \subseteq Managed \ Owned
  <2>1. Run(block.base, block.size) \subseteq Run(Layouts[k].begin_page, Layouts[k].free_size) \ Owned
    BY <1>3, <1>4, <1>5, <1>6, VacantIs
  <2>2. k \in DOMAIN mem_buddy
    BY DEF Inv
  <2> QED  BY <2>1, <2>2 DEF Managed
<1>9. Managed' = Managed
  BY <1>1 DEF Managed
<1>10. Owned' = Owned \cup Run(block.base, block.size)
  BY <1>1 DEF Owned
<1>11. FreePages = Managed \ Owned
  BY FreeIs
<1>12. (FreePages = Managed \ Owned)'
  BY FreeIs, PTL
<1>13. FreePages' = FreePages \ Run(block.base, block.size)
  BY <1>9, <1>10, <1>11, <1>12
<1>14. Promise!Run(block.base, block.size) = Run(block.base, block.size)
  BY DEF Promise!Run, Run
<1>15. ret' = [page |-> block.base, refused |-> 0]
  BY <1>1
<1> QED  BY <1>7, <1>8, <1>9, <1>11, <1>13, <1>14, <1>15 DEF Promise!AllocOk

(* A refused request finds no free node of the rounded size.               *)
LEMMA PromiseRefuse ==
  ASSUME Apart, Inv, Len(mem_buddy) = Len(Zones), NEW n \in 1..(NPage + 1), AllocFail(n)
  PROVE  Promise!AllocFail(n)
<1>1. /\ \A k \in 1..Len(mem_buddy) : mem_buddy[k].longest[0] < Rounded(n)
      /\ ret' = [page |-> NULL, refused |-> n]
      /\ mem_buddy' = mem_buddy /\ held' = held
  BY DEF AllocFail
<1>2. ASSUME NEW block \in Places[n], Run(block.base, block.size) \subseteq FreePages
      PROVE  FALSE
  <2>1. PICK k, i :
           /\ k \in 1..Len(mem_buddy)
           /\ i \in Give(k) /\ NodeSize(Size(k), i) = Rounded(n) /\ block = Block(k, i)
    BY <1>2, PlacesAre
  <2> k \in 1..Len(mem_buddy)
    BY <2>1
  <2>2. k \in 1..Len(Zones) /\ i \in Nodes(Size(k))
    BY <2>1, ZonesLen DEF Inv, Give
  <2>3. Run(block.base, block.size) \subseteq Run(Layouts[k].begin_page, Layouts[k].free_size) \ Owned
    <3>1. ASSUME NEW q \in Run(block.base, block.size)
          PROVE  q \in Run(Layouts[k].begin_page, Layouts[k].free_size) \ Owned
      <4>1. PICK p \in 0..(Room(k) - 1) : q = First(k) + p
        BY <2>1, <2>2, <3>1, BlockWithin
      <4> QED  BY <1>2, <2>2, <3>1, <4>1, OwnIs, FreeIs
    <3> QED  BY <3>1
  <2>4. i \in Vacant(Size(k), HeldIn(k) \cup {End(k)})
    BY <2>1, <2>2, <2>3, VacantIs
  <2>5. PICK tree, t, A :
           /\ tree \in Powers
           /\ tree = Size(k) /\ t = mem_buddy[k].longest /\ A = HeldIn(k) \cup {End(k)}
           /\ Shape(tree, t, A)
    BY <2>2, TreeIs DEF Inv, TreeInv
  <2> tree \in Powers
    BY <2>5
  <2>6. i \in Below(tree, 0) /\ Live(tree, A, 0) /\ 0 \in Nodes(tree)
    BY <2>2, <2>5, RootAbove, RootIs DEF Live
  <2>7. NodeSize(tree, i) <= t[0]
    BY <2>4, <2>5, <2>6, ShapeValue DEF ValueAt
  <2>8. PICK x, y \in Nat : x = t[0] /\ y = Rounded(n)
    BY <2>5, <2>6, RoundedIs, PowersNat DEF Shape
  <2> QED  BY <1>1, <2>1, <2>5, <2>7, <2>8
<1>3. Managed' = Managed /\ FreePages' = FreePages
  BY <1>1 DEF Managed, FreePages, FreeIn, Allocated
<1>4. \A block \in Places[n] : ~(Promise!Run(block.base, block.size) \subseteq FreePages)
  BY <1>2 DEF Promise!Run, Run
<1> QED  BY <1>1, <1>3, <1>4 DEF Promise!AllocFail

(* A free returns the pages of a held block.                               *)
LEMMA PromiseGive ==
  ASSUME Apart, Inv, Inv', NEW block \in held, Free(block)
  PROVE  Promise!Free(Promise!Run(block.base, block.size))
<1>1. PICK k, i : k \in 1..Len(mem_buddy) /\ i \in Give(k) /\ block = Block(k, i)
  BY DEF Inv
<1> k \in 1..Len(mem_buddy)
  BY <1>1
<1>2. k \in 1..Len(Zones)
  BY ZonesLen DEF Inv
<1> DEFINE Pages == Run(block.base, block.size)
<1>3. Pages # {}
  <2>1. Holds(Size(k), i, NodeOffset(Size(k), i)) /\ NodeOffset(Size(k), i) \in Nat /\ i \in Nodes(Size(k))
    BY <1>1, <1>2, GiveIs DEF Holds
  <2> QED  BY <1>1, <1>2, <2>1, BlockPages
<1>4. held' = held \ {block} /\ ret' = ret /\ DOMAIN mem_buddy' = DOMAIN mem_buddy
  BY DEF Free, FreeBlock
<1>5. Managed' = Managed
  BY <1>4 DEF Managed
<1>6. Pages \subseteq Owned
  BY DEF Owned
<1>7. Owned' = Owned \ Pages
  <2>1. \A x \in held : x # block => Run(x.base, x.size) \cap Pages = {}
    BY HeldApart
  <2>2. Owned' = UNION {Run(x.base, x.size) : x \in held \ {block}}
    BY <1>4 DEF Owned
  <2> HIDE DEF Pages
  <2>3. \A q : q \in Owned <=> \E x \in held : q \in Run(x.base, x.size)
    BY DEF Owned
  <2>4. \A q : q \in Owned' <=> \E x \in held : x # block /\ q \in Run(x.base, x.size)
    BY <2>2
  <2>5. \A q : q \in Pages <=> q \in Run(block.base, block.size)
    BY DEF Pages
  <2> QED  BY <2>1, <2>3, <2>4, <2>5
<1>8. FreePages = Managed \ Owned /\ Owned \subseteq Managed
  BY FreeIs
<1>9. (FreePages = Managed \ Owned)'
  BY FreeIs, PTL
<1>10. FreePages' = FreePages \cup Pages
  BY <1>5, <1>6, <1>7, <1>8, <1>9
<1>11. Promise!Run(block.base, block.size) = Pages
  BY DEF Promise!Run, Run
<1> QED  BY <1>3, <1>4, <1>5, <1>6, <1>8, <1>10, <1>11 DEF Promise!Free

(* With room for the arrays the trees give away pages of memory only.      *)
LEMMA OwnInside ==
  ASSUME RoomForArray, NEW k \in 1..Len(Zones), NEW p \in 0..(Room(k) - 1)
  PROVE  First(k) + p \in Page /\ Room(k) \in 1..(NPage + 1)
<1>1. PICK x, u, b, n \in Nat : /\ x = First(k) /\ u = Room(k) /\ b = Zones[k].base /\ n = Zones[k].n
                                /\ First(k) + Room(k) <= Zones[k].base + Zones[k].n
                                /\ First(k) > Zones[k].base /\ Room(k) < NPage
  BY TreeIs, ZonesLen, LayoutIs DEF RoomForArray, First
<1>2. Run(b, n) \subseteq Page
  BY <1>1, ZonesAssumption
<1>3. x + u <= b + n /\ x > b /\ p \in 0..(u - 1) /\ u < NPage
  BY <1>1
<1>4. x + p \in b..(b + n - 1) /\ u \in 1..(NPage + 1)
  BY ONLY <1>3, x \in Nat, u \in Nat, b \in Nat, n \in Nat, BuddyAssumption
<1> QED  BY <1>1, <1>2, <1>4 DEF Run

(* A region that joins brings the pages its tree gives away, if any.       *)
LEMMA PromiseZone ==
  ASSUME RoomForArray, Apart, Inv, Inv', NextZone
  PROVE  [Promise!Next]_(Promise!vars)
<1>1. PICK k \in Nat : k = Len(mem_buddy) + 1
  BY DEF Inv
<1>2. /\ k \in 1..Len(Zones) /\ DOMAIN mem_buddy = 1..(k - 1) /\ DOMAIN mem_buddy' = 1..k
      /\ held = {} /\ held' = {} /\ ret' = ret
  <2>1. /\ mem_buddy \in Seq(Buddies) /\ Len(mem_buddy) \in Nat /\ Len(mem_buddy) < Len(Zones)
        /\ Len(Zones) \in Nat
    BY ZonesLen DEF Inv, NextZone
  <2>2. PICK s : mem_buddy' = Append(mem_buddy, s)
    BY DEF NextZone, InitMemmap
  <2>3. Len(mem_buddy') = Len(mem_buddy) + 1
    BY <2>1, <2>2
  <2>4. DOMAIN mem_buddy = 1..Len(mem_buddy) /\ DOMAIN mem_buddy' = 1..Len(mem_buddy')
    BY DEF Inv
  <2>5. held = {} /\ held' = held /\ ret' = ret
    BY <2>1 DEF Inv, NextZone
  <2> QED  BY <1>1, <2>1, <2>3, <2>4, <2>5
<1> DEFINE Own(j) == Run(Layouts[j].begin_page, Layouts[j].free_size)
<1>3. Managed = UNION {Own(j) : j \in 1..(k - 1)} /\ Managed' = Managed \cup Own(k)
  <2>1. 1..k = (1..(k - 1)) \cup {k}
    BY <1>2
  <2> QED  BY <1>2, <2>1 DEF Managed
<1>4. FreePages = Managed /\ FreePages' = Managed'
  <2>1. FreePages = Managed \ Owned
    BY FreeIs
  <2>2. (FreePages = Managed \ Owned)'
    BY FreeIs, PTL
  <2>3. Owned = {} /\ Owned' = {}
    BY <1>2 DEF Owned
  <2> QED  BY <2>1, <2>2, <2>3
<1>5. Own(k) \cap Managed = {}
  <2>1. ASSUME NEW q \in Own(k), q \in Managed PROVE FALSE
    <3>1. PICK j \in 1..(k - 1) : q \in Own(j)
      BY <1>3, <2>1
    <3>2. j \in 1..Len(Zones) /\ j # k
      BY <1>2, ZonesLen
    <3>3. PICK p \in 0..(Room(j) - 1) : q = First(j) + p
      BY <3>1, <3>2, OwnIs
    <3>4. PICK r \in 0..(Room(k) - 1) : q = First(k) + r
      BY <1>2, <2>1, OwnIs
    <3> QED  BY <1>2, <3>2, <3>3, <3>4, RoomsApart
  <2> QED  BY <2>1
<1>6. CASE Own(k) = {}
  BY <1>2, <1>3, <1>4, <1>6 DEF Promise!vars
<1>7. CASE Own(k) # {}
  <2>1. PICK p \in 0..(Room(k) - 1) : TRUE
    BY <1>2, <1>7, OwnIs
  <2>2. PICK x, u \in Nat : x = First(k) /\ u = Room(k)
    BY <1>2, TreeIs
  <2>3. 0 \in 0..(Room(k) - 1)
    BY <2>1, <2>2
  <2>4. x + 0 \in Page /\ u \in 1..(NPage + 1)
    BY <1>2, <2>2, <2>3, OwnInside
  <2>5. x \in Page
    BY <2>4
  <2>6. Promise!Run(x, u) = Own(k)
    BY <2>2 DEF Promise!Run, Run, First, Room
  <2>7. Promise!AddZone(Promise!Run(x, u))
    BY <1>2, <1>3, <1>4, <1>5, <2>6 DEF Promise!AddZone
  <2> QED  BY <2>4, <2>5, <2>7 DEF Promise!Next
<1> QED  BY <1>6, <1>7

(* At boot nothing is managed.                                             *)
LEMMA PromiseInit == Init => Promise!Init
<1> SUFFICES ASSUME Init PROVE Promise!Init
  OBVIOUS
<1>1. Managed = {} /\ FreePages = {}
  BY DEF Init, Managed, FreePages
<1> QED  BY <1>1 DEF Init, Promise!Init

(* Every step is one of the abstract specification or changes nothing      *)
(* there.                                                                  *)
LEMMA PromiseStep ==
  ASSUME RoomForArray, Apart, Inv, Inv', [Next]_vars
  PROVE  [Promise!Next]_(Promise!vars)
<1>1. CASE NextZone
  BY <1>1, PromiseZone
<1>2. ASSUME NEW n \in 1..(NPage + 1), Alloc(n), Len(mem_buddy) = Len(Zones) PROVE Promise!Next
  <2>1. Promise!AllocOk(n) \/ Promise!AllocFail(n)
    BY <1>2, PromiseTake, PromiseRefuse DEF Alloc
  <2> QED  BY <2>1 DEF Promise!Next
<1>3. ASSUME NEW block \in held, Free(block) PROVE Promise!Next
  <2>1. PICK k, i : k \in 1..Len(mem_buddy) /\ i \in Give(k) /\ block = Block(k, i)
    BY DEF Inv
  <2> k \in 1..Len(mem_buddy)
    BY <2>1
  <2>2. k \in 1..Len(Zones)
    BY <2>1, ZonesLen DEF Inv
  <2>3. PICK o, s, room \in Nat : /\ o = NodeOffset(Size(k), i) /\ s = NodeSize(Size(k), i) /\ room = Room(k)
                                  /\ s >= 1 /\ o + s <= room
    BY <2>1, <2>2, TreeIs, GiveIs
  <2>4. o \in 0..(Room(k) - 1)
    BY <2>3
  <2>5. First(k) + o \in Page /\ Room(k) \in 1..(NPage + 1)
    BY <2>2, <2>4, OwnInside
  <2>6. s \in 1..(NPage + 1)
    BY <2>3, <2>5, BuddyAssumption
  <2>7. block.base \in Page /\ block.size \in 1..(NPage + 1)
    BY <2>1, <2>3, <2>5, <2>6 DEF Block
  <2> QED  BY <1>3, <2>7, PromiseGive DEF Promise!Next
<1>4. CASE UNCHANGED vars
  BY <1>4 DEF vars, Promise!vars, Managed, FreePages, FreeIn, Allocated
<1> QED  BY <1>1, <1>2, <1>3, <1>4 DEF Next

(* The buddy system implements the promise of pmm_manager when every       *)
(* region has room for its array: alloc_pages returns a free node of the   *)
(* rounded size, NULL only if there is none, and free_pages returns        *)
(* exactly what was given.                                                 *)
THEOREM PromiseTheorem == ASSUME RoomForArray PROVE Spec => PromiseKept
<1>1. Apart
  BY RoomApart
<1>2. Spec => []Inv
  BY <1>1, Invariance
<1>3. Init => Promise!Init
  BY PromiseInit
<1>4. Inv /\ Inv' /\ [Next]_vars => [Promise!Next]_(Promise!vars)
  BY <1>1, PromiseStep
<1> QED  BY <1>2, <1>3, <1>4, PTL DEF Spec, PromiseKept, Promise!Spec
=============================================================================

----------------------------- MODULE FreeListProof -----------------------------
(***************************************************************************)
(* Proofs about libs/list.h: what list_add, list_add_before and list_del   *)
(* make of a ring of any length, in a heap of any nodes; and, from these,  *)
(* that the links the first-fit manager makes with them are the list of    *)
(* DefaultPmm.                                                             *)
(***************************************************************************)
EXTENDS DefaultCheck, DefaultPmmProof, SequenceTheorems

(* A heap of the nodes N; a link holds a node or anything else (V). *)
Heap(N, V) == [prev : [N -> V], next : [N -> V]]

(* t with e between its i-th and its next element, and without its i-th. *)
With(t, i, e) == [j \in 1 .. Len(t) + 1 |-> IF j <= i THEN t[j] ELSE IF j = i + 1 THEN e ELSE t[j - 1]]
Without(t, i) == [j \in 1 .. Len(t) - 1 |-> IF j < i THEN t[j] ELSE t[j + 1]]

LEMMA SeqFacts ==
    ASSUME NEW N, NEW t \in Seq(N), NEW i \in 1 .. Len(t), NEW e \in N
    PROVE  /\ With(t, i, e) \in Seq(N) /\ Len(With(t, i, e)) = Len(t) + 1
           /\ Without(t, i) \in Seq(N) /\ Len(Without(t, i)) = Len(t) - 1
<1>1. With(t, i, e) \in Seq(N) /\ Len(With(t, i, e)) = Len(t) + 1
  BY DEF With
<1>2. Without(t, i) \in Seq(N) /\ Len(Without(t, i)) = Len(t) - 1
  BY DEF Without
<1>3. QED
  BY <1>1, <1>2

(* The links of a ring, read from either side. *)
LEMMA RingLinks ==
    ASSUME NEW N, NEW h, NEW t \in Seq(N), IsRing(h, t)
    PROVE  /\ \A i \in 1 .. Len(t) : h.next[t[i]] = t[IF i = Len(t) THEN 1 ELSE i + 1]
           /\ \A i \in 1 .. Len(t) : h.prev[t[i]] = t[IF i = 1 THEN Len(t) ELSE i - 1]
<1>1. \A i \in 1 .. Len(t) : h.next[t[i]] = t[IF i = Len(t) THEN 1 ELSE i + 1]
  BY DEF IsRing, After
<1>2. ASSUME NEW i \in 1 .. Len(t)
      PROVE  h.prev[t[i]] = t[IF i = 1 THEN Len(t) ELSE i - 1]
  <2> DEFINE j == IF i = 1 THEN Len(t) ELSE i - 1
  <2>1. j \in 1 .. Len(t) /\ After(j, Len(t)) = i
    BY DEF After
  <2>2. h.prev[t[After(j, Len(t))]] = t[j]
    BY <2>1 DEF IsRing
  <2>3. QED
    BY <2>1, <2>2
<1>3. QED
  BY <1>1, <1>2

(* list_add_after (and list_add): elm comes between listelm and the next,  *)
(* and nothing else of the ring changes.                                   *)
THEOREM AddAfter ==
    ASSUME NEW N, NEW V, N \subseteq V, NEW h \in Heap(N, V),
           NEW t \in Seq(N), IsRing(h, t), NEW i \in 1 .. Len(t),
           NEW elm \in N, \A j \in 1 .. Len(t) : t[j] # elm
    PROVE  LET r == list_add_after(h, t[i], elm) IN
           r \in Heap(N, V) /\ IsRing(r, With(t, i, elm))
<1> DEFINE L == Len(t)
           n == t[After(i, L)]
           u == With(t, i, elm)
           r == __list_add(h, elm, t[i], n)
<1>1. L \in Nat /\ \A j \in 1 .. L : t[j] \in N
  OBVIOUS
<1>2. After(i, L) \in 1 .. L
  BY DEF After
<1>3. list_add_after(h, t[i], elm) = r
  BY DEF list_add_after, IsRing
<1>4. /\ r \in Heap(N, V)
      /\ \A x \in N : r.next[x] = IF x = elm THEN n ELSE IF x = t[i] THEN elm ELSE h.next[x]
      /\ \A x \in N : r.prev[x] = IF x = elm THEN t[i] ELSE IF x = n THEN elm ELSE h.prev[x]
  <2>1. t[i] \in N /\ n \in N /\ elm # t[i] /\ elm # n
    BY <1>1, <1>2
  <2>2. PICK p \in N : p = t[i]
    BY <2>1
  <2>3. PICK q \in N : q = n
    BY <2>1
  <2>4. /\ h.prev \in [N -> V] /\ h.next \in [N -> V]
        /\ r.next = [[h.next EXCEPT ![p] = elm] EXCEPT ![elm] = q]
        /\ r.prev = [[h.prev EXCEPT ![q] = elm] EXCEPT ![elm] = p]
        /\ r \in Heap(N, V)
    BY <2>2, <2>3 DEF Heap, __list_add
  <2>5. \A x \in N : r.next[x] = IF x = elm THEN q ELSE IF x = p THEN elm ELSE h.next[x]
    BY <2>4
  <2>6. \A x \in N : r.prev[x] = IF x = elm THEN p ELSE IF x = q THEN elm ELSE h.prev[x]
    BY <2>4
  <2>7. QED
    BY <2>2, <2>3, <2>4, <2>5, <2>6
<1>5. u \in Seq(N) /\ Len(u) = L + 1
  BY SeqFacts
<1>6. \A k \in 1 .. L + 1 :
         u[k] = IF k <= i THEN t[k] ELSE IF k = i + 1 THEN elm ELSE t[k - 1]
  BY <1>1 DEF With
<1>7. \A j, k \in 1 .. L : t[j] = t[k] => j = k
  BY DEF IsRing
<1>8. ASSUME NEW j \in 1 .. L + 1, NEW k \in 1 .. L + 1, u[j] = u[k]
      PROVE  j = k
  <2> DEFINE g(m) == IF m <= i THEN m ELSE m - 1
  <2>1. \A m \in 1 .. L + 1 : m # i + 1 => g(m) \in 1 .. L /\ u[m] = t[g(m)]
    BY <1>1, <1>6
  <2>2. u[i + 1] = elm
    <3>1. i + 1 \in 1 .. L + 1 /\ ~(i + 1 <= i)
      BY <1>1
    <3>2. QED
      BY <1>6, <3>1
  <2>3. CASE j = i + 1 \/ k = i + 1
    BY <1>8, <2>1, <2>2, <2>3
  <2>4. CASE j # i + 1 /\ k # i + 1
    <3>1. g(j) = g(k)
      BY <1>7, <1>8, <2>1, <2>4
    <3>2. QED
      BY <1>1, <2>4, <3>1
  <2>5. QED
    BY <2>3, <2>4
<1>9. ASSUME NEW k \in 1 .. L + 1
      PROVE  r.next[u[k]] = u[After(k, L + 1)] /\ r.prev[u[After(k, L + 1)]] = u[k]
  <2>1. CASE k < i
    <3>1. u[k] = t[k] /\ After(k, L + 1) = k + 1 /\ u[k + 1] = t[k + 1] /\ k + 1 \in 1 .. L
      BY <1>1, <1>6, <2>1 DEF After
    <3>2. t[k] # elm /\ t[k] # t[i] /\ t[k + 1] # elm /\ t[k + 1] # n
      <4>1. After(i, L) # k + 1
        BY <1>1, <2>1 DEF After
      <4>2. QED
        BY <1>2, <1>7, <2>1, <3>1, <4>1
    <3>3. r.next[t[k]] = h.next[t[k]] /\ r.prev[t[k + 1]] = h.prev[t[k + 1]]
      BY <1>1, <1>4, <3>1, <3>2
    <3>4. h.next[t[k]] = t[k + 1] /\ h.prev[t[k + 1]] = t[k]
      BY <1>1, <2>1, <3>1, RingLinks
    <3>5. QED
      BY <3>1, <3>3, <3>4
  <2>2. CASE k = i
    <3>1. u[k] = t[i] /\ After(k, L + 1) = i + 1 /\ u[i + 1] = elm
      BY <1>1, <1>6, <2>2 DEF After
    <3>2. r.next[t[i]] = elm /\ r.prev[elm] = t[i]
      BY <1>1, <1>4
    <3>3. QED
      BY <3>1, <3>2
  <2>3. CASE k = i + 1
    <3>1. u[k] = elm /\ After(k, L + 1) \in 1 .. L + 1 /\ u[After(k, L + 1)] = n
      BY <1>1, <1>6, <2>3 DEF After
    <3>2. r.next[elm] = n /\ r.prev[n] = elm
      BY <1>1, <1>2, <1>4
    <3>3. QED
      BY <3>1, <3>2
  <2>4. CASE k > i + 1
    <3>1. k - 1 \in 1 .. L /\ k - 1 # i /\ u[k] = t[k - 1] /\ After(k - 1, L) \in 1 .. L
          /\ u[After(k, L + 1)] = t[After(k - 1, L)]
      <4>1. k - 1 \in 1 .. L /\ k - 1 # i /\ u[k] = t[k - 1] /\ After(k - 1, L) \in 1 .. L
        <5>1. k - 1 \in 1 .. L /\ k - 1 # i /\ ~(k <= i) /\ k # i + 1
          BY <1>1, <2>4
        <5>2. After(k - 1, L) \in 1 .. L
          BY <1>1, <5>1 DEF After
        <5>3. QED
          BY <1>6, <5>1, <5>2
      <4>2. CASE k = L + 1
        <5>1. After(k, L + 1) = 1 /\ After(k - 1, L) = 1 /\ 1 <= i
          BY <1>1, <4>2 DEF After
        <5>2. QED
          BY <1>1, <1>6, <4>1, <5>1
      <4>3. CASE k # L + 1
        <5>1. After(k, L + 1) = k + 1 /\ After(k - 1, L) = k /\ k + 1 \in 1 .. L + 1
          BY <1>1, <4>3 DEF After
        <5>2. u[k + 1] = t[k + 1 - 1]
          BY <1>1, <1>6, <2>4, <5>1
        <5>3. QED
          BY <4>1, <5>1, <5>2
      <4>4. QED
        BY <4>1, <4>2, <4>3
    <3>2. After(k - 1, L) # After(i, L)
      BY <1>1, <2>4, <3>1 DEF After
    <3>3. t[k - 1] # elm /\ t[k - 1] # t[i] /\ t[After(k - 1, L)] # elm /\ t[After(k - 1, L)] # n
      BY <1>2, <1>7, <3>1, <3>2
    <3>4. h.next[t[k - 1]] = t[After(k - 1, L)] /\ h.prev[t[After(k - 1, L)]] = t[k - 1]
      BY <3>1 DEF IsRing
    <3>5. r.next[t[k - 1]] = h.next[t[k - 1]]
          /\ r.prev[t[After(k - 1, L)]] = h.prev[t[After(k - 1, L)]]
      BY <1>1, <1>4, <3>1, <3>3
    <3>6. QED
      BY <3>1, <3>4, <3>5
  <2>5. QED
    BY <1>1, <2>1, <2>2, <2>3, <2>4
<1>10. IsRing(r, u)
  BY <1>5, <1>8, <1>9 DEF IsRing
<1>11. QED
  BY <1>3, <1>4, <1>10

(* list_add_before: elm comes in front of listelm. *)
THEOREM AddBefore ==
    ASSUME NEW N, NEW V, N \subseteq V, NEW h \in Heap(N, V),
           NEW t \in Seq(N), IsRing(h, t), NEW i \in 1 .. Len(t),
           NEW elm \in N, \A j \in 1 .. Len(t) : t[j] # elm
    PROVE  LET r == list_add_before(h, t[i], elm) IN
           r \in Heap(N, V) /\ IsRing(r, With(t, IF i = 1 THEN Len(t) ELSE i - 1, elm))
<1> DEFINE j == IF i = 1 THEN Len(t) ELSE i - 1
<1>1. j \in 1 .. Len(t)
  OBVIOUS
<1>2. h.prev[t[i]] = t[j] /\ h.next[t[j]] = t[i]
  <2>1. h.prev[t[i]] = t[j]
    BY RingLinks
  <2>2. h.next[t[j]] = t[IF j = Len(t) THEN 1 ELSE j + 1]
    <3>1. \A m \in 1 .. Len(t) : h.next[t[m]] = t[IF m = Len(t) THEN 1 ELSE m + 1]
      BY RingLinks
    <3> HIDE DEF j
    <3> QED  BY <1>1, <3>1
  <2>3. (IF j = Len(t) THEN 1 ELSE j + 1) = i
    OBVIOUS
  <2>4. QED
    BY <2>1, <2>2, <2>3
<1>3. list_add_before(h, t[i], elm) = list_add_after(h, t[j], elm)
  BY <1>2 DEF list_add_before, list_add_after
<1>4. QED
  BY <1>1, <1>3, AddAfter

(* list_del: the neighbours of listelm are linked, the ring is otherwise   *)
(* as before, and the links of listelm itself are left alone.              *)
THEOREM Del ==
    ASSUME NEW N, NEW V, N \subseteq V, NEW h \in Heap(N, V),
           NEW t \in Seq(N), IsRing(h, t), NEW i \in 1 .. Len(t), Len(t) > 1
    PROVE  LET r == list_del(h, t[i]) IN
           /\ r \in Heap(N, V) /\ IsRing(r, Without(t, i))
           /\ r.next[t[i]] = h.next[t[i]] /\ r.prev[t[i]] = h.prev[t[i]]
<1> DEFINE L == Len(t)
           b == IF i = 1 THEN L ELSE i - 1
           a == IF i = L THEN 1 ELSE i + 1
           u == Without(t, i)
           r == __list_del(h, t[b], t[a])
<1>1. L \in Nat /\ (\A j \in 1 .. L : t[j] \in N) /\ a \in 1 .. L /\ b \in 1 .. L /\ a # i /\ b # i
  OBVIOUS
<1>2. list_del(h, t[i]) = r
  BY RingLinks DEF list_del
<1>3. /\ r \in Heap(N, V)
      /\ \A x \in N : r.next[x] = IF x = t[b] THEN t[a] ELSE h.next[x]
      /\ \A x \in N : r.prev[x] = IF x = t[a] THEN t[b] ELSE h.prev[x]
  <2>1. t[a] \in N /\ t[b] \in N
    BY <1>1
  <2>2. PICK p \in N : p = t[b]
    BY <2>1
  <2>3. PICK q \in N : q = t[a]
    BY <2>1
  <2>4. /\ h.prev \in [N -> V] /\ h.next \in [N -> V]
        /\ r.next = [h.next EXCEPT ![p] = q] /\ r.prev = [h.prev EXCEPT ![q] = p]
        /\ r \in Heap(N, V)
    BY <2>2, <2>3 DEF Heap, __list_del
  <2>5. \A x \in N : r.next[x] = IF x = p THEN q ELSE h.next[x]
    BY <2>4
  <2>6. \A x \in N : r.prev[x] = IF x = q THEN p ELSE h.prev[x]
    BY <2>4
  <2>7. QED
    BY <2>2, <2>3, <2>4, <2>5, <2>6
<1>4. u \in Seq(N) /\ Len(u) = L - 1
  BY SeqFacts, <1>1
<1>5. \A k \in 1 .. L - 1 : u[k] = IF k < i THEN t[k] ELSE t[k + 1]
  BY <1>1 DEF Without
<1>6. \A j, k \in 1 .. L : t[j] = t[k] => j = k
  BY DEF IsRing
<1>7. ASSUME NEW j \in 1 .. L - 1, NEW k \in 1 .. L - 1, u[j] = u[k]
      PROVE  j = k
  BY <1>1, <1>5, <1>6, <1>7
<1>8. ASSUME NEW k \in 1 .. L - 1
      PROVE  r.next[u[k]] = u[After(k, L - 1)] /\ r.prev[u[After(k, L - 1)]] = u[k]
  <2> DEFINE g == IF k < i THEN k ELSE k + 1
             f == IF After(k, L - 1) < i THEN After(k, L - 1) ELSE After(k, L - 1) + 1
  <2>1. /\ g \in 1 .. L /\ f \in 1 .. L /\ After(k, L - 1) \in 1 .. L - 1
        /\ u[k] = t[g] /\ u[After(k, L - 1)] = t[f]
    BY <1>1, <1>5 DEF After
  <2>2. CASE g = b
    <3>1. f = a
      BY <1>1, <2>2 DEF After
    <3>2. r.next[t[b]] = t[a] /\ r.prev[t[a]] = t[b]
      BY <1>1, <1>3
    <3>3. QED
      BY <2>1, <2>2, <3>1, <3>2
  <2>3. CASE g # b
    <3>1. f = After(g, L) /\ f # a
      BY <1>1, <2>3 DEF After
    <3>2. t[g] # t[b] /\ t[f] # t[a]
      BY <1>1, <1>6, <2>1, <2>3, <3>1
    <3>3. h.next[t[g]] = t[f] /\ h.prev[t[f]] = t[g]
      BY <2>1, <3>1 DEF IsRing
    <3>4. r.next[t[g]] = h.next[t[g]] /\ r.prev[t[f]] = h.prev[t[f]]
      BY <1>1, <1>3, <2>1, <3>2
    <3>5. QED
      BY <2>1, <3>3, <3>4
  <2>4. QED
    BY <2>2, <2>3
<1>9. IsRing(r, u)
  <2>1. Len(u) = L - 1
    BY <1>4
  <2> HIDE DEF u, r, L
  <2> QED  BY <2>1, <1>7, <1>8 DEF IsRing
<1>10. r.next[t[i]] = h.next[t[i]] /\ r.prev[t[i]] = h.prev[t[i]]
  BY <1>1, <1>3, <1>6
<1>11. QED
  BY <1>2, <1>3, <1>9, <1>10

(* list_empty: on the head of a ring it says whether the ring is the head  *)
(* alone.                                                                  *)
THEOREM Empty ==
    ASSUME NEW N, NEW h, NEW t \in Seq(N), IsRing(h, t), t # << >>
    PROVE  list_empty(h, t[1]) <=> Len(t) = 1
<1>1. Len(t) \in Nat \ {0}
  OBVIOUS
<1>2. h.next[t[1]] = t[After(1, Len(t))] /\ After(1, Len(t)) \in 1 .. Len(t)
  <2>1. After(1, Len(t)) \in 1 .. Len(t)
    <3>1. ASSUME NEW L \in Nat \ {0} PROVE After(1, L) \in 1 .. L
      BY DEF After
    <3>2. QED
      BY ONLY <1>1, <3>1
  <2>2. h.next[t[1]] = t[After(1, Len(t))]
    BY <1>1 DEF IsRing
  <2>3. QED
    BY <2>1, <2>2
<1>3. t[After(1, Len(t))] = t[1] <=> After(1, Len(t)) = 1
  BY <1>1, <1>2 DEF IsRing
<1>4. After(1, Len(t)) = 1 <=> Len(t) = 1
  BY <1>1 DEF After
<1>5. QED
  BY <1>2, <1>3, <1>4 DEF list_empty

-----------------------------------------------------------------------------
(* The list of the manager: a ring of the head and the free blocks.        *)
Linked(h, s) == h \in Heap(Node, Node \cup {NULL}) /\ IsRing(h, <<Head_>> \o s)

LEMMA HeadFirst ==
  ASSUME NEW s \in Seq(Page)
  PROVE  /\ <<Head_>> \o s \in Seq(Node) /\ Len(<<Head_>> \o s) = Len(s) + 1
         /\ (<<Head_>> \o s)[1] = Head_
         /\ \A i \in 1..Len(s) : (<<Head_>> \o s)[i + 1] = s[i]
         /\ \A i \in 2..(Len(s) + 1) : (<<Head_>> \o s)[i] = s[i - 1]
         /\ Head_ \notin Page
<1>1. Head_ \in Node /\ Page \subseteq Node /\ Head_ \notin Page
  BY DEF Node, Head_, Page
<1>2. <<Head_>> \in Seq(Node) /\ s \in Seq(Node) /\ Len(<<Head_>>) = 1 /\ <<Head_>>[1] = Head_
  BY <1>1
<1>3. /\ <<Head_>> \o s \in Seq(Node) /\ Len(<<Head_>> \o s) = Len(<<Head_>>) + Len(s)
      /\ \A i \in 1..(Len(<<Head_>>) + Len(s)) : (<<Head_>> \o s)[i] =
            IF i <= Len(<<Head_>>) THEN <<Head_>>[i] ELSE s[i - Len(<<Head_>>)]
  BY ONLY <1>2, ConcatProperties
<1>4. Len(s) \in Nat
  OBVIOUS
<1>5. \A i \in 1..(Len(s) + 1) : (<<Head_>> \o s)[i] = IF i = 1 THEN Head_ ELSE s[i - 1]
  BY ONLY <1>2, <1>3, <1>4
<1>6. \A i \in 1..Len(s) : (<<Head_>> \o s)[i + 1] = s[i]
  <2> TAKE i \in 1..Len(s)
  <2>1. i + 1 \in 1..(Len(s) + 1) /\ i + 1 # 1 /\ (i + 1) - 1 = i
    BY <1>4
  <2> QED  BY <2>1, <1>5
<1> QED  BY <1>1, <1>2, <1>3, <1>4, <1>5, <1>6

(* The list with e put in at place i, and without its place i.             *)
LEMMA WithIsInsert ==
  ASSUME NEW s \in Seq(Page), NEW i \in 1..(Len(s) + 1), NEW e \in Page
  PROVE  With(<<Head_>> \o s, i, e) = <<Head_>> \o InsertAt(s, i, e)
<1>0. PICK t : t = <<Head_>> \o s
  OBVIOUS
<1>1. /\ t \in Seq(Node) /\ Len(t) = Len(s) + 1 /\ t[1] = Head_
      /\ \A j \in 2..(Len(s) + 1) : t[j] = s[j - 1]
  BY <1>0, HeadFirst
<1>2. PICK r : /\ r = InsertAt(s, i, e) /\ r \in Seq(Page) /\ Len(r) = Len(s) + 1
               /\ \A j \in 1..(Len(s) + 1) :
                     r[j] = IF j < i THEN s[j] ELSE IF j = i THEN e ELSE s[j - 1]
  <2>1. /\ InsertAt(s, i, e) \in Seq(Page) /\ Len(InsertAt(s, i, e)) = Len(s) + 1
        /\ \A j \in 1..(Len(s) + 1) :
              InsertAt(s, i, e)[j] = IF j < i THEN s[j] ELSE IF j = i THEN e ELSE s[j - 1]
    BY InsertAtIndex
  <2> QED  BY <2>1
<1>3. PICK u : /\ u = <<Head_>> \o r /\ u \in Seq(Node) /\ Len(u) = Len(s) + 2
               /\ u[1] = Head_ /\ \A j \in 2..(Len(s) + 2) : u[j] = r[j - 1]
  <2>1. /\ <<Head_>> \o r \in Seq(Node) /\ Len(<<Head_>> \o r) = Len(r) + 1
        /\ (<<Head_>> \o r)[1] = Head_
        /\ \A j \in 2..(Len(r) + 1) : (<<Head_>> \o r)[j] = r[j - 1]
    BY <1>2, HeadFirst
  <2>2. Len(r) + 1 = Len(s) + 2
    BY <1>2
  <2> QED  BY <2>1, <2>2
<1>4. PICK w : /\ w = With(t, i, e) /\ w \in Seq(Node) /\ Len(w) = Len(t) + 1
               /\ \A j \in 1..(Len(t) + 1) :
                     w[j] = IF j <= i THEN t[j] ELSE IF j = i + 1 THEN e ELSE t[j - 1]
  <2>1. i \in 1..Len(t) /\ e \in Node
    BY <1>1 DEF Node
  <2>2. With(t, i, e) \in Seq(Node) /\ Len(With(t, i, e)) = Len(t) + 1
    BY <1>1, <2>1, SeqFacts
  <2>3. \A j \in 1..(Len(t) + 1) :
           With(t, i, e)[j] = IF j <= i THEN t[j] ELSE IF j = i + 1 THEN e ELSE t[j - 1]
    BY DEF With
  <2> QED  BY <2>2, <2>3
<1>5. Len(s) \in Nat /\ i \in Nat /\ i >= 1 /\ i <= Len(s) + 1
  OBVIOUS
<1>6. ASSUME NEW j \in 1..Len(w) PROVE w[j] = u[j]
  <2>1. j \in 1..(Len(s) + 2)
    BY <1>1, <1>4
  <2>2. CASE j = 1
    BY <2>1, <2>2, <1>1, <1>3, <1>4, <1>5
  <2>3. CASE j # 1
    <3>1. u[j] = r[j - 1] /\ j - 1 \in 1..(Len(s) + 1) /\ j \in Nat /\ j >= 2
      BY <2>1, <2>3, <1>3, <1>5
    <3>2. CASE j <= i
      <4>1. j - 1 < i /\ j \in 2..(Len(s) + 1) /\ j \in 1..(Len(t) + 1)
        BY <3>1, <3>2, <2>1, <1>1, <1>5
      <4>2. w[j] = t[j] /\ t[j] = s[j - 1]
        BY <4>1, <3>2, <1>1, <1>4
      <4>3. r[j - 1] = s[j - 1]
        BY <4>1, <3>1, <1>2
      <4> QED  BY <4>2, <4>3, <3>1
    <3>3. CASE j = i + 1
      <4>1. j - 1 = i /\ ~(j <= i)
        BY <3>3, <1>5
      <4> QED  BY <4>1, <3>1, <3>3, <2>1, <1>1, <1>2, <1>4, <1>5
    <3>4. CASE j > i + 1
      <4>1. ~(j <= i) /\ j # i + 1 /\ ~(j - 1 < i) /\ j - 1 # i /\ j - 1 \in 2..(Len(s) + 1)
        BY <3>4, <2>1, <1>5
      <4>2. w[j] = t[j - 1] /\ t[j - 1] = s[(j - 1) - 1] /\ r[j - 1] = s[(j - 1) - 1]
        <5>1. w[j] = t[j - 1]
          BY <4>1, <2>1, <1>1, <1>4
        <5>2. t[j - 1] = s[(j - 1) - 1]
          BY <4>1, <1>1
        <5>3. r[j - 1] = s[(j - 1) - 1]
          BY <4>1, <3>1, <1>2
        <5> QED  BY <5>1, <5>2, <5>3
      <4> QED  BY <4>2, <3>1
    <3> QED  BY <3>1, <3>2, <3>3, <3>4, <1>5
  <2> QED  BY <2>2, <2>3
<1>7. Len(w) = Len(u)
  BY <1>1, <1>3, <1>4, <1>5
<1>8. w = u
  BY ONLY <1>3, <1>4, <1>6, <1>7, SeqEqual
<1> QED  BY <1>0, <1>2, <1>3, <1>4, <1>8

LEMMA WithoutIsRemove ==
  ASSUME NEW s \in Seq(Page), NEW i \in 1..Len(s)
  PROVE  Without(<<Head_>> \o s, i + 1) = <<Head_>> \o RemoveAt(s, i)
<1>0. PICK t : t = <<Head_>> \o s
  OBVIOUS
<1>1. /\ t \in Seq(Node) /\ Len(t) = Len(s) + 1 /\ t[1] = Head_
      /\ \A j \in 2..(Len(s) + 1) : t[j] = s[j - 1]
  BY <1>0, HeadFirst
<1>2. PICK r : /\ r = RemoveAt(s, i) /\ r \in Seq(Page) /\ Len(r) = Len(s) - 1
               /\ \A j \in 1..(Len(s) - 1) : r[j] = IF j < i THEN s[j] ELSE s[j + 1]
  <2>1. /\ RemoveAt(s, i) \in Seq(Page) /\ Len(RemoveAt(s, i)) = Len(s) - 1
        /\ \A j \in 1..(Len(s) - 1) : RemoveAt(s, i)[j] = IF j < i THEN s[j] ELSE s[j + 1]
    BY RemoveAtIndex
  <2> QED  BY <2>1
<1>3. Len(s) \in Nat /\ i \in Nat /\ i >= 1 /\ i <= Len(s)
  OBVIOUS
<1>4. PICK u : /\ u = <<Head_>> \o r /\ u \in Seq(Node) /\ Len(u) = Len(s)
               /\ u[1] = Head_ /\ \A j \in 2..Len(s) : u[j] = r[j - 1]
  <2>1. /\ <<Head_>> \o r \in Seq(Node) /\ Len(<<Head_>> \o r) = Len(r) + 1
        /\ (<<Head_>> \o r)[1] = Head_
        /\ \A j \in 2..(Len(r) + 1) : (<<Head_>> \o r)[j] = r[j - 1]
    BY <1>2, HeadFirst
  <2>2. Len(r) + 1 = Len(s)
    BY <1>2, <1>3
  <2> QED  BY <2>1, <2>2
<1>5. PICK w : /\ w = Without(t, i + 1) /\ w \in Seq(Node) /\ Len(w) = Len(s)
               /\ \A j \in 1..Len(s) : w[j] = IF j < i + 1 THEN t[j] ELSE t[j + 1]
  <2>1. i + 1 \in 1..Len(t) /\ Len(t) - 1 = Len(s) /\ t[1] \in Node
    BY <1>1, <1>3
  <2>2. Without(t, i + 1) \in Seq(Node) /\ Len(Without(t, i + 1)) = Len(t) - 1
    BY <1>1, <2>1, SeqFacts
  <2>3. \A j \in 1..(Len(t) - 1) : Without(t, i + 1)[j] = IF j < i + 1 THEN t[j] ELSE t[j + 1]
    BY DEF Without
  <2> QED  BY <2>1, <2>2, <2>3
<1>6. ASSUME NEW j \in 1..Len(w) PROVE w[j] = u[j]
  <2>1. j \in 1..Len(s)
    BY <1>5
  <2>2. CASE j = 1
    BY <2>1, <2>2, <1>1, <1>3, <1>4, <1>5
  <2>3. CASE j # 1
    <3>1. u[j] = r[j - 1] /\ j - 1 \in 1..(Len(s) - 1) /\ j \in Nat /\ j >= 2
      BY <2>1, <2>3, <1>3, <1>4
    <3>2. CASE j < i + 1
      <4>1. j - 1 < i /\ j \in 2..(Len(s) + 1)
        BY <3>1, <3>2, <2>1, <1>3
      <4>2. w[j] = t[j] /\ t[j] = s[j - 1]
        BY <4>1, <3>2, <2>1, <1>1, <1>5
      <4>3. r[j - 1] = s[j - 1]
        BY <4>1, <3>1, <1>2
      <4> QED  BY <4>2, <4>3, <3>1
    <3>3. CASE ~(j < i + 1)
      <4>1. ~(j - 1 < i) /\ (j - 1) + 1 = j /\ j + 1 \in 2..(Len(s) + 1) /\ (j + 1) - 1 = j
        BY <3>3, <3>1, <2>1, <1>3
      <4>2. w[j] = t[j + 1] /\ t[j + 1] = s[(j + 1) - 1]
        BY <4>1, <3>3, <2>1, <1>1, <1>5
      <4>3. r[j - 1] = s[(j - 1) + 1]
        BY <4>1, <3>1, <1>2
      <4> QED  BY <4>1, <4>2, <4>3, <3>1
    <3> QED  BY <3>2, <3>3
  <2> QED  BY <2>2, <2>3
<1>7. w = u
  BY ONLY <1>4, <1>5, <1>6, SeqEqual
<1> QED  BY <1>0, <1>2, <1>4, <1>5, <1>7

-----------------------------------------------------------------------------
(* The manager's operations on its list.                                   *)

(* list_add_before at place i; behind the last block that is the head.     *)
LEMMA InsertLinked ==
  ASSUME NEW h, NEW s \in Seq(Page), Linked(h, s), NEW i \in 1..(Len(s) + 1),
         NEW e \in Page, e \notin ToSet(s)
  PROVE  Linked(list_add_before(h, IF i <= Len(s) THEN s[i] ELSE Head_, e), InsertAt(s, i, e))
<1>0. PICK t, V : t = <<Head_>> \o s /\ V = Node \cup {NULL}
  OBVIOUS
<1>1. PICK m \in 1..Len(t) : m = IF i <= Len(s) THEN i + 1 ELSE 1
  BY <1>0, HeadFirst
<1>2. /\ t \in Seq(Node) /\ Len(t) = Len(s) + 1 /\ h \in Heap(Node, V) /\ IsRing(h, t)
      /\ Node \subseteq V /\ e \in Node
  BY <1>0, HeadFirst DEF Linked, Node
<1>3. t[m] = IF i <= Len(s) THEN s[i] ELSE Head_
  BY <1>0, <1>1, HeadFirst
<1>4. \A j \in 1..Len(t) : t[j] # e
  <2>1. \A j \in 1..Len(s) : s[j] # e
    BY ToSetIndex
  <2> QED  BY <2>1, <1>0, <1>2, HeadFirst
<1>5. (IF m = 1 THEN Len(t) ELSE m - 1) = i
  BY <1>1, <1>2
<1>6. PICK g : g = list_add_before(h, t[m], e)
  OBVIOUS
<1>7. g \in Heap(Node, V) /\ IsRing(g, With(t, i, e))
  BY <1>2, <1>4, <1>5, <1>6, AddBefore
<1>8. With(t, i, e) = <<Head_>> \o InsertAt(s, i, e)
  BY <1>0, WithIsInsert
<1> QED  BY <1>0, <1>3, <1>6, <1>7, <1>8 DEF Linked

(* list_add at the head. *)
LEMMA PushLinked ==
  ASSUME NEW h, NEW s \in Seq(Page), Linked(h, s), NEW e \in Page, e \notin ToSet(s)
  PROVE  Linked(list_add(h, Head_, e), InsertAt(s, 1, e))
<1>0. PICK t, V : t = <<Head_>> \o s /\ V = Node \cup {NULL}
  OBVIOUS
<1>2. /\ t \in Seq(Node) /\ Len(t) = Len(s) + 1 /\ h \in Heap(Node, V) /\ IsRing(h, t)
      /\ Node \subseteq V /\ e \in Node /\ t[1] = Head_ /\ 1 \in 1..Len(t)
  BY <1>0, HeadFirst DEF Linked, Node
<1>4. \A j \in 1..Len(t) : t[j] # e
  <2>1. \A j \in 1..Len(s) : s[j] # e
    BY ToSetIndex
  <2> QED  BY <2>1, <1>0, <1>2, HeadFirst
<1>6. PICK g : g = list_add_after(h, t[1], e)
  OBVIOUS
<1>7. g \in Heap(Node, V) /\ IsRing(g, With(t, 1, e))
  BY <1>2, <1>4, <1>6, AddAfter
<1>8. With(t, 1, e) = <<Head_>> \o InsertAt(s, 1, e)
  <2>1. 1 \in 1..(Len(s) + 1)
    OBVIOUS
  <2> QED  BY <2>1, <1>0, WithIsInsert
<1> QED  BY <1>0, <1>2, <1>6, <1>7, <1>8 DEF Linked, list_add

LEMMA RemoveLinked ==
  ASSUME NEW h, NEW s \in Seq(Page), Linked(h, s), NEW i \in 1..Len(s)
  PROVE  Linked(list_del(h, s[i]), RemoveAt(s, i))
<1>0. PICK t, V : t = <<Head_>> \o s /\ V = Node \cup {NULL}
  OBVIOUS
<1>2. /\ t \in Seq(Node) /\ Len(t) = Len(s) + 1 /\ h \in Heap(Node, V) /\ IsRing(h, t)
      /\ Node \subseteq V /\ t[i + 1] = s[i] /\ i + 1 \in 1..Len(t) /\ Len(t) > 1
  BY <1>0, HeadFirst DEF Linked, Node
<1>6. PICK g : g = list_del(h, t[i + 1])
  OBVIOUS
<1>7. g \in Heap(Node, V) /\ IsRing(g, Without(t, i + 1))
  BY <1>2, <1>6, Del
<1>8. Without(t, i + 1) = <<Head_>> \o RemoveAt(s, i)
  BY <1>0, WithoutIsRemove
<1> QED  BY <1>0, <1>2, <1>6, <1>7, <1>8 DEF Linked

(* A new block put in next to the i-th, which then goes, takes its place:  *)
(* the remainder of a split behind it, a run it merges with in front.      *)
LEMMA InsertThenRemove ==
  ASSUME NEW s \in Seq(Page), NEW i \in 1..Len(s), NEW e \in Page
  PROVE  /\ RemoveAt(InsertAt(s, i + 1, e), i) = ReplaceAt(s, i, e)
         /\ RemoveAt(InsertAt(s, i, e), i + 1) = ReplaceAt(s, i, e)
         /\ InsertAt(s, i + 1, e)[i] = s[i] /\ InsertAt(s, i, e)[i + 1] = s[i]
<1>0. Len(s) \in Nat /\ i \in Nat /\ i >= 1 /\ i <= Len(s) /\ i + 1 \in 1..(Len(s) + 1)
  OBVIOUS
<1>1. PICK q : /\ q = ReplaceAt(s, i, e) /\ q \in Seq(Page) /\ Len(q) = Len(s)
               /\ \A j \in 1..Len(s) : q[j] = IF j = i THEN e ELSE s[j]
  <2>1. /\ ReplaceAt(s, i, e) \in Seq(Page) /\ Len(ReplaceAt(s, i, e)) = Len(s)
        /\ \A j \in 1..Len(s) : ReplaceAt(s, i, e)[j] = IF j = i THEN e ELSE s[j]
    BY ReplaceAtIndex
  <2> QED  BY <2>1
<1>2. ASSUME NEW k \in 1..(Len(s) + 1), NEW l \in 1..(Len(s) + 1),
             (k = i /\ l = i + 1) \/ (k = i + 1 /\ l = i)
      PROVE  RemoveAt(InsertAt(s, k, e), l) = q /\ InsertAt(s, k, e)[l] = s[i]
  <2>0. /\ k \in 1..(Len(s) + 1) /\ l \in 1..(Len(s) + 1) /\ k \in Nat /\ l \in Nat
        /\ k <= i + 1 /\ k >= i /\ l >= i /\ l <= i + 1
    BY <1>0, <1>2
  <2>1. PICK a : /\ a = InsertAt(s, k, e) /\ a \in Seq(Page) /\ Len(a) = Len(s) + 1
                 /\ \A j \in 1..(Len(s) + 1) :
                       a[j] = IF j < k THEN s[j] ELSE IF j = k THEN e ELSE s[j - 1]
    <3>1. /\ InsertAt(s, k, e) \in Seq(Page) /\ Len(InsertAt(s, k, e)) = Len(s) + 1
          /\ \A j \in 1..(Len(s) + 1) :
                InsertAt(s, k, e)[j] = IF j < k THEN s[j] ELSE IF j = k THEN e ELSE s[j - 1]
      BY InsertAtIndex
    <3> QED  BY <3>1
  <2>2. PICK b : /\ b = RemoveAt(a, l) /\ b \in Seq(Page) /\ Len(b) = Len(s)
                 /\ \A j \in 1..Len(s) : b[j] = IF j < l THEN a[j] ELSE a[j + 1]
    <3>1. l \in 1..Len(a) /\ Len(a) - 1 = Len(s)
      BY <2>0, <2>1, <1>0
    <3>2. /\ RemoveAt(a, l) \in Seq(Page) /\ Len(RemoveAt(a, l)) = Len(a) - 1
          /\ \A j \in 1..(Len(a) - 1) : RemoveAt(a, l)[j] = IF j < l THEN a[j] ELSE a[j + 1]
      BY <2>1, <3>1, RemoveAtIndex
    <3> QED  BY <3>1, <3>2
  <2>3. a[l] = s[i]
    <3>1. CASE k = i /\ l = i + 1
      <4>1. ~(l < k) /\ l # k /\ l - 1 = i
        BY <3>1, <1>0
      <4> QED  BY <4>1, <2>0, <2>1
    <3>2. CASE k = i + 1 /\ l = i
      <4>1. l < k
        BY <3>2, <1>0
      <4> QED  BY <4>1, <3>2, <2>0, <2>1
    <3> QED  BY <3>1, <3>2, <1>2
  <2>4. ASSUME NEW j \in 1..Len(b) PROVE b[j] = q[j]
    <3>1. j \in 1..Len(s) /\ j \in Nat /\ j \in 1..(Len(s) + 1) /\ j + 1 \in 1..(Len(s) + 1)
          /\ (j + 1) - 1 = j
      BY <2>2, <1>0
    <3>2. CASE j < i
      <4>1. j < l /\ j < k /\ j # i
        BY <3>1, <3>2, <2>0, <1>0
      <4>2. b[j] = a[j] /\ a[j] = s[j]
        BY <4>1, <3>1, <2>1, <2>2
      <4> QED  BY <4>1, <4>2, <3>1, <1>1
    <3>3. CASE j = i /\ k = i + 1
      <4>1. l = i /\ ~(j < l) /\ j + 1 = k /\ ~(j + 1 < k)
        BY <3>1, <3>3, <1>0, <1>2
      <4>2. b[j] = a[k] /\ a[k] = e
        BY <4>1, <3>1, <2>0, <2>1, <2>2
      <4> QED  BY <4>2, <3>1, <3>3, <1>1
    <3>4. CASE j = i /\ k = i
      <4>1. j < l /\ j = k /\ ~(j < k)
        BY <3>1, <3>4, <1>0, <1>2
      <4>2. b[j] = a[j] /\ a[j] = e
        BY <4>1, <3>1, <2>1, <2>2
      <4> QED  BY <4>2, <3>1, <3>4, <1>1
    <3>5. CASE j > i
      <4>1. ~(j < l) /\ ~(j + 1 < k) /\ j + 1 # k /\ j # i
        BY <3>1, <3>5, <1>0, <1>2
      <4>2. b[j] = a[j + 1] /\ a[j + 1] = s[(j + 1) - 1]
        BY <4>1, <3>1, <2>1, <2>2
      <4> QED  BY <4>1, <4>2, <3>1, <1>1
    <3>6. j < i \/ j = i \/ j > i
      BY ONLY <3>1, <1>0
    <3>7. k = i \/ k = i + 1
      BY <1>2
    <3> QED  BY <3>2, <3>3, <3>4, <3>5, <3>6, <3>7
  <2>5. b = q
    BY <1>1, <2>2, <2>4, SeqEqual
  <2> QED  BY <2>1, <2>2, <2>3, <2>5
<1>3. RemoveAt(InsertAt(s, i + 1, e), i) = q /\ InsertAt(s, i + 1, e)[i] = s[i]
  BY <1>0, <1>2
<1>4. RemoveAt(InsertAt(s, i, e), i + 1) = q /\ InsertAt(s, i, e)[i + 1] = s[i]
  BY <1>0, <1>2
<1> QED  BY <1>1, <1>3, <1>4

LEMMA ReplaceLinked ==
  ASSUME NEW h, NEW s \in Seq(Page), Linked(h, s), NEW i \in 1..Len(s),
         NEW e \in Page, e \notin ToSet(s)
  PROVE  /\ Linked(list_del(list_add(h, s[i], e), s[i]), ReplaceAt(s, i, e))
         /\ Linked(list_del(list_add_before(h, s[i], e), s[i]), ReplaceAt(s, i, e))
<1>0. Len(s) \in Nat /\ i \in Nat /\ i \in 1..(Len(s) + 1) /\ i + 1 \in 1..(Len(s) + 1)
      /\ i <= Len(s)
  OBVIOUS
<1>1. ASSUME NEW k \in 1..(Len(s) + 1), k = i \/ k = i + 1,
             NEW g, Linked(g, InsertAt(s, k, e))
      PROVE  Linked(list_del(g, s[i]), ReplaceAt(s, i, e))
  <2>1. PICK a, l : a = InsertAt(s, k, e) /\ l = IF k = i THEN i + 1 ELSE i
    OBVIOUS
  <2>2. a \in Seq(Page) /\ l \in 1..Len(a)
    <3>1. InsertAt(s, k, e) \in Seq(Page) /\ Len(InsertAt(s, k, e)) = Len(s) + 1
      BY InsertAtIndex
    <3> QED  BY <3>1, <2>1, <1>0, <1>1
  <2>3. RemoveAt(a, l) = ReplaceAt(s, i, e) /\ a[l] = s[i]
    BY <1>0, <1>1, <2>1, InsertThenRemove
  <2>4. Linked(list_del(g, a[l]), RemoveAt(a, l))
    BY <1>1, <2>1, <2>2, RemoveLinked
  <2> QED  BY <2>3, <2>4
<1>2. Linked(list_add_before(h, s[i], e), InsertAt(s, i, e))
  BY <1>0, InsertLinked
<1>3. Linked(list_add(h, s[i], e), InsertAt(s, i + 1, e))
  <2>0. PICK t, V : t = <<Head_>> \o s /\ V = Node \cup {NULL}
    OBVIOUS
  <2>2. /\ t \in Seq(Node) /\ Len(t) = Len(s) + 1 /\ h \in Heap(Node, V) /\ IsRing(h, t)
        /\ Node \subseteq V /\ e \in Node /\ t[i + 1] = s[i] /\ i + 1 \in 1..Len(t)
    BY <2>0, HeadFirst DEF Linked, Node
  <2>4. \A j \in 1..Len(t) : t[j] # e
    <3>1. \A j \in 1..Len(s) : s[j] # e
      BY ToSetIndex
    <3> QED  BY <3>1, <2>0, <2>2, HeadFirst
  <2>6. PICK g : g = list_add_after(h, t[i + 1], e)
    OBVIOUS
  <2>7. g \in Heap(Node, V) /\ IsRing(g, With(t, i + 1, e))
    BY <2>2, <2>4, <2>6, AddAfter
  <2>8. With(t, i + 1, e) = <<Head_>> \o InsertAt(s, i + 1, e)
    BY <1>0, <2>0, WithIsInsert
  <2> QED  BY <2>0, <2>2, <2>6, <2>7, <2>8 DEF Linked, list_add
<1> QED  BY <1>1, <1>2, <1>3

-----------------------------------------------------------------------------
(* The manager on its list, started behind the self-test.  The invariant   *)
(* is that of DefaultPmmProof, since each call is one of DefaultPmm's, and *)
(* the ring; from its part on the heads of blocks it follows that a block  *)
(* put into the ring is not there yet, which the operations need.          *)
LinkInv == Inv /\ pc \in Nat /\ pc > Len(Script) /\ Linked(ring, free_list)

LEMMA ScriptLength == Len(Script) \in Nat
<1> DEFINE Var == {"p0", "p1", "p2", "p"}
           Row == [op : {"get"}, v : Var, n : Nat] \cup [op : {"none"}, n : Nat]
                  \cup [op : {"put"}, v : Var, off : Nat, n : Nat]
                  \cup [op : {"count", "store list", "store nr_free", "restore list",
                              "restore nr_free", "p2 = p0 + 1", "recount", "return"}]
<1>1. basic_check \in Seq(Row)
  BY DEF basic_check, Get, None, Put, Do
<1>2. <<Do("count")>> \in Seq(Row)
  BY DEF Do
<1>3. PICK rest : Script = <<Do("count")>> \o basic_check \o rest /\ rest \in Seq(Row)
  <2> DEFINE rest ==
        <<Get("p0", 5), Do("store list"), None(1), Do("store nr_free"), Put("p0", 2, 3), None(4),
          Get("p1", 3), None(1), Do("p2 = p0 + 1"), Put("p0", 0, 1), Put("p1", 0, 3),
          Get("p0", 1), Put("p0", 0, 1), Get("p0", 2), Put("p0", 0, 2), Put("p2", 0, 1),
          Get("p0", 5), None(1), Do("restore nr_free"), Do("restore list"),
          Put("p0", 0, 5), Do("recount"), Do("return")>>
  <2>1. rest \in Seq(Row)
    BY DEF Get, None, Put, Do
  <2>2. Script = <<Do("count")>> \o basic_check \o rest
    BY DEF Script
  <2> QED  BY <2>1, <2>2
<1> HIDE DEF Row
<1>4. Script \in Seq(Row)
  BY <1>1, <1>2, <1>3, ConcatProperties
<1> QED  BY <1>4, LenProperties

LEMMA StartsLinked == ~Tested /\ ListInit => LinkInv
<1> SUFFICES ASSUME ~Tested, ListInit PROVE LinkInv
  OBVIOUS
<1>1. Inv
  BY InitInv DEF ListInit
<1>2. pc \in Nat /\ pc > Len(Script)
  BY ScriptLength DEF ListInit
<1>3. free_list = <<>> /\ <<Head_>> \o <<>> = <<Head_>> /\ Head_ \in Node
  <2>1. Head_ \in Node
    BY DEF Node
  <2> QED  BY <2>1 DEF ListInit, Init
<1>4. ring = [prev |-> [[e \in Node |-> NULL] EXCEPT ![Head_] = Head_],
              next |-> [[e \in Node |-> NULL] EXCEPT ![Head_] = Head_]]
  BY DEF ListInit, list_init
<1>5. ring \in Heap(Node, Node \cup {NULL}) /\ ring.next[Head_] = Head_ /\ ring.prev[Head_] = Head_
  BY <1>3, <1>4 DEF Heap
<1>6. IsRing(ring, <<Head_>>)
  BY <1>5 DEF IsRing, After
<1> QED  BY <1>1, <1>2, <1>3, <1>5, <1>6 DEF LinkInv, Linked

(* init_memmap *)
LEMMA RegionLinked ==
  ASSUME LinkInv, ListInitMemmap
  PROVE  LinkInv'
<1>1. Inv /\ NextZone /\ free_list \in Seq(Page)
  BY DEF LinkInv, ListInitMemmap, Inv, TypeInv
<1>2. Inv'
  BY <1>1, NextInv DEF Next
<1>3. PICK base \in Nat, n \in Nat \ {0} :
         /\ base = Zones[zone + 1].base /\ n = Zones[zone + 1].n
         /\ Run(base, n) \subseteq Page
         /\ Run(base, n) \cap Managed = {}
         /\ Managed' = Managed \cup Run(base, n)
  BY <1>1, NewZone
<1>4. base \in Page /\ base \notin ToSet(free_list)
  <2>1. base \in Run(base, n)
    BY <1>3 DEF Run
  <2>2. base \in Page /\ base \notin Managed
    BY <2>1, <1>3
  <2> QED  BY <2>2, <1>1, OutsideBlocks DEF Heads
<1>5. free_list' = InsertAt(free_list, 1, base)
  <2>1. free_list' = <<base>> \o free_list
    BY <1>1, <1>3 DEF NextZone, InitMemmap
  <2>2. SubSeq(free_list, 1, 1 - 1) = <<>>
    BY <1>1, SubSeqEmpty
  <2>3. SubSeq(free_list, 1, Len(free_list)) = free_list
    BY <1>1, SubSeqFull
  <2>4. <<>> \o <<base>> = <<base>>
    BY <1>4
  <2> QED  BY <2>1, <2>2, <2>3, <2>4 DEF InsertAt
<1>6. ring' = list_add(ring, Head_, base) /\ pc' = pc
  BY <1>3 DEF ListInitMemmap
<1>7. Linked(list_add(ring, Head_, base), InsertAt(free_list, 1, base))
  BY <1>1, <1>4, PushLinked DEF LinkInv
<1> QED  BY <1>2, <1>5, <1>6, <1>7 DEF LinkInv, Linked

(* alloc_pages *)
LEMMA AllocLinked ==
  ASSUME LinkInv, NEW n \in 1..(NPage + 1), ListAlloc(n)
  PROVE  Linked(ring', free_list')
<1>1. Inv /\ free_list \in Seq(Page) /\ Linked(ring, free_list) /\ n \in Nat
  BY NPageAssumption DEF LinkInv, Inv, TypeInv
<1>2. CASE AllocFail(n) /\ UNCHANGED ring
  BY <1>1, <1>2 DEF AllocFail
<1>3. ASSUME NEW i \in 1..Len(free_list), AllocWhole(i, n), ring' = RingAlloc(free_list[i], n)
      PROVE  Linked(ring', free_list')
  <2>1. property[free_list[i]] = n /\ free_list' = RemoveAt(free_list, i)
    BY <1>3 DEF AllocWhole
  <2>2. ring' = list_del(ring, free_list[i])
    BY <2>1, <1>1, <1>3 DEF RingAlloc
  <2> QED  BY <2>1, <2>2, <1>1, RemoveLinked
<1>4. ASSUME NEW i \in 1..Len(free_list), AllocSplit(i, n), ring' = RingAlloc(free_list[i], n)
      PROVE  Linked(ring', free_list')
  <2>1. PICK page, rest : page = free_list[i] /\ rest = page + n
    OBVIOUS
  <2>2. property[page] > n /\ free_list' = ReplaceAt(free_list, i, rest)
    BY <2>1, <1>4 DEF AllocSplit
  <2>3. ring' = list_del(list_add(ring, page, rest), page)
    BY <2>1, <2>2, <1>4 DEF RingAlloc
  <2>4. page \in Heads /\ page \in Nat /\ property[page] \in Nat
    BY <2>1, <1>1, HeadFacts
  <2>5. rest \in Run(page, property[page]) /\ page < rest
    BY <2>1, <2>2, <2>4, <1>1, PageFacts
  <2>6. rest \in Page
    <3>1. rest \in Managed
      BY <2>4, <2>5, <1>1, HeadFacts
    <3> QED  BY <3>1, <1>1, ManagedPages DEF Inv, TypeInv
  <2>7. rest \notin Heads
    <3>1. ASSUME rest \in Heads PROVE FALSE
      <4>1. page + property[page] <= rest
        BY <3>1, <2>4, <2>5, <1>1 DEF Inv, ListInv
      <4>2. rest < page + property[page] /\ rest \in Nat
        BY <2>4, <2>5, PageFacts, <2>6
      <4> QED  BY <4>1, <4>2, <2>4
    <3> QED  BY <3>1
  <2> QED  BY <2>1, <2>2, <2>3, <2>6, <2>7, <1>1, ReplaceLinked DEF Heads
<1> QED  BY <1>2, <1>3, <1>4 DEF ListAlloc

(* free_pages *)
LEMMA FreeLinked ==
  ASSUME LinkInv, NEW base \in Page, NEW n \in 1..NPage, ListFree(base, n)
  PROVE  Linked(ring', free_list')
<1>1. Inv /\ free_list \in Seq(Page) /\ Linked(ring, free_list) /\ Len(free_list) \in Nat
  BY DEF LinkInv, Inv, TypeInv
<1>2. PICK i \in 1..(Len(free_list) + 1) : InsertionPoint(base, i) /\ ring' = RingFree(base, n, i)
  BY DEF ListFree
<1>3. \/ MergeBoth(base, n, i) \/ MergePrev(base, n, i)
      \/ MergeNext(base, n, i) \/ InsertAlone(base, n, i)
  <2>1. PICK j \in 1..(Len(free_list) + 1) :
           /\ InsertionPoint(base, j)
           /\ \/ MergeBoth(base, n, j) \/ MergePrev(base, n, j)
              \/ MergeNext(base, n, j) \/ InsertAlone(base, n, j)
    BY DEF ListFree, Free
  <2>2. ~(i < j) /\ ~(j < i)
    <3>1. i \in Nat /\ j \in Nat /\ (i < j => i \in 1..(j - 1)) /\ (j < i => j \in 1..(i - 1))
      BY <1>1
    <3> QED  BY <3>1, <2>1, <1>2 DEF InsertionPoint
  <2>3. i = j
    BY <2>2, <1>1
  <2> QED  BY <2>1, <2>3
<1>4. base \notin ToSet(free_list)
  <2>1. base \in held
    <3>1. base \in Run(base, n)
      BY NPageAssumption, PageFacts
    <3> QED  BY <3>1 DEF ListFree, Free
  <2> QED  BY <2>1, <1>1, OutsideBlocks DEF Heads
<1>5. list_empty(ring, Head_) <=> free_list = <<>>
  <2>1. PICK t : t = <<Head_>> \o free_list
    OBVIOUS
  <2>2. t \in Seq(Node) /\ Len(t) = Len(free_list) + 1 /\ t[1] = Head_ /\ IsRing(ring, t) /\ t # <<>>
    BY <2>1, <1>1, HeadFirst DEF Linked
  <2>3. list_empty(ring, t[1]) <=> Len(t) = 1
    BY <2>2, Empty
  <2> QED  BY <2>2, <2>3, <1>1, EmptySeq
<1>6. CASE free_list = <<>>
  <2>1. i = 1 /\ ~MergesPrev(base, n, i) /\ ~MergesNext(base, n, i)
    <3>1. Len(free_list) = 0 /\ i = 1
      BY <1>6
    <3> QED  BY <3>1 DEF MergesPrev, MergesNext
  <2>2. ring' = list_add(ring, Head_, base)
    <3>1. list_empty(ring, Head_)
      BY <1>5, <1>6
    <3> QED  BY <3>1, <2>1, <1>2 DEF RingFree
  <2>4. InsertAlone(base, n, i)
    BY <1>3, <2>1 DEF MergeBoth, MergePrev, MergeNext
  <2>3. free_list' = InsertAt(free_list, 1, base)
    BY <2>1, <2>4 DEF InsertAlone
  <2> QED  BY <2>2, <2>3, <1>1, <1>4, PushLinked
<1>7. CASE free_list # <<>>
  <2>0. PICK cur : cur = IF i <= Len(free_list) THEN free_list[i] ELSE Head_
    OBVIOUS
  <2>1. CASE MergeBoth(base, n, i)
    <3>1. /\ MergesPrev(base, n, i) /\ MergesNext(base, n, i)
          /\ free_list' = RemoveAt(free_list, i)
      BY <2>1 DEF MergeBoth
    <3>2. i \in 1..Len(free_list) /\ cur = free_list[i]
      BY <2>0, <3>1, <1>1 DEF MergesNext
    <3>3. ring' = list_del(ring, cur)
      BY <2>0, <3>1, <1>2, <1>5, <1>7 DEF RingFree
    <3> QED  BY <3>1, <3>2, <3>3, <1>1, RemoveLinked
  <2>2. CASE MergePrev(base, n, i)
    <3>1. MergesPrev(base, n, i) /\ ~MergesNext(base, n, i) /\ free_list' = free_list
      BY <2>2 DEF MergePrev
    <3>2. ring' = ring
      BY <3>1, <1>2, <1>5, <1>7 DEF RingFree
    <3> QED  BY <3>1, <3>2, <1>1
  <2>3. CASE MergeNext(base, n, i)
    <3>1. /\ ~MergesPrev(base, n, i) /\ MergesNext(base, n, i)
          /\ free_list' = ReplaceAt(free_list, i, base)
      BY <2>3 DEF MergeNext
    <3>2. i \in 1..Len(free_list) /\ cur = free_list[i]
      BY <2>0, <3>1, <1>1 DEF MergesNext
    <3>3. ring' = list_del(list_add_before(ring, cur, base), cur)
      BY <2>0, <3>1, <1>2, <1>5, <1>7 DEF RingFree
    <3> QED  BY <3>1, <3>2, <3>3, <1>1, <1>4, ReplaceLinked
  <2>4. CASE InsertAlone(base, n, i)
    <3>1. /\ ~MergesPrev(base, n, i) /\ ~MergesNext(base, n, i)
          /\ free_list' = InsertAt(free_list, i, base)
      BY <2>4 DEF InsertAlone
    <3>2. ring' = list_add_before(ring, cur, base)
      BY <2>0, <3>1, <1>2, <1>5, <1>7 DEF RingFree
    <3> QED  BY <2>0, <3>1, <3>2, <1>1, <1>4, InsertLinked
  <2> QED  BY <1>3, <2>1, <2>2, <2>3, <2>4
<1> QED  BY <1>6, <1>7

LEMMA StepLinked == LinkInv /\ [CheckNext]_<<vars, ring, pc, ptr, saved, counted>> => LinkInv'
<1> SUFFICES ASSUME LinkInv, [CheckNext]_<<vars, ring, pc, ptr, saved, counted>> PROVE LinkInv'
  OBVIOUS
<1>1. CASE ListInitMemmap
  BY <1>1, RegionLinked
<1>2. CASE CheckStep
  BY <1>2, ScriptLength DEF CheckStep, LinkInv
<1>3. CASE Use
  <2>1. pc' \in Nat /\ pc' > Len(Script)
    BY <1>3, ScriptLength DEF Use, LinkInv
  <2>2. ASSUME NEW n \in 1..(NPage + 1), ListAlloc(n) PROVE Linked(ring', free_list') /\ Next
    <3>1. Alloc(n)
      BY <2>2 DEF ListAlloc, Alloc
    <3>2. Next
      BY <3>1, <1>3 DEF Next, Use
    <3> QED  BY <2>2, <3>2, AllocLinked
  <2>3. ASSUME NEW base \in Page, NEW n \in 1..NPage, ListFree(base, n)
        PROVE  Linked(ring', free_list') /\ Next
    <3>1. Next
      BY <2>3, <1>3 DEF Next, Use, ListFree
    <3> QED  BY <2>3, <3>1, FreeLinked
  <2>4. Linked(ring', free_list') /\ Next
    BY <1>3, <2>2, <2>3 DEF Use
  <2>5. Inv'
    BY <2>4, NextInv DEF LinkInv
  <2> QED  BY <2>1, <2>4, <2>5 DEF LinkInv, Linked
<1>4. CASE UNCHANGED <<vars, ring, pc, ptr, saved, counted>>
  <2>1. Inv'
    BY <1>4, NextInv DEF LinkInv
  <2>2. ring' = ring /\ pc' = pc /\ free_list' = free_list
    BY <1>4 DEF vars
  <2> QED  BY <2>1, <2>2 DEF LinkInv, Linked
<1> QED  BY <1>1, <1>2, <1>3, <1>4 DEF CheckNext

LEMMA AlwaysLinked == ASSUME ~Tested PROVE ListSpec => []LinkInv
<1>1. ListInit => LinkInv
  BY StartsLinked
<1> QED  BY <1>1, StepLinked, PTL DEF ListSpec

(* Whatever is allocated and returned, read from the head in either        *)
(* direction the links are the list of free blocks, each block once; and   *)
(* list_empty says whether there are any.                                  *)
THEOREM LinksAreList == ASSUME ~Tested PROVE ListSpec => []RingIsList
<1>1. LinkInv => RingIsList
  <2> SUFFICES ASSUME LinkInv PROVE RingIsList
    OBVIOUS
  <2>1. PICK t : t = <<Head_>> \o free_list
    OBVIOUS
  <2>2. free_list \in Seq(Page)
    BY DEF LinkInv, Inv, TypeInv
  <2>3. t \in Seq(Node) /\ Len(t) = Len(free_list) + 1 /\ t[1] = Head_ /\ IsRing(ring, t) /\ t # <<>>
    BY <2>1, <2>2, HeadFirst DEF LinkInv, Linked
  <2>4. list_empty(ring, t[1]) <=> Len(t) = 1
    BY <2>3, Empty
  <2> QED  BY <2>1, <2>2, <2>3, <2>4, EmptySeq DEF RingIsList
<1> QED  BY <1>1, AlwaysLinked, PTL

(* The manager on its links loses no page and its scan ends, whatever the  *)
(* order of the regions.                                                   *)
THEOREM AnyOrderHolds == ASSUME ~Tested PROVE ListSpec => []AnyOrder
<1>1. LinkInv => AnyOrder
  BY Conserved, ScanEnds DEF LinkInv, AnyOrder
<1> QED  BY <1>1, AlwaysLinked, PTL
=============================================================================

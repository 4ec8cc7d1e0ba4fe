------------------------------ MODULE FreeList ------------------------------
(***************************************************************************)
(* libs/list.h: doubly linked rings.  A heap h has the two links of every  *)
(* node; each operator is the heap after the call.  A link nobody has      *)
(* written yet holds whatever was in memory.                               *)
(***************************************************************************)
EXTENDS Integers, Sequences

list_init(h, elm) == [h EXCEPT !.prev[elm] = elm, !.next[elm] = elm]

(* The links of the neighbours first, then those of elm. *)
__list_add(h, elm, prev, next) ==
    [h EXCEPT !.next[prev] = elm, !.prev[next] = elm,
              !.next[elm] = next, !.prev[elm] = prev]

__list_del(h, prev, next) == [h EXCEPT !.next[prev] = next, !.prev[next] = prev]

list_add_before(h, listelm, elm) == __list_add(h, elm, h.prev[listelm], listelm)

list_add_after(h, listelm, elm) == __list_add(h, elm, listelm, h.next[listelm])

list_add(h, listelm, elm) == list_add_after(h, listelm, elm)

(* The links of a deleted node keep their values. *)
list_del(h, listelm) == __list_del(h, h.prev[listelm], h.next[listelm])

list_empty(h, list) == h.next[list] = list

-----------------------------------------------------------------------------
After(i, n) == IF i = n THEN 1 ELSE i + 1

(* h links the nodes of t, each once, into a ring in their order, in both  *)
(* directions.                                                             *)
IsRing(h, t) ==
    /\ \A i, j \in 1 .. Len(t) : t[i] = t[j] => i = j
    /\ \A i \in 1 .. Len(t) :
          LET n == t[After(i, Len(t))] IN h.next[t[i]] = n /\ h.prev[n] = t[i]
=============================================================================

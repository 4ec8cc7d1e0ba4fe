----------------------------- MODULE FreeMethods -----------------------------
(***************************************************************************)
(* default_pmm.c holds two implementations of free_pages: the one the      *)
(* manager installs (Free of DefaultPmm, "method 2") and                   *)
(* default_free_pages_method1, which merges in one pass over the whole     *)
(* list and then inserts the result.  The comment in the file presents     *)
(* them as alternatives; this module states that they are.                 *)
(***************************************************************************)
EXTENDS DefaultPmm

(* The variables of the loop: base is the block being built, the others    *)
(* are the globals it changes.                                             *)
Loop(base, n) ==
    [base |-> base,
     list |-> free_list,
     property |-> [property EXCEPT ![base] = n],
     flags |-> [Cleared(base, n) EXCEPT ![base] = {"PG_property"}]]

(* list_del *)
Unlink(list, p) == RemoveAt(list, CHOOSE i \in 1..Len(list) : list[i] = p)

(* Only blocks that follow base are absorbed. *)
AbsorbForward(s, p) ==
    IF s.base + s.property[s.base] = p
    THEN [s EXCEPT !.property[s.base] = @ + s.property[p],
                   !.flags[p] = @ \ {"PG_property"},
                   !.list = Unlink(@, p)]
    ELSE s

(* One iteration, for the block p of the list as it was on entry: le moves *)
(* on before p is unlinked.                                                *)
Absorb(s, p) ==
    IF s.base + s.property[s.base] = p
    THEN [s EXCEPT !.property[s.base] = @ + s.property[p],
                   !.flags[p] = @ \ {"PG_property"},
                   !.list = Unlink(@, p)]
    ELSE IF p + s.property[p] = s.base
    THEN [s EXCEPT !.property[p] = @ + s.property[s.base],
                   !.flags[s.base] = @ \ {"PG_property"},
                   !.list = Unlink(@, p),
                   !.base = p]
    ELSE s

(* The second loop: before the first block above base, else at the end. *)
PutBack(list, base) ==
    LET above == {i \in 1..Len(list) : base < list[i]}
    IN  IF above = {} THEN Append(list, base)
        ELSE InsertAt(list, CHOOSE i \in above : \A j \in above : i <= j, base)

(* The state default_free_pages_method1(base, n) leaves: after[i] is what  *)
(* the loop has made of it behind the i-th block of the list.              *)
Method1(base, n) ==
    LET after[i \in 0..Len(free_list)] ==
            IF i = 0 THEN Loop(base, n) ELSE Absorb(after[i - 1], free_list[i])
        s == after[Len(free_list)]
    IN  [s EXCEPT !.list = PutBack(@, s.base)]

(* Both implementations of free_pages leave the same list of blocks with   *)
(* the same sizes and the same page flags, wherever the run lies.          *)
MethodsAgree ==
    [][\A base \in Page, n \in 1..NPage :
          Free(base, n) =>
              LET s == Method1(base, n) IN
                  /\ free_list' = s.list
                  /\ flags' = s.flags
                  /\ property' = s.property]_vars
=============================================================================

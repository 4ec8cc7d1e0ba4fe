----------------------------- MODULE MCBuddyPmm -----------------------------
(***************************************************************************)
(* Memory maps for the buddy system.                                       *)
(***************************************************************************)
EXTENDS BuddyPmm

(* Two adjacent regions: a tree of 4 over 1..4 of which 2 pages are free,  *)
(* reaching over the second region, and a tree of 8 over 4..11 of which 6  *)
(* are free, reaching beyond memory.                                       *)
TwoZones == <<[base |-> 0, n |-> 3], [base |-> 3, n |-> 7]>>

(* Seven pages: rounding the cut-off end saves one page for the array. *)
Seven == <<[base |-> 0, n |-> 7]>>
=============================================================================

------------------------------ MODULE MCStrings ------------------------------
(* Memories and texts for the model checker; a question may be about them   *)
(* as well as about the tables of MCStab.                                   *)
EXTENDS Strings, MCStab

(* Every memory of six bytes, one of them above 127, and a longer one, in   *)
(* which two double words move; texts with blanks, signs, prefixes and      *)
(* digits of the bases.                                                     *)
Memories == [0 .. 5 -> {0, 97, 200}] \cup {[a \in 0 .. 9 |-> 225 - 25 * a]}
Texts == UNION {[1 .. n -> {" ", "+", "-", "0", "1", "9", "x", "b", "B", "z"}] : n \in 0 .. 4}
Bases == {0, 8, 10, 16, 36}

(* string.c with the functions that x86.h has instead, on memory, strings   *)
(* and numbers.                                                             *)
StringsAgree ==
    /\ in[1] = "strings" /\ in[2] \in Memories => StringFunctionsAgree(in[2])
    /\ in[1] = "strtol" /\ in[2] \in Texts => \A base \in Bases : StrtolAgrees(in[2], base)
=============================================================================

-------------------------------- MODULE MCStab --------------------------------
(* Tables of debug entries for the model checker, and the questions for the *)
(* line of an address and for the calls on a stack.                         *)
EXTENDS Stab

VARIABLE in         \* the question, and what it is about

(* Tables of two source files: functions with and without parameters, with  *)
(* entries of other types among and behind the lines, and a file written in *)
(* assembly, which has lines but no functions.                              *)
At(type, value) == [n_type |-> type, n_value |-> value]
SLine(value) == At("N_SLINE", value)
Mark(type) == At(type, 0)
Bodies == {<<SLine(0)>>, <<SLine(0), SLine(2)>>, <<SLine(0), Mark("N_SOL"), SLine(2)>>,
           <<SLine(0), SLine(2), Mark("N_RBRAC")>>,
           <<SLine(0), Mark("N_SOL"), SLine(2), Mark("N_SOL"), SLine(4)>>}
Functions(value) == {<<At("N_FUN", value)>> \o params \o body :
                        params \in {<<>>, <<Mark("N_PSYM"), Mark("N_PSYM")>>}, body \in Bodies}
FirstFiles == {<<At("N_SO", 2)>> \o f \o g : f \in Functions(2), g \in Functions(8)}
SecondFiles == {<<At("N_SO", 14), SLine(14), SLine(16)>>,
                <<At("N_SO", 14), At("N_FUN", 14), Mark("N_PSYM"), SLine(0)>>}
Numbered(s) ==
    [i \in 0 .. Len(s) - 1 |->
        [n_type |-> s[i + 1].n_type, n_value |-> s[i + 1].n_value,
         n_desc |-> IF s[i + 1].n_type = "N_SLINE" THEN i ELSE 0]]
Tables == {Numbered(<<Mark("N_UNDF")>> \o a \o b \o <<At("N_SO", 18)>>) :
              a \in FirstFiles, b \in SecondFiles}

(* Return addresses, innermost first: some begin a line, a function or a    *)
(* file behind the call.  Frames are at 1, 2, ...                           *)
Chains == {<<4>>, <<6, 10>>, <<8, 14, 16>>, <<12, 18, 4, 6>>}
Calls(chain) == [i \in 1 .. Len(chain) |-> [ebp |-> i, eip |-> chain[i]]]
Frames(chain) ==
    [e \in 1 .. Len(chain) |-> [ebp |-> (e + 1) % (Len(chain) + 1),
                                eip |-> IF e < Len(chain) THEN chain[e + 1] ELSE 0]]

TableInit == in \in {<<"table", t>> : t \in Tables}
TableSpec == TableInit /\ [][UNCHANGED in]_in

(* The calls that the return addresses come from. *)
LinesRight == \A eip \in {4, 6, 8, 10, 12, 14, 16, 18} : LineRight(in[2], eip - 1)

(* print_stackframe, and stab_binsearch on its own, for what the linker     *)
(* puts together.                                                           *)
BacktraceRight ==
    in[1] = "table" /\ WellFormed(in[2]) =>
        /\ \A type \in {"N_SO", "N_FUN"}, addr \in 0 .. 19 :
              SearchFinds(in[2], 0, Final(in[2]), type, addr)
        /\ \A chain \in Chains : CallsPrinted(in[2], Frames(chain), Calls(chain))
=============================================================================

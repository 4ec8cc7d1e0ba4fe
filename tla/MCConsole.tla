------------------------------ MODULE MCConsole ------------------------------
(* The parts of the console and what is built on it, one at a time: a       *)
(* behaviour exercises output, input, the keyboard decoder or the monitor,  *)
(* or asks one question of the library, and leaves the others as they start.*)
EXTENDS Screen, ConsoleInput, Keyboard, Monitor, MCStrings

VARIABLE part

(* A handler prints a line, as those of the keyboard and the serial port do *)
(* with what they got.                                                      *)
MainLine == <<"m", "NL">>
Lines == {<<"k", "NL">>, <<"BS", "NL">>, <<"CR", "NL">>}

(* Keys that are no modifiers, one of each kind; the decoder gets any of    *)
(* its keys together, without a bound.                                      *)
LetterA == <<30>>
Delete == <<E0, 83>>
Others == {LetterA, Delete}

(* A line of three characters holds one word more than argv. *)
Letters == {"a", "b", " "}
Whitespace == {" "}
Names == {<<"a">>, <<"a", "b">>}

F == INSTANCE Format

output == vars
allvars == <<part, output, input, keyboard, monitor, in>>

MCInit ==
    /\ part \in {"output", "input", "keyboard", "monitor", "library"}
    /\ Init /\ InputInit /\ KeyInit /\ MonInit
    /\ part # "output" => ~masked /\ crt_pos = 0
    /\ part # "input" => ~serial_exists
    /\ part # "monitor" => ~intr
    /\ in = <<"nothing", 0>>

Output(A) == part = "output" /\ A /\ UNCHANGED <<part, input, keyboard, monitor, in>>
Input(A) == part = "input" /\ A /\ UNCHANGED <<part, output, keyboard, monitor, in>>
Monitor(A) == part = "monitor" /\ A /\ UNCHANGED <<part, output, input, keyboard, in>>

-----------------------------------------------------------------------------
(* The library: directives of every form, and the values for each.          *)
Directives ==
    [flag : {<<>>, <<"-">>, <<"0">>, <<"#">>}, width : {<<>>, <<"3">>, <<"*">>},
     precision : {<<>>, <<".", "2">>, <<".", "*">>}, length : {<<>>, <<"l">>, <<"l", "l">>},
     conv : {"d", "u", "o", "x", "p", "s", "c", "e", "%", "?"}]

(* The ends of the ranges of int and long long, and values of each length. *)
Values(d) ==
    LET long(vs) == IF d.length = <<"l", "l">> THEN vs ELSE {} IN
    CASE d.conv = "d" -> {-32, -5, 0, 9, 10, 31} \cup long({-2048, -100, 64, 2047})
      [] d.conv \in {"u", "o", "x"} -> {0, 7, 8, 63} \cup long({64, 1000, 4095})
      [] d.conv = "p" -> {0, 63}
      [] d.conv = "s" -> {<<>>, <<"a">>, <<"a", "b", "c">>, <<"a", "BEL", "c", "d">>}
      [] d.conv = "c" -> {"a"}
      [] d.conv = "e" -> {-4, 0, 4, 7}
      [] d.conv \in {"%", "?"} -> {0}

(* The tables are some that are asked about. *)
ASSUME TablesAssumption ==
    \A t \in Tables, chain \in Chains :
        /\ WellFormed(t) /\ Linked(Frames(chain), Calls(chain))
        /\ \A i \in 1 .. Len(chain) : Known(t, chain[i] - 1)

Asked == in[1] # "nothing"
Ask(question) == in' = question

Library ==
    \/ \E m \in Memories : Ask(<<"strings", m>>)
    \/ \E t \in Texts : Ask(<<"strtol", t>>)
    \/ \E d \in Directives : Ask(<<"format", d>>)
    \/ \E t \in Tables : Ask(<<"table", t>>)

-----------------------------------------------------------------------------
MCNext ==
    \/ Output(Next)
    \/ Input(InputNext)
    \/ part = "keyboard" /\ KeyNext /\ UNCHANGED <<part, output, input, monitor, in>>
    \/ Monitor(MonNext)
    \/ part = "library" /\ ~Asked /\ Library /\ UNCHANGED <<part, output, input, keyboard, monitor>>

MCSpec ==
    /\ MCInit /\ [][MCNext]_allvars
    /\ WF_allvars(Output(Kernel)) /\ WF_allvars(Input(Reader))
    /\ WF_allvars(Monitor(Handled)) /\ SF_allvars(Monitor(PanicDead))

(* vprintfmt, for every directive. *)
FormatAgrees ==
    in[1] = "format" => \A v \in Values(in[2]), star \in {0, 1, 5} : F!FormatAgrees(in[2], v, star)
=============================================================================

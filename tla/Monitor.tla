------------------------------ MODULE Monitor ------------------------------
(***************************************************************************)
(* kern/debug/panic.c, kern/debug/kmonitor.c and kern/libs/readline.c: how *)
(* the kernel stops, and the monitor it then runs for ever.                *)
(*                                                                         *)
(* The main line and at most one handler (handlers run with interrupts     *)
(* off) each run, print a panic's message, or are in the monitor.  The     *)
(* masked sections of the prints are left out: interrupts come between.    *)
(***************************************************************************)
EXTENDS Integers, Sequences, FiniteSets

CONSTANTS
    BUFSIZE,        \* bytes of the line buffer
    MAXARGS,        \* arguments a command line may have
    Printable,      \* characters from the blank on
    WHITESPACE,
    commands        \* the names, of three in the code

Control == {"BS", "NL", "CR", "ESC"}
Typed == Printable \cup Control

ASSUME MonitorAssumption ==
    /\ BUFSIZE \in Nat \ {0} /\ MAXARGS \in Nat
    /\ Printable \cap Control = {}

VARIABLES
    main, handler,  \* what the two contexts do
    is_panic,
    intr,           \* FL_IF
    stored,         \* what readline has stored of the line
    row,            \* what stands on the screen behind the prompt
    last,           \* the last line
    argv,           \* its words
    called          \* the command run for it

line == <<stored, row, last, argv, called>>
monitor == <<main, handler, is_panic, intr, line>>

NoCommand == <<>>

MonInit ==
    /\ main = "run" /\ handler = "none"
    /\ is_panic = FALSE /\ intr \in BOOLEAN
    /\ stored = <<>> /\ row = <<>> /\ last = <<>> /\ argv = <<>> /\ called = NoCommand

Active == IF handler = "none" THEN main ELSE handler

(* The running context goes on to do a. *)
Goes(a) ==
    IF handler = "none" THEN main' = a /\ UNCHANGED handler ELSE handler' = a /\ UNCHANGED main

-----------------------------------------------------------------------------
(* __panic                                                                 *)

Interrupted ==
    /\ intr /\ handler = "none"
    /\ handler' = "run" /\ intr' = FALSE
    /\ UNCHANGED <<main, is_panic, line>>

Return ==
    /\ handler = "run"
    /\ handler' = "none" /\ intr' = TRUE
    /\ UNCHANGED <<main, is_panic, line>>

(* The first panic prints its message. *)
PanicFirst ==
    /\ Active = "run" /\ ~is_panic
    /\ is_panic' = TRUE
    /\ Goes("printing")
    /\ UNCHANGED <<intr, line>>

(* A panic while the first is printed, in the handler that interrupted it. *)
PanicAgain ==
    /\ Active = "run" /\ is_panic
    /\ Goes("monitor")
    /\ intr' = FALSE
    /\ UNCHANGED <<is_panic, line>>

(* panic_dead comes after intr_disable. *)
PanicDeadLate ==
    /\ Active = "printing"
    /\ Goes("monitor")
    /\ UNCHANGED <<is_panic, intr, line>>

(* The message is out: panic_dead. *)
PanicDead ==
    /\ Active = "printing"
    /\ Goes("monitor")
    /\ intr' = FALSE
    /\ UNCHANGED <<is_panic, line>>

-----------------------------------------------------------------------------
(* kmonitor                                                                *)

(* The key is shown before the check for room. *)
ReadCharShown(c) ==
    /\ Active = "monitor" /\ c \in Printable
    /\ stored' = IF Len(stored) < BUFSIZE - 1 THEN Append(stored, c) ELSE stored
    /\ row' = Append(row, c)
    /\ UNCHANGED <<main, handler, is_panic, intr, last, argv, called>>

(* readline, one key: an ordinary character, kept if there is room ... *)
ReadChar(c) ==
    /\ Active = "monitor" /\ c \in Printable
    /\ IF Len(stored) < BUFSIZE - 1 THEN stored' = Append(stored, c) /\ row' = Append(row, c)
       ELSE UNCHANGED <<stored, row>>
    /\ UNCHANGED <<main, handler, is_panic, intr, last, argv, called>>

(* ... the one that takes back a character ... *)
ReadBackspace(c) ==
    /\ Active = "monitor" /\ c = "BS"
    /\ IF Len(stored) > 0 THEN stored' = SubSeq(stored, 1, Len(stored) - 1) /\ row' = SubSeq(row, 1, Len(row) - 1)
       ELSE UNCHANGED <<stored, row>>
    /\ UNCHANGED <<main, handler, is_panic, intr, last, argv, called>>

(* ... and one that is passed over. *)
ReadOther(c) ==
    /\ Active = "monitor" /\ c \notin Printable \cup {"BS", "NL", "CR"}
    /\ UNCHANGED monitor

(* parse: a blank is passed over; another character is the first of a new  *)
(* word if a blank or nothing is in front of it, and goes on with the last *)
(* word if not.                                                            *)
Gap(text, i) == i \in {0, Len(text) + 1} \/ text[i] \in WHITESPACE

Parsed(words, text, i) ==
    CASE Gap(text, i) -> words
      [] ~Gap(text, i) /\ Gap(text, i - 1) -> Append(words, <<text[i]>>)
      [] ~Gap(text, i) /\ ~Gap(text, i - 1) ->
            [words EXCEPT ![Len(words)] = Append(words[Len(words)], text[i])]

parse(text) ==
    LET words[i \in 0 .. Len(text)] ==
            IF i = 0 THEN <<>> ELSE Parsed(words[i - 1], text, i)
    IN  words[Len(text)]

(* An unknown command or an empty line: nothing is called. *)
runcmd(words) == IF words # <<>> /\ words[1] \in commands THEN words[1] ELSE NoCommand

(* kmonitor, one line: no command makes it return.  Of too many words the  *)
(* message says so, but they are stored, over what is behind argv: what is *)
(* called then is anything.                                                *)
RunLine(c) ==
    /\ Active = "monitor" /\ c \in {"NL", "CR"}
    /\ last' = stored
    /\ argv' = parse(stored)
    /\ called' \in IF Len(parse(stored)) <= MAXARGS THEN {runcmd(parse(stored))} ELSE commands \cup {NoCommand}
    /\ stored' = <<>> /\ row' = <<>>
    /\ UNCHANGED <<main, handler, is_panic, intr>>

Kmonitor == \E c \in Typed : ReadChar(c) \/ ReadBackspace(c) \/ ReadOther(c) \/ RunLine(c)

MonNext == Interrupted \/ Return \/ PanicFirst \/ PanicAgain \/ PanicDead \/ Kmonitor

(* A handler ends, by iret or by a panic, and a message is finite (SF:     *)
(* interrupts that come in between do not hold it up for ever).            *)
Handled == handler = "run" /\ (Return \/ PanicFirst \/ PanicAgain)
MonSpec == MonInit /\ [][MonNext]_monitor /\ WF_monitor(Handled) /\ SF_monitor(PanicDead)

-----------------------------------------------------------------------------
(* Properties                                                              *)

(* panic.c, "__panic is called on unresolvable fatal errors ... and then   *)
(* enters the kernel monitor": however it is interrupted, also by another  *)
(* panic while it prints, a panic ends in the monitor, which then has the  *)
(* machine to itself: it never returns and interrupts stay off.            *)
PanicReachesMonitor == is_panic ~> [](Active = "monitor" /\ ~intr)

(* readline.c, kmonitor.c: what stands on the screen behind the prompt is  *)
(* what is run, whatever was taken back and whatever was typed on when the *)
(* line was full: argv has the runs of characters that blanks separate, in *)
(* their order, and unless there are too many, the first of them is called.*)
Begins == {i \in 1 .. Len(last) : ~Gap(last, i) /\ Gap(last, i - 1)}
IsWord(i, j) == i <= j /\ Gap(last, j + 1) /\ \A k \in i .. j : ~Gap(last, k)
LineRun ==
    /\ Len(stored) < BUFSIZE /\ row = stored
    /\ Len(argv) = Cardinality(Begins)
    /\ \A i \in Begins, j \in 1 .. Len(last) :
          IsWord(i, j) => argv[Cardinality({b \in Begins : b <= i})] = SubSeq(last, i, j)
    /\ Len(argv) \in 1 .. MAXARGS => called = IF argv[1] \in commands THEN argv[1] ELSE NoCommand
=============================================================================

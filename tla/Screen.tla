-------------------------------- MODULE Screen --------------------------------
(***************************************************************************)
(* Console output: cons_putc, lpt_putc, cga_putc and serial_putc of        *)
(* kern/driver/console.c, called by the main line and by an interrupt      *)
(* handler.  In lab 2 cons_putc masks interrupts, in lab 1 it does not.    *)
(*                                                                         *)
(* cga_putc is taken apart into its accesses to crt_pos and crt_buf: each  *)
(* of them is a step, an interrupt may come between any two.  A byte of    *)
(* video memory holds a character, without its colour.                     *)
(***************************************************************************)
EXTENDS Integers, Sequences

CONSTANTS
    CRT_ROWS, CRT_COLS,
    PollMax,        \* polls of a port that is not ready before giving up
    MainText,       \* what the main line prints
    Messages,       \* what a handler may print
    MaxArrivals     \* bound: interrupts

CRT_SIZE == CRT_ROWS * CRT_COLS
Cell == 0 .. CRT_SIZE - 1

(* Video memory goes on behind the last row. *)
Video == 0 .. CRT_SIZE + 2 * CRT_COLS

Main == 0
Handler == 1
Context == {Main, Handler}

VARIABLES
    masked,         \* does cons_putc use local_intr_save (lab 2)?
    iflag,          \* FL_IF
    depth,          \* the context that runs
    arrivals,       \* interrupts so far
    text,           \* what each context has yet to print
    todo,           \* the steps left of its cons_putc
    reg,            \* the value of crt_pos it has in a register
    flag,           \* its intr_flag
    polls,          \* its loop counter in lpt_putc_sub or serial_putc_sub
    crt_buf, crt_pos,
    cursor,         \* the cursor the display shows
    shown,          \* what a terminal shows that prints without interruption
    unsent          \* bytes the printer port got and the serial port did not

screen == <<crt_buf, crt_pos, cursor>>
local == <<text, todo, reg, flag, polls>>
vars == <<masked, iflag, depth, arrivals, local, screen, shown, unsent>>

Blank == " "
BS == "BS"          \* \b
NL == "NL"          \* \n
CR == "CR"          \* \r

-----------------------------------------------------------------------------
(* A terminal: a grid of characters that scrolls when the last row is full *)

LineStart(p) == p - (p % CRT_COLS)

(* The rows move up, the last one becomes blank. *)
ScrolledUp(b) ==
    [i \in DOMAIN b |->
        IF i < CRT_SIZE - CRT_COLS THEN b[i + CRT_COLS]
        ELSE IF i < CRT_SIZE THEN Blank ELSE b[i]]

Printed(t, c) ==
    CASE c = BS -> IF t.pos = 0 THEN t
                     ELSE [buf |-> [t.buf EXCEPT ![t.pos - 1] = Blank], pos |-> t.pos - 1]
      [] c = NL -> [t EXCEPT !.pos = LineStart(@ + CRT_COLS)]
      [] c = CR -> [t EXCEPT !.pos = LineStart(@)]
      [] OTHER    -> [buf |-> [t.buf EXCEPT ![t.pos] = c], pos |-> t.pos + 1]

TerminalPut(t, c) ==
    LET p == Printed(t, c) IN
    IF p.pos < CRT_SIZE THEN p
    ELSE [buf |-> ScrolledUp(p.buf), pos |-> p.pos - CRT_COLS]

-----------------------------------------------------------------------------
(* The bytes a port gets for a character: a backspace also wipes out. *)
PortBytes(c) == IF c = BS THEN <<BS, Blank, BS>> ELSE <<c>>

ToPort(port, c) == [i \in 1 .. Len(PortBytes(c)) |-> <<port, PortBytes(c)[i]>>]

(* The section begins after the printer port. *)
PutcMaskedLate(m, c) ==
    ToPort("lpt", c) \o (IF m THEN << <<"save">> >> ELSE <<>>)
        \o << <<"cga", c>> >> \o ToPort("serial", c)
        \o (IF m THEN << <<"restore">> >> ELSE <<>>)

(* Without a section, whatever the kernel. *)
PutcUnmasked(m, c) == ToPort("lpt", c) \o << <<"cga", c>> >> \o ToPort("serial", c)

(* cons_putc *)
Putc(m, c) ==
    (IF m THEN << <<"save">> >> ELSE <<>>)
        \o ToPort("lpt", c) \o << <<"cga", c>> >> \o ToPort("serial", c)
        \o (IF m THEN << <<"restore">> >> ELSE <<>>)

(* The switch of cga_putc, as accesses to crt_pos and crt_buf.  The two    *)
(* stores of crt_buf[crt_pos ++] = c come in the order the compiler likes. *)
CgaSteps(c) ==
    CASE c = BS -> {IF crt_pos > 0 THEN << <<"load">>, <<"dec">>, <<"blank">> >> ELSE <<>>}
      [] c = NL -> {<< <<"load">>, <<"down">>, <<"load">>, <<"column">>, <<"home">> >>}
      [] c = CR -> {<< <<"load">>, <<"column">>, <<"home">> >>}
      [] OTHER    -> {<< <<"load">>, <<"inc">>, <<"write", c>> >>,
                      << <<"load">>, <<"write", c>>, <<"inc">> >>}

Init ==
    /\ masked \in BOOLEAN
    /\ iflag = TRUE
    /\ depth = Main
    /\ arrivals = 0
    /\ text = [c \in Context |-> IF c = Main THEN MainText ELSE <<>>]
    /\ todo = [c \in Context |-> <<>>]
    /\ reg = [c \in Context |-> 0]
    /\ flag = [c \in Context |-> FALSE]
    /\ polls = [c \in Context |-> 0]
    /\ crt_buf = [i \in Video |-> Blank]
    /\ crt_pos \in Cell
    /\ cursor = crt_pos
    /\ shown = [buf |-> [i \in Cell |-> Blank], pos |-> crt_pos]
    /\ unsent = <<>>

-----------------------------------------------------------------------------
(* Steps of the running context                                            *)

Rest == Tail(todo[depth])
Now(op) == todo[depth] # <<>> /\ Head(todo[depth])[1] = op
Operand == Head(todo[depth])[2]
Done == todo' = [todo EXCEPT ![depth] = Rest]
Continue(steps) == todo' = [todo EXCEPT ![depth] = steps \o Rest]

(* cprintf comes to its next character. *)
NextChar ==
    /\ todo[depth] = <<>> /\ text[depth] # <<>>
    /\ todo' = [todo EXCEPT ![depth] = Putc(masked, Head(text[depth]))]
    /\ text' = [text EXCEPT ![depth] = Tail(@)]
    /\ UNCHANGED <<masked, iflag, depth, arrivals, reg, flag, polls, screen, shown, unsent>>

(* local_intr_save *)
Save ==
    /\ Now("save") /\ Done
    /\ flag' = [flag EXCEPT ![depth] = iflag]
    /\ iflag' = FALSE
    /\ UNCHANGED <<masked, depth, arrivals, text, reg, polls, screen, shown, unsent>>

(* local_intr_restore *)
Restore ==
    /\ Now("restore") /\ Done
    /\ iflag' = (flag[depth] \/ iflag)
    /\ UNCHANGED <<masked, depth, arrivals, text, reg, flag, polls, screen, shown, unsent>>

(* The counter is too narrow for its bound and wraps around. *)
PortWaitForever ==
    /\ Now("lpt") \/ Now("serial")
    /\ polls' = [polls EXCEPT ![depth] = (@ + 1) % (PollMax + 1)]
    /\ UNCHANGED <<masked, iflag, depth, arrivals, text, todo, reg, flag, screen, shown, unsent>>

(* The loops of lpt_putc_sub and serial_putc_sub: the port is not ready. *)
PortWait ==
    /\ Now("lpt") \/ Now("serial")
    /\ polls[depth] < PollMax
    /\ polls' = [polls EXCEPT ![depth] = @ + 1]
    /\ UNCHANGED <<masked, iflag, depth, arrivals, text, todo, reg, flag, screen, shown, unsent>>

(* The port is ready, or has not been for too long. *)
LptSend ==
    /\ Now("lpt") /\ Done
    /\ polls' = [polls EXCEPT ![depth] = 0]
    /\ unsent' = Append(unsent, Operand)
    /\ UNCHANGED <<masked, iflag, depth, arrivals, text, reg, flag, screen, shown>>

SerialSend ==
    /\ Now("serial") /\ Done
    /\ polls' = [polls EXCEPT ![depth] = 0]
    /\ unsent' = IF unsent = <<>> THEN unsent ELSE Tail(unsent)
    /\ UNCHANGED <<masked, iflag, depth, arrivals, text, reg, flag, screen, shown>>

(* cga_putc begins. *)
CgaPutc ==
    /\ Now("cga")
    /\ \E steps \in CgaSteps(Operand) : Continue(steps \o << <<"check">>, <<"cursor">> >>)
    /\ shown' = TerminalPut(shown, Operand)
    /\ UNCHANGED <<masked, iflag, depth, arrivals, text, reg, flag, polls, screen, unsent>>

(* crt_pos is read, for the second time in crt_pos -= crt_pos % CRT_COLS.   *)
Load ==
    /\ \/ Now("load") /\ reg' = [reg EXCEPT ![depth] = crt_pos]
       \/ Now("column") /\ reg' = [reg EXCEPT ![depth] = @ - (crt_pos % CRT_COLS)]
    /\ Done
    /\ UNCHANGED <<masked, iflag, depth, arrivals, text, flag, polls, screen, shown, unsent>>

(* A value computed from the register goes back to crt_pos. *)
StorePos ==
    /\ \/ Now("dec") /\ crt_pos' = reg[depth] - 1
       \/ Now("inc") /\ crt_pos' = reg[depth] + 1
       \/ Now("down") /\ crt_pos' = reg[depth] + CRT_COLS
       \/ Now("home") /\ crt_pos' = reg[depth]
       \/ Now("up") /\ crt_pos' = reg[depth] - CRT_COLS
    /\ Done
    /\ UNCHANGED <<masked, iflag, depth, arrivals, text, reg, flag, polls, crt_buf, cursor,
                   shown, unsent>>

StoreChar ==
    /\ \/ Now("write") /\ crt_buf' = [crt_buf EXCEPT ![reg[depth]] = Operand]
       \/ Now("blank") /\ crt_buf' = [crt_buf EXCEPT ![crt_pos] = Blank]
    /\ Done
    /\ UNCHANGED <<masked, iflag, depth, arrivals, text, reg, flag, polls, crt_pos, cursor,
                   shown, unsent>>

ScrollSteps == << <<"move">>, <<"clear">>, <<"load">>, <<"up">> >>

(* Is the screen full? *)
Check ==
    /\ Now("check")
    /\ Continue(IF crt_pos >= CRT_SIZE THEN ScrollSteps ELSE <<>>)
    /\ UNCHANGED <<masked, iflag, depth, arrivals, text, reg, flag, polls, screen, shown, unsent>>

(* The memmove, and the loop that blanks the last row. *)
Scroll ==
    /\ \/ /\ Now("move")
          /\ crt_buf' = [i \in Video |-> IF i < CRT_SIZE - CRT_COLS THEN crt_buf[i + CRT_COLS]
                                         ELSE crt_buf[i]]
       \/ /\ Now("clear")
          /\ crt_buf' = [i \in Video |-> IF i \in CRT_SIZE - CRT_COLS .. CRT_SIZE - 1 THEN Blank
                                         ELSE crt_buf[i]]
    /\ Done
    /\ UNCHANGED <<masked, iflag, depth, arrivals, text, reg, flag, polls, crt_pos, cursor,
                   shown, unsent>>

(* The four outb at the end, which tell the display where crt_pos is.  In  *)
(* lab 1 a handler may come between them and the cursor be left elsewhere: *)
(* they are one step here, so nothing is stated of the cursor there.       *)
SetCursor ==
    /\ Now("cursor") /\ Done
    /\ cursor' = crt_pos
    /\ UNCHANGED <<masked, iflag, depth, arrivals, text, reg, flag, polls, crt_buf, crt_pos,
                   shown, unsent>>

(* The handler of an interrupt starts, and returns. *)
Interrupt ==
    /\ iflag /\ depth = Main /\ arrivals < MaxArrivals
    /\ depth' = Handler
    /\ iflag' = FALSE
    /\ arrivals' = arrivals + 1
    /\ \E message \in Messages : text' = [text EXCEPT ![Handler] = message]
    /\ UNCHANGED <<masked, todo, reg, flag, polls, screen, shown, unsent>>

Iret ==
    /\ depth = Handler /\ todo[Handler] = <<>> /\ text[Handler] = <<>>
    /\ depth' = Main
    /\ iflag' = TRUE
    /\ UNCHANGED <<masked, arrivals, local, screen, shown, unsent>>

Kernel ==
    \/ NextChar \/ Save \/ Restore
    \/ PortWait \/ LptSend \/ SerialSend
    \/ CgaPutc \/ Load \/ StorePos \/ StoreChar \/ Check \/ Scroll \/ SetCursor
    \/ Iret

Next == Kernel \/ Interrupt

(* The processor runs. *)
Spec == Init /\ [][Next]_vars /\ WF_vars(Kernel)

-----------------------------------------------------------------------------
(* Properties                                                              *)

Op == {"save", "restore", "lpt", "serial", "cga", "load", "dec", "inc", "down", "column", "home", "up",
       "write", "blank", "check", "move", "clear", "cursor"}

(* The values the variables take; all accesses to crt_buf stay in video    *)
(* memory.                                                                 *)
TypeOK ==
    /\ masked \in BOOLEAN /\ iflag \in BOOLEAN
    /\ depth \in Context
    /\ \A c \in Context : \A i \in 1 .. Len(todo[c]) : todo[c][i][1] \in Op
    /\ \A c \in Context : reg[c] \in Video /\ flag[c] \in BOOLEAN /\ polls[c] \in 0 .. PollMax
    /\ crt_pos \in Video /\ cursor \in Video
    /\ DOMAIN crt_buf = Video

(* A context is within cga_putc. *)
InCga(c) ==
    /\ todo[c] # <<>>
    /\ Head(todo[c])[1] \notin {"save", "restore", "lpt", "cga", "serial"}

Settled == \A c \in Context : ~InCga(c)

(* cga_putc: however calls interrupt each other, outside of them the       *)
(* position is on the screen; and in lab 2 the cursor is there and the     *)
(* screen is what all characters printed so far leave on a terminal, one   *)
(* after the other, whoever printed them.                                  *)
ScreenKept ==
    Settled =>
        /\ crt_pos \in Cell
        /\ masked => /\ cursor = crt_pos /\ crt_pos = shown.pos
                     /\ \A i \in Cell : crt_buf[i] = shown.buf[i]

(* cons_putc, lab 2: the serial port gets what the printer port got, in    *)
(* the same order.                                                         *)
PortsAgree ==
    [][masked /\ SerialSend => unsent # <<>> /\ Head(unsent) = Operand]_vars

(* lpt_putc_sub and serial_putc_sub: cons_putc returns, also if a port is  *)
(* never ready.                                                            *)
PutcReturns == \A c \in Context : todo[c] # <<>> ~> todo[c] = <<>>
=============================================================================

----------------------------- MODULE ConsoleInput -----------------------------
(***************************************************************************)
(* Console input: cons_intr, serial_intr, kbd_intr and cons_getc of        *)
(* kern/driver/console.c, with their callers: kbd_init, the serial and     *)
(* keyboard cases of trap_dispatch, and the kernel monitor, which polls    *)
(* with interrupts off after a panic.                                      *)
(*                                                                         *)
(* Every caller of cons_getc has interrupts off, so there is one reader at *)
(* a time; the devices go on while it reads.  What a device delivers is a  *)
(* character or a code that makes none (see Keyboard).  The devices and    *)
(* the controllers' latches are external.                                  *)
(***************************************************************************)
EXTENDS Integers, Sequences

CONSTANTS
    Char,           \* characters
    CONSBUFSIZE,
    KeyQueue,       \* codes the keyboard stores
    TypeAhead       \* bound: characters delivered and not yet taken

ASSUME SizeAssumption == CONSBUFSIZE \in Nat \ {0} /\ KeyQueue \in Nat \ {0}

(* Nobody types so far ahead that the ring fills up: it has no test for it. *)
ASSUME TypeAheadAssumption == TypeAhead \in Nat /\ TypeAhead < CONSBUFSIZE

CONSTANT None       \* a code that makes no character
ASSUME NoneAssumption == None \notin Char

Datum == Char \cup {None}
Kbd == "kbd"
Com1 == "serial"
Device == {Kbd, Com1}

VARIABLES
    stage,          \* "boot", "booted" (cons_init done), "up", "monitor"
    serial_exists,
    data,           \* what each device has to deliver, the oldest first
    irr,            \* requests latched in the interrupt controller
    forgotten,      \* devices whose request pic_init has dropped
    doing,          \* what is left of the running call
    buf, rpos, wpos,    \* cons
    waiting         \* the characters read and not taken, in order

ring == <<buf, rpos, wpos>>
input == <<stage, serial_exists, data, irr, forgotten, doing, ring, waiting>>

Index == 0 .. CONSBUFSIZE - 1

(* cons is static: zero. *)
InputInit ==
    /\ stage = "boot"
    /\ serial_exists \in BOOLEAN
    /\ data = [d \in Device |-> <<>>]
    /\ irr = {}
    /\ forgotten = {}
    /\ doing = <<>>
    /\ buf = [i \in Index |-> None] /\ rpos = 0 /\ wpos = 0
    /\ waiting = <<>>

-----------------------------------------------------------------------------
(* Devices                                                                 *)

(* Characters that are on their way. *)
Ahead == Len(data[Kbd]) + Len(data[Com1]) + Len(waiting)

(* A key is pressed or released, the keyboard has room for the code.  Its  *)
(* output goes up if there was nothing.                                    *)
Key(x) ==
    /\ Ahead < TypeAhead /\ Len(data[Kbd]) < KeyQueue
    /\ data' = [data EXCEPT ![Kbd] = Append(@, x)]
    /\ irr' = IF data[Kbd] = <<>> THEN irr \cup {Kbd} ELSE irr
    /\ UNCHANGED <<stage, serial_exists, forgotten, doing, ring, waiting>>

(* The serial port keeps one character: a new one replaces it. *)
Receive(x) ==
    /\ serial_exists /\ Ahead < TypeAhead
    /\ data' = [data EXCEPT ![Com1] = <<x>>]
    /\ irr' = IF data[Com1] = <<>> THEN irr \cup {Com1} ELSE irr
    /\ UNCHANGED <<stage, serial_exists, forgotten, doing, ring, waiting>>

Typing == (\E x \in Datum : Key(x)) \/ (\E x \in Char : Receive(x))

-----------------------------------------------------------------------------
(* The reader                                                              *)

Getc == <<Com1, Kbd, "take">>
Due(step) == doing # <<>> /\ Head(doing) = step

(* The index wraps around one too late. *)
WrapLate(i) == IF i = CONSBUFSIZE THEN 0 ELSE i + 1

Next1(i) == IF i + 1 = CONSBUFSIZE THEN 0 ELSE i + 1

(* cons_intr: what serial_proc_data or kbd_proc_data returned. *)
Store(x) ==
    IF x = None
    THEN UNCHANGED <<ring, waiting>>
    ELSE /\ buf' = [buf EXCEPT ![wpos] = x]
         /\ wpos' = Next1(wpos)
         /\ rpos' = rpos
         /\ waiting' = Append(waiting, x)

(* One turn of the loop of cons_intr.  A keyboard that has another code    *)
(* makes a new request.                                                    *)
Drain(d) ==
    /\ Due(d) /\ data[d] # <<>>
    /\ data' = [data EXCEPT ![d] = Tail(@)]
    /\ irr' = IF data'[d] # <<>> THEN irr \cup {d} ELSE irr
    /\ Store(Head(data[d]))
    /\ UNCHANGED <<stage, serial_exists, forgotten, doing>>

(* There is no more. *)
Drained(d) ==
    /\ Due(d) /\ data[d] = <<>>
    /\ doing' = Tail(doing)
    /\ forgotten' = forgotten \ {d}
    /\ UNCHANGED <<stage, serial_exists, data, irr, ring, waiting>>

(* cons_getc takes the oldest character, if there is one. *)
Take ==
    /\ Due("take")
    /\ doing' = Tail(doing)
    /\ IF rpos # wpos
       THEN rpos' = Next1(rpos) /\ waiting' = Tail(waiting)
       ELSE UNCHANGED <<rpos, waiting>>
    /\ UNCHANGED <<stage, serial_exists, data, irr, forgotten, buf, wpos>>

-----------------------------------------------------------------------------
(* Its callers                                                             *)

(* serial_init empties the receiver; kbd_init reads what the keyboard has. *)
ConsInit ==
    /\ stage = "boot" /\ doing = <<>>
    /\ data' = [data EXCEPT ![Com1] = <<>>]
    /\ stage' = "booted"
    /\ doing' = <<Kbd>>
    /\ UNCHANGED <<serial_exists, irr, forgotten, ring, waiting>>

(* pic_init drops requests; then kern_init sets interrupts on. *)
PicInit ==
    /\ stage = "booted" /\ doing = <<>>
    /\ irr' = {}
    /\ forgotten' = {d \in Device : data[d] # <<>>}
    /\ stage' = "up"
    /\ UNCHANGED <<serial_exists, data, doing, ring, waiting>>

(* What the ring has is handed out without a look at the devices. *)
ConsIrqLazy(d) ==
    /\ stage = "up" /\ doing = <<>> /\ d \in irr
    /\ irr' = irr \ {d}
    /\ doing' = IF rpos # wpos THEN <<"take">> ELSE Getc
    /\ UNCHANGED <<stage, serial_exists, data, forgotten, ring, waiting>>

(* The serial and keyboard cases of trap_dispatch: one cons_getc. *)
ConsIrq(d) ==
    /\ stage = "up" /\ doing = <<>> /\ d \in irr
    /\ irr' = irr \ {d}
    /\ doing' = Getc
    /\ UNCHANGED <<stage, serial_exists, data, forgotten, ring, waiting>>

(* __panic outside of the console: interrupts off, for good. *)
Panic ==
    /\ stage \in {"booted", "up"} /\ doing = <<>>
    /\ stage' = "monitor"
    /\ UNCHANGED <<serial_exists, data, irr, forgotten, doing, ring, waiting>>

(* getchar in readline: cons_getc over and over. *)
Poll ==
    /\ stage = "monitor" /\ doing = <<>>
    /\ doing' = Getc
    /\ UNCHANGED <<stage, serial_exists, data, irr, forgotten, ring, waiting>>

Reader ==
    \/ \E d \in Device : Drain(d) \/ Drained(d) \/ ConsIrq(d)
    \/ Take \/ ConsInit \/ PicInit \/ Poll

InputNext == Typing \/ Reader \/ Panic

(* The processor runs. *)
Fairness == WF_input(Reader)
InputSpec == InputInit /\ [][InputNext]_input /\ Fairness

(* Nobody touches a key before the kernel is up. *)
NextAfterBoot == (stage = "up" /\ Typing) \/ Reader \/ Panic
SpecAfterBoot == InputInit /\ [][NextAfterBoot]_input

-----------------------------------------------------------------------------
(* Properties                                                              *)

InputTypeOK ==
    /\ stage \in {"boot", "booted", "up", "monitor"}
    /\ serial_exists \in BOOLEAN
    /\ \A d \in Device : \A i \in 1 .. Len(data[d]) : data[d][i] \in Datum
    /\ Len(data[Kbd]) <= KeyQueue /\ Len(data[Com1]) <= 1
    /\ irr \in SUBSET Device /\ forgotten \in SUBSET Device
    /\ buf \in [Index -> Datum] /\ rpos \in Index /\ wpos \in Index
    /\ Len(waiting) <= TypeAhead

(* cons: as long as nobody types too far ahead, the ring is a queue: from  *)
(* rpos to wpos it holds the characters read and not taken, in order.      *)
RingIsQueue ==
    /\ (wpos - rpos) % CONSBUFSIZE = Len(waiting)
    /\ \A i \in 1 .. Len(waiting) :
           buf[(rpos + i - 1) % CONSBUFSIZE] = waiting[i]

(* cons_intr and cons_getc: when typing pauses, a device with something to *)
(* deliver is emptied, by interrupts when the kernel is up (unless         *)
(* pic_init dropped its request); in the monitor, where there are no       *)
(* interrupts, the devices are emptied all the same and all is read.       *)
InputServed ==
    \/ []<><<Typing>>_input
    \/ /\ \A d \in Device :
              (stage = "up" /\ d \notin forgotten /\ data[d] # <<>>) ~> (data[d] = <<>>)
       /\ (stage = "monitor") ~> (waiting = <<>> /\ \A d \in Device : data[d] = <<>>)

(* What lab 1 promises of the handlers, keys pressed are shown: nothing is *)
(* left in the ring or at a device when no request is pending.             *)
KeysShown ==
    stage = "up" /\ doing = <<>> /\ irr = {} =>
        waiting = <<>> /\ \A d \in Device : data[d] = <<>>
=============================================================================

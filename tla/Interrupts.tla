------------------------------ MODULE Interrupts ------------------------------
(***************************************************************************)
(* Interrupt masking, the interrupt controllers and the clock: kern_init   *)
(* of kern/init/init.c, kern/driver/picirq.c, intr.c and clock.c,          *)
(* kern/sync/sync.h and the interrupt cases of kern/trap/trap.c.           *)
(*                                                                         *)
(* One processor runs the main line (context 0) and, above it, the         *)
(* handlers of the interrupts it accepted (contexts 1 .. depth); only the  *)
(* topmost context runs.  What a context does between local_intr_save and  *)
(* local_intr_restore (a call of a page manager, cons_putc, cons_getc) is  *)
(* left out: that nothing else runs meanwhile is what is to be shown.      *)
(* The devices, the controllers' latches and the processor are external.   *)
(***************************************************************************)
EXTENDS Integers

CONSTANTS
    TICK_NUM,       \* ticks between two reports
    TickSize,       \* ticks is unsigned: it counts modulo this
    MaxDepth,       \* bound: handlers suspended or running at a time
    MaxNest         \* bound: masked sections one context has open

ASSUME TickAssumption == TICK_NUM \in Nat \ {0} /\ TickSize \in Nat \ {0}
ASSUME BoundAssumption == MaxDepth \in Nat \ {0} /\ MaxNest \in Nat \ {0}

IRQ_TIMER == 0
IRQ_KBD == 1
IRQ_SLAVE == 2
IRQ_COM1 == 4
Done == 16          \* no line: the handler has done its work
Line == {IRQ_TIMER, IRQ_KBD, IRQ_SLAVE, IRQ_COM1}

Context == 0 .. MaxDepth
Section == 0 .. MaxNest - 1

VARIABLES
    pc,             \* what kern_init does next
    iflag,          \* FL_IF of the processor
    irq_mask,       \* the driver's copy of the mask: lines that are closed
    did_init,       \* has pic_init run?
    imr,            \* the mask in the controllers
    irr,            \* requests the controllers have latched
    idt,            \* has the processor a table of handlers?
    serial_exists,
    depth,          \* the context that runs
    serving,        \* what each handler still has to do: a line, or Done
    nest,           \* open masked sections of each context
    flag,           \* intr_flag of each section: the state to go back to
    ticks,
    since           \* clock interrupts since the last report

boot == <<pc, irq_mask, did_init, imr, idt, serial_exists>>
contexts == <<depth, serving, nest, flag>>
clock == <<ticks, since>>
vars == <<boot, iflag, irr, contexts, clock>>

Statement == {"serial_init", "kbd_init", "pic_init", "idt_init", "clock_init",
              "intr_enable", "idle"}

(* The boot loader has interrupts off; the BIOS leaves the controllers in  *)
(* any state.                                                              *)
Init ==
    /\ pc = "serial_init"
    /\ iflag = FALSE
    /\ irq_mask = Line \ {IRQ_SLAVE}
    /\ did_init = FALSE
    /\ imr \in SUBSET Line
    /\ irr = {}
    /\ idt = FALSE
    /\ serial_exists = FALSE
    /\ depth = 0
    /\ serving = [c \in Context |-> Done]
    /\ nest = [c \in Context |-> 0]
    /\ flag = [c \in Context |-> [s \in Section |-> FALSE]]
    /\ ticks = 0
    /\ since = 0

-----------------------------------------------------------------------------
(* The processor looks for requests between any two instructions: a        *)
(* context takes a step only when there is none it would accept.           *)
Acceptable == IF iflag THEN irr \ imr ELSE {}
Runs == Acceptable = {}

(* kern_init is at s, with no section open and no handler running. *)
At(s) == pc = s /\ depth = 0 /\ nest[0] = 0 /\ Runs

-----------------------------------------------------------------------------
(* kern_init                                                               *)

(* pic_setmask: before pic_init only the copy changes. *)
SetMask(mask) ==
    /\ irq_mask' = mask
    /\ imr' = IF did_init THEN mask ELSE imr

PicEnable(irq) == SetMask(irq_mask \ {irq})

(* serial_init: the line is opened if there is a port. *)
SerialInit ==
    /\ At("serial_init")
    /\ serial_exists' \in BOOLEAN
    /\ IF serial_exists' THEN PicEnable(IRQ_COM1) ELSE UNCHANGED <<irq_mask, imr>>
    /\ pc' = "kbd_init"
    /\ UNCHANGED <<did_init, idt, iflag, irr, contexts, clock>>

KbdInit ==
    /\ At("kbd_init")
    /\ PicEnable(IRQ_KBD)
    /\ pc' = "pic_init"
    /\ UNCHANGED <<did_init, idt, serial_exists, iflag, irr, contexts, clock>>

(* The mask asked for before is not given to the controllers. *)
PicInitForgetful ==
    /\ At("pic_init")
    /\ did_init' = TRUE
    /\ imr' = Line
    /\ irr' = {}
    /\ pc' = "idt_init"
    /\ UNCHANGED <<irq_mask, idt, serial_exists, iflag, contexts, clock>>

(* pic_init: everything masked, the controllers reset (which drops latched *)
(* requests), then the mask the drivers asked for.                         *)
PicInit ==
    /\ At("pic_init")
    /\ did_init' = TRUE
    /\ imr' = irq_mask
    /\ irr' = {}
    /\ pc' = "idt_init"
    /\ UNCHANGED <<irq_mask, idt, serial_exists, iflag, contexts, clock>>

(* idt_init: every vector gets an interrupt gate. *)
IdtInit ==
    /\ At("idt_init")
    /\ idt' = TRUE
    /\ pc' = "clock_init"
    /\ UNCHANGED <<irq_mask, did_init, imr, serial_exists, iflag, irr, contexts, clock>>

ClockInit ==
    /\ At("clock_init")
    /\ ticks' = 0
    /\ PicEnable(IRQ_TIMER)
    /\ pc' = "intr_enable"
    /\ UNCHANGED <<did_init, idt, serial_exists, iflag, irr, contexts, since>>

IntrEnable ==
    /\ At("intr_enable")
    /\ iflag' = TRUE
    /\ pc' = "idle"
    /\ UNCHANGED <<irq_mask, did_init, imr, idt, serial_exists, irr, contexts, clock>>

KernInit == SerialInit \/ KbdInit \/ PicInit \/ IdtInit \/ ClockInit \/ IntrEnable

-----------------------------------------------------------------------------
(* Masked sections                                                         *)

(* local_intr_save *)
Save ==
    /\ Runs /\ nest[depth] < MaxNest
    /\ flag' = [flag EXCEPT ![depth][nest[depth]] = iflag]
    /\ nest' = [nest EXCEPT ![depth] = @ + 1]
    /\ iflag' = FALSE
    /\ UNCHANGED <<boot, irr, depth, serving, clock>>

(* Interrupts are on after every section. *)
RestoreAlways ==
    /\ Runs /\ nest[depth] > 0
    /\ nest' = [nest EXCEPT ![depth] = @ - 1]
    /\ iflag' = TRUE
    /\ UNCHANGED <<boot, irr, depth, serving, flag, clock>>

(* Interrupts stay off. *)
RestoreNever ==
    /\ Runs /\ nest[depth] > 0
    /\ nest' = [nest EXCEPT ![depth] = @ - 1]
    /\ UNCHANGED <<boot, iflag, irr, depth, serving, flag, clock>>

(* local_intr_restore *)
Restore ==
    /\ Runs /\ nest[depth] > 0
    /\ nest' = [nest EXCEPT ![depth] = @ - 1]
    /\ iflag' = (flag[depth][nest[depth] - 1] \/ iflag)
    /\ UNCHANGED <<boot, irr, depth, serving, flag, clock>>

-----------------------------------------------------------------------------
(* Interrupts                                                              *)

(* A device asks for an interrupt; the controllers latch the edge. *)
Raise(irq) ==
    /\ irr' = irr \cup {irq}
    /\ UNCHANGED <<boot, iflag, contexts, clock>>

(* The processor goes through an interrupt gate, which clears IF; the      *)
(* controllers end the interrupt by themselves (automatic EOI).            *)
Accept(irq) ==
    /\ irq \in Acceptable
    /\ depth < MaxDepth
    /\ depth' = depth + 1
    /\ serving' = [serving EXCEPT ![depth + 1] = irq]
    /\ nest' = [nest EXCEPT ![depth + 1] = 0]
    /\ iflag' = FALSE
    /\ irr' = irr \ {irq}
    /\ UNCHANGED <<boot, flag, clock>>

(* The report comes with the wrong tick. *)
TickEarly ==
    /\ Runs /\ serving[depth] = IRQ_TIMER
    /\ serving' = [serving EXCEPT ![depth] = Done]
    /\ ticks' = (ticks + 1) % TickSize
    /\ since' = IF ticks' % TICK_NUM = TICK_NUM - 1 THEN 0 ELSE since + 1
    /\ UNCHANGED <<boot, iflag, irr, depth, nest, flag>>

(* The timer case of trap_dispatch; print_ticks uses masked sections. *)
Tick ==
    /\ Runs /\ serving[depth] = IRQ_TIMER
    /\ serving' = [serving EXCEPT ![depth] = Done]
    /\ ticks' = (ticks + 1) % TickSize
    /\ since' = IF ticks' % TICK_NUM = 0 THEN 0 ELSE since + 1
    /\ UNCHANGED <<boot, iflag, irr, depth, nest, flag>>

(* The serial and keyboard cases: cons_getc and cprintf, whose effect is   *)
(* in masked sections.                                                     *)
GetChar ==
    /\ Runs /\ serving[depth] \in {IRQ_COM1, IRQ_KBD}
    /\ serving' = [serving EXCEPT ![depth] = Done]
    /\ UNCHANGED <<boot, iflag, irr, depth, nest, flag, clock>>

(* The flags of the interrupted context are not restored. *)
IretMasked ==
    /\ Runs /\ depth > 0 /\ serving[depth] = Done /\ nest[depth] = 0
    /\ depth' = depth - 1
    /\ UNCHANGED <<boot, iflag, irr, serving, nest, flag, clock>>

(* __trapret: iret restores the flags of the interrupted context, which    *)
(* had interrupts on.                                                      *)
Iret ==
    /\ Runs /\ depth > 0 /\ serving[depth] = Done /\ nest[depth] = 0
    /\ depth' = depth - 1
    /\ iflag' = TRUE
    /\ UNCHANGED <<boot, irr, serving, nest, flag, clock>>

Device == {IRQ_TIMER, IRQ_KBD, IRQ_COM1}

Next ==
    \/ KernInit
    \/ Save \/ Restore
    \/ Tick \/ GetChar \/ Iret
    \/ \E irq \in Device : Raise(irq) \/ Accept(irq)

(* kern_init and the handlers are finite programs; masked sections end,    *)
(* also the outermost around nested ones.                                  *)
(* The main line and a handler open finitely many sections, so kern_init   *)
(* goes on and a handler reaches its iret (SF).                            *)
(* A clock tick comes every 10 ms and its handler is over long before: the *)
(* other lines get their turn (SF).                                        *)
Fairness ==
    /\ SF_vars(KernInit)
    /\ WF_vars(Restore) /\ SF_vars(nest[depth] = 1 /\ Restore)
    /\ WF_vars(Tick) /\ WF_vars(GetChar)
    /\ SF_vars(Iret)
    /\ \A irq \in Device : SF_vars(Accept(irq))

Spec == Init /\ [][Next]_vars
FairSpec == Spec /\ Fairness
-----------------------------------------------------------------------------
(* Properties                                                              *)

(* The values the variables take; in particular ticks stays in its width. *)
TypeOK ==
    /\ pc \in Statement
    /\ iflag \in BOOLEAN /\ did_init \in BOOLEAN /\ idt \in BOOLEAN
    /\ serial_exists \in BOOLEAN
    /\ irq_mask \in SUBSET Line /\ imr \in SUBSET Line /\ irr \in SUBSET Device
    /\ depth \in Context
    /\ serving \in [Context -> Device \cup {Done}]
    /\ nest \in [Context -> 0 .. MaxNest]
    /\ flag \in [Context -> [Section -> BOOLEAN]]
    /\ ticks \in 0 .. TickSize - 1
    /\ since \in Nat

(* sync.h: what runs between local_intr_save and local_intr_restore is     *)
(* never interrupted, also when sections are nested and in handlers, and   *)
(* handlers do not interrupt each other.                                   *)
SectionsAlone ==
    /\ depth <= 1
    /\ \A c \in Context : c < depth => nest[c] = 0

(* kern_init: interrupts are not on before the controllers use the vectors *)
(* at IRQ_OFFSET and the processor has handlers for them.                  *)
VectorsReady == iflag => did_init /\ idt

(* picirq.c: lines opened before pic_init are still open when the kernel   *)
(* is up, a missing serial port's line is closed, and the controllers have *)
(* the driver's mask.                                                      *)
LinesOpen ==
    /\ did_init => imr = irq_mask
    /\ pc = "idle" =>
        imr = IF serial_exists THEN {} ELSE {IRQ_COM1}

(* sync.h: however sections and handlers were nested, interrupts are on    *)
(* again when the main line is outside of all sections.                    *)
EnabledAtRest == pc = "idle" /\ depth = 0 /\ nest[0] = 0 => iflag

(* trap.c, print_ticks: there is a report at least every TICK_NUM ticks,   *)
(* also where the counter wraps around.                                    *)
ReportsInTime == since < TICK_NUM

(* A request on an open line is served, once the kernel is up. *)
RequestServed ==
    \A irq \in Device : (pc = "idle" /\ irq \in irr \ imr) ~> (irq \notin irr)
=============================================================================

----------------------------- MODULE ModeSwitch -----------------------------
(***************************************************************************)
(* The switch between kernel and user mode in lab 1: lab1_switch_test of   *)
(* kern/init/init.c, and the traps it goes through: kern/trap/trap.c and   *)
(* trapentry.S.                                                            *)
(*                                                                         *)
(* Memory is the main stack, the stack for traps out of user mode (stack0) *)
(* and the static frame switchk2u, word by word.  A program is a sequence  *)
(* of instructions and eip an index of it.  A handler runs with interrupts *)
(* off (every gate is an interrupt gate), so a trap with its handler and   *)
(* its iret is one step.  The processor is external.                       *)
(***************************************************************************)
EXTENDS Integers, Sequences

KERNEL_CS == 8
KERNEL_DS == 16
USER_CS == 27
USER_DS == 35
FL_IOPL_MASK == 3
DPL_KERNEL == 0
DPL_USER == 3

T_GPFLT == 13
IRQ_KBD == 33       \* IRQ_OFFSET + IRQ_KBD
T_SWITCH_TOU == 120
T_SWITCH_TOK == 121

(* The places of the words in a trap frame; a frame of a trap in kernel    *)
(* mode has no esp and no ss.  The general registers count as one word,    *)
(* and so do the segment registers, and the trap number with the error.    *)
tf_regs == 0
tf_ds == 1
tf_trapno == 2
tf_eip == 3
tf_cs == 4
tf_eflags == 5
tf_esp == 6
tf_ss == 7
FrameSize == 8

CONSTANTS
    stacktop,       \* where the main stack begins; it grows down to 0
    esp0,           \* and the stack for traps out of user mode
    switchk2u       \* where the static frame is

Address == 0 .. switchk2u + FrameSize - 1

Program == <<"call lab1_switch_to_user", "call lab1_switch_to_kernel", "idle",
             "sub 8", "int T_SWITCH_TOU", "leave",
             "int T_SWITCH_TOK", "leave">>
Entry == [user |-> 4, kernel |-> 7]

VARIABLES
    mem,
    eip, cs, ds, ss, esp, eflags,
    regs,           \* the general registers, of which ebp matters
    asked           \* the mode the last request asked for

cpu == <<eip, cs, ds, ss, esp, eflags, regs>>
vars == <<mem, cpu, asked>>

Init ==
    /\ mem = [a \in Address |-> 0]
    /\ eip = 1
    /\ cs = KERNEL_CS /\ ds = KERNEL_DS /\ ss = KERNEL_DS
    /\ esp = stacktop /\ regs = stacktop
    /\ eflags = 0
    /\ asked = KERNEL_CS

-----------------------------------------------------------------------------
(* The handlers: what they leave in memory.  The word below a frame is the *)
(* stack pointer that __alltraps pops after the handler.                   *)

(* copy n words, all read before one is written *)
Copied(m, dst, src, n) ==
    [a \in DOMAIN m |-> IF a \in dst .. dst + n - 1 THEN m[src + a - dst] ELSE m[a]]

(* The flags go to the frame on the stack, not to the one that is used. *)
switch_to_user_oldframe(m, tf) ==
    IF m[tf + tf_cs] = USER_CS THEN m
    ELSE [Copied(m, switchk2u, tf, FrameSize) EXCEPT
            ![switchk2u + tf_cs] = USER_CS,
            ![switchk2u + tf_ds] = USER_DS,
            ![switchk2u + tf_ss] = USER_DS,
            ![switchk2u + tf_esp] = tf + FrameSize - 2,
            ![tf + tf_eflags] = FL_IOPL_MASK,
            ![tf - 1] = switchk2u]

(* The copied frame has no stack pointer of its own: user mode goes on on  *)
(* the stack the trap was on.                                              *)
switch_to_user(m, tf) ==
    IF m[tf + tf_cs] = USER_CS THEN m
    ELSE [Copied(m, switchk2u, tf, FrameSize) EXCEPT
            ![switchk2u + tf_cs] = USER_CS,
            ![switchk2u + tf_ds] = USER_DS,
            ![switchk2u + tf_ss] = USER_DS,
            ![switchk2u + tf_esp] = tf + FrameSize - 2,
            ![switchk2u + tf_eflags] = FL_IOPL_MASK,
            ![tf - 1] = switchk2u]

(* The frame stays on the stack of traps out of user mode. *)
switch_to_kernel_inplace(m, tf) ==
    IF m[tf + tf_cs] = KERNEL_CS THEN m
    ELSE [m EXCEPT ![tf + tf_cs] = KERNEL_CS, ![tf + tf_ds] = KERNEL_DS, ![tf + tf_eflags] = 0]

(* The frame, without esp and ss, goes below the user's stack pointer. *)
switch_to_kernel(m, tf) ==
    LET switchu2k == m[tf + tf_esp] - (FrameSize - 2)
        kernel == [m EXCEPT ![tf + tf_cs] = KERNEL_CS, ![tf + tf_ds] = KERNEL_DS,
                            ![tf + tf_eflags] = 0]
    IN  IF m[tf + tf_cs] = KERNEL_CS THEN m
        ELSE [Copied(kernel, switchu2k, tf, FrameSize - 2) EXCEPT ![tf - 1] = switchu2k]

(* c is the key of a keyboard interrupt.  Any other trap out of user mode  *)
(* is passed over; out of kernel mode it would be a panic.                 *)
trap_dispatch(m, tf, c) ==
    CASE m[tf + tf_trapno] = T_SWITCH_TOU -> switch_to_user(m, tf)
      [] m[tf + tf_trapno] = T_SWITCH_TOK -> switch_to_kernel(m, tf)
      [] m[tf + tf_trapno] = IRQ_KBD /\ c = "3" -> switch_to_user(m, tf)
      [] m[tf + tf_trapno] = IRQ_KBD /\ c = "0" -> switch_to_kernel(m, tf)
      [] m[tf + tf_trapno] = IRQ_KBD /\ c \notin {"0", "3"} -> m
      [] m[tf + tf_trapno] = T_GPFLT -> m

-----------------------------------------------------------------------------
(* The gates idt_init makes for int: those of the two switches. *)
GateNoUser(trapno) == DPL_KERNEL

Gate(trapno) == IF trapno = T_SWITCH_TOK THEN DPL_USER ELSE DPL_KERNEL

Ring == cs % 4

(* The frame of a trap: out of user mode on the stack of the task state    *)
(* segment.                                                                *)
TrapFrame == IF Ring = DPL_USER THEN esp0 - FrameSize ELSE esp - (FrameSize - 2)

(* The processor pushes the state, __alltraps the rest. *)
alltraps(tf, trapno, next) ==
    LET pushed == [mem EXCEPT ![tf - 1] = tf, ![tf + tf_regs] = regs, ![tf + tf_ds] = ds,
                              ![tf + tf_trapno] = trapno, ![tf + tf_eip] = next,
                              ![tf + tf_cs] = cs, ![tf + tf_eflags] = eflags]
    IN  IF Ring = DPL_USER THEN [pushed EXCEPT ![tf + tf_esp] = esp, ![tf + tf_ss] = ss]
        ELSE pushed

(* __trapret takes the registers from the frame it finds, iret the rest. *)
trapret(m, frame) ==
    /\ regs' = m[frame + tf_regs] /\ ds' = m[frame + tf_ds]
    /\ eip' = m[frame + tf_eip] /\ cs' = m[frame + tf_cs] /\ eflags' = m[frame + tf_eflags]
    /\ esp' = IF m[frame + tf_cs] = USER_CS THEN m[frame + tf_esp] ELSE frame + FrameSize - 2
    /\ ss' = IF m[frame + tf_cs] = USER_CS THEN m[frame + tf_ss] ELSE KERNEL_DS

(* A trap, with its handler. *)
Trap(trapno, next, c) ==
    LET m == trap_dispatch(alltraps(TrapFrame, trapno, next), TrapFrame, c)
    IN  mem' = m /\ trapret(m, m[TrapFrame - 1])

-----------------------------------------------------------------------------
(* lab1_switch_test                                                        *)

(* call, and the callee's push of ebp and its own frame pointer *)
Call(entry) ==
    /\ mem' = [mem EXCEPT ![esp - 1] = eip + 1, ![esp - 2] = regs]
    /\ esp' = esp - 2 /\ regs' = esp - 2
    /\ eip' = entry
    /\ UNCHANGED <<cs, ds, ss, eflags, asked>>

CallToUser == Program[eip] = "call lab1_switch_to_user" /\ Call(Entry.user)
CallToKernel == Program[eip] = "call lab1_switch_to_kernel" /\ Call(Entry.kernel)

(* Room for the esp and ss that the trap does not push. *)
Sub ==
    /\ Program[eip] = "sub 8"
    /\ esp' = esp - 2
    /\ eip' = eip + 1
    /\ UNCHANGED <<mem, cs, ds, ss, eflags, regs, asked>>

(* int through a gate of a higher privilege is refused: the fault comes at *)
(* the instruction itself.                                                 *)
SoftInt(trapno, mode) ==
    IF Ring <= Gate(trapno) THEN Trap(trapno, eip + 1, "") /\ asked' = mode
    ELSE Trap(T_GPFLT, eip, "") /\ asked' = asked

IntToUser == Program[eip] = "int T_SWITCH_TOU" /\ SoftInt(T_SWITCH_TOU, USER_CS)
IntToKernel == Program[eip] = "int T_SWITCH_TOK" /\ SoftInt(T_SWITCH_TOK, KERNEL_CS)

(* movl %ebp, %esp and the return *)
Leave ==
    /\ Program[eip] = "leave"
    /\ regs' = mem[regs] /\ eip' = mem[regs + 1]
    /\ esp' = regs + 2
    /\ UNCHANGED <<mem, cs, ds, ss, eflags, asked>>

Main == CallToUser \/ CallToKernel \/ Sub \/ IntToUser \/ IntToKernel \/ Leave

(* A key is pressed, between any two instructions. *)
Key(c) ==
    /\ Trap(IRQ_KBD, eip, c)
    /\ asked' = CASE c = "3" -> USER_CS [] c = "0" -> KERNEL_CS [] c \notin {"0", "3"} -> asked

Keys == \E c \in {"0", "3", "a"} : Key(c)

Next == Main \/ Keys

Spec == Init /\ [][Next]_vars

-----------------------------------------------------------------------------
(* Properties                                                              *)

(* trap.c: however requests by int and by key follow one another, the      *)
(* processor is in the mode asked for last, with the segments of that mode *)
(* and I/O allowed in user mode exactly (the console needs it there).      *)
ModeAsAsked ==
    /\ cs = asked
    /\ cs = KERNEL_CS => ds = KERNEL_DS /\ ss = KERNEL_DS /\ eflags = 0
    /\ cs = USER_CS => ds = USER_DS /\ ss = USER_DS /\ eflags = FL_IOPL_MASK

(* trap.c, trapentry.S: a trap is invisible to the code it interrupts but  *)
(* for the mode: stack pointer, registers and what is on the stack are as  *)
(* before, whichever of the three frames it returned through; and the      *)
(* calls of the test return to their caller with its stack.                *)
ContextKept ==
    [][ /\ Program[eip] \in {"int T_SWITCH_TOU", "int T_SWITCH_TOK", "idle"} \/ eip' = eip =>
              /\ esp' = esp /\ regs' = regs
              /\ \A a \in esp .. stacktop - 1 : mem'[a] = mem[a]
        /\ eip' \in {2, 3} /\ eip' # eip => esp' = stacktop /\ regs' = stacktop ]_vars

(* lab1_switch_test ends, whatever keys are pressed meanwhile, unless it   *)
(* stands for ever at the switch to user mode, which is refused in user    *)
(* mode: a key had switched before.                                        *)
TestEnds == <>(Program[eip] = "idle") \/ <>[](Program[eip] = "int T_SWITCH_TOU")
=============================================================================

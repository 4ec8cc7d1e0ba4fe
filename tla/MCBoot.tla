------------------------------- MODULE MCBoot -------------------------------
(* The way from the disk to a running kernel, one part at a time: the boot  *)
(* loader, the detection of memory and its first mapping (one question      *)
(* each), interrupts, and lab 1's switch of modes.                          *)
EXTENDS Interrupts, PageInit, BootMap, BootLoad

CONSTANTS
    stacktop, esp0, switchk2u   \* of ModeSwitch

(* Room for two calls, a frame and the word below it on the main stack, and *)
(* for a frame and the word below on the other; none overlaps another.      *)
ASSUME StackAssumption ==
    /\ stacktop \in Nat /\ stacktop >= 11
    /\ esp0 \in Nat /\ stacktop + 9 <= esp0
    /\ switchk2u \in Nat /\ esp0 <= switchk2u

VARIABLES
    part,
    mem, eip, cs, ds, ss, esp, eflags, regs, asked,
    in              \* what is asked about the loader or the memory

MS == INSTANCE ModeSwitch

mode == <<mem, eip, cs, ds, ss, esp, eflags, regs, asked>>
allvars == <<part, vars, mode, in>>

MCInit ==
    /\ part \in {"interrupts", "mode", "boot"}
    /\ Init /\ MS!Init
    /\ part # "interrupts" => imr = {}
    /\ in = <<"nothing", 0>>

-----------------------------------------------------------------------------
(* Two segments, over and next to each other's sectors, in an image of six  *)
(* sectors; programs that fit the boot sector exactly or not at all.  The   *)
(* kernel is linked at addresses whose upper part bootmain masks.           *)
Segment(pa, offset, filesz, memsz) ==
    [p_va |-> 3 * AddrSpace + pa, p_offset |-> offset, p_filesz |-> filesz, p_memsz |-> memsz]
Text == {Segment(pa, o, n, n + bss) : pa \in 8 .. 16, o \in {0, 2, 3, 5, 8}, n \in 0 .. 6, bss \in 0 .. 1}
Data == {Segment(pa, o, n, n + bss) : pa \in 12 .. 26, o \in 6 .. 17, n \in 1 .. 4, bss \in 0 .. 2}
Programs == {<<>>, <<"a", "b">>, <<"a", "b", "c">>}

(* Memory maps of two entries, in any order and with any bounds.            *)
E820(addr, size, type) == [addr |-> addr, size |-> size, type |-> type]
MemEntries == {E820(a, s, t) : a \in 0 .. 28, s \in {1, 4, 6, 9, 20}, t \in {E820_ARM, E820_ARR}}

Boot ==
    \/ \E p \in Programs, text \in Text : in' = <<"load", p, text>>
    \/ \E entry \in MemEntries, end \in {0, 3, 5} : in' = <<"memory", entry, end>>
    \/ \E la \in 0 .. 11, pa \in 0 .. 7 : in' = <<"map", la, pa>>

Answered == in' = <<"nothing", 0>>

-----------------------------------------------------------------------------
Interruptible(A) == part = "interrupts" /\ A /\ UNCHANGED <<part, mode, in>>
Switching(A) == part = "mode" /\ A /\ UNCHANGED <<part, vars, in>>

MCNext ==
    \/ Interruptible(Next)
    \/ Switching(MS!Next)
    \/ part = "boot" /\ in[1] = "nothing" /\ Boot /\ UNCHANGED <<part, vars, mode>>
    \/ part = "boot" /\ in[1] # "nothing" /\ Answered /\ UNCHANGED <<part, vars, mode>>

(* The fairness of Interrupts, and the main line of the test goes on. *)
MCFairness ==
    /\ SF_allvars(Interruptible(KernInit))
    /\ WF_allvars(Interruptible(Restore)) /\ SF_allvars(Interruptible(nest[depth] = 1 /\ Restore))
    /\ WF_allvars(Interruptible(Tick)) /\ WF_allvars(Interruptible(GetChar))
    /\ SF_allvars(Interruptible(Iret))
    /\ \A irq \in Device : SF_allvars(Interruptible(Accept(irq)))
    /\ WF_allvars(Switching(MS!Main))

MCSpec == MCInit /\ [][MCNext]_allvars /\ MCFairness

(* Those of the parts. *)
ModeAsAsked == MS!ModeAsAsked
ContextKept == MS!ContextKept
TestEnds == part = "mode" => MS!TestEnds
SegmentsLoaded ==
    in[1] = "load" => \A data \in Data :
        LET elf == [e_magic |-> TRUE, size |-> 24, ph |-> <<in[3], data>>]
        IN  IsLayout(elf) => KernelLoaded(in[2], elf)
RegionsAreUsable ==
    in[1] = "memory" => \A other \in MemEntries :
        End(in[2]) <= other.addr \/ End(other) <= in[2].addr =>
            RegionsUsable(<<in[2], other>>, in[3])
SegmentsMapped ==
    in[1] = "map" => \A size \in 1 .. 14, page \in LinearPage :
        Mappable(in[2], size, in[3]) => SegmentMapped(in[2], size, in[3], PTE_W, page)
=============================================================================

----------------------------- MODULE BootProof -----------------------------
(***************************************************************************)
(* Proofs about what runs from the BIOS to the idle loop: Interrupts, for  *)
(* every counter width, reporting period and bound on the nesting of       *)
(* sections and handlers; PageInit, for every memory map; ModeSwitch,      *)
(* wherever the stacks are; BootMap, for every size of pages and tables;   *)
(* BootLoad, for every size of a sector and every image.                   *)
(***************************************************************************)
EXTENDS MCBoot, SeqLemmas, FiniteSetTheorems, TLAPS

(* What kern_init has done when it is at pc. *)
BootInv ==
    /\ did_init <=> (pc \in {"idt_init", "clock_init", "intr_enable", "idle"})
    /\ idt <=> (pc \in {"clock_init", "intr_enable", "idle"})
    /\ pc = "serial_init" => ~serial_exists
    /\ IRQ_SLAVE \notin irq_mask
    /\ IRQ_COM1 \in irq_mask <=> ~serial_exists
    /\ IRQ_KBD \in irq_mask <=> pc \in {"serial_init", "kbd_init"}
    /\ IRQ_TIMER \in irq_mask <=> pc \notin {"intr_enable", "idle"}
    /\ did_init => imr = irq_mask

(* At most one handler, above a main line without open sections. *)
ContextInv ==
    /\ depth <= 1
    /\ depth = 1 => pc = "idle" /\ nest[0] = 0 /\ ~iflag
    /\ serving[0] = Done

(* IF is on exactly when the idle main line is outside of all sections;    *)
(* only the outermost section of the main line remembers that it was on.   *)
FlagInv ==
    /\ iflag <=> pc = "idle" /\ depth = 0 /\ nest[0] = 0
    /\ \A s \in Section : 0 < s /\ s < nest[depth] => ~flag[depth][s]
    /\ depth = 1 /\ nest[1] > 0 => ~flag[1][0]
    /\ depth = 0 /\ nest[0] > 0 => (flag[0][0] <=> pc = "idle")

(* The clock does not run before the kernel is up. *)
ClockInv ==
    /\ pc # "idle" => ticks = 0 /\ since = 0
    /\ since <= ticks % TICK_NUM

Inv == TypeOK /\ BootInv /\ ContextInv /\ FlagInv /\ ClockInv

-----------------------------------------------------------------------------
(* Remainders, for the counter and the reports. *)
LEMMA RemainderUnique ==
    ASSUME NEW n \in Nat \ {0}, NEW q \in Int, NEW r \in 0 .. n - 1
    PROVE  (n * q + r) % n = r
<1> DEFINE a == n * q + r
<1> DEFINE p == a \div n
<1>1. a \in Int /\ p \in Int /\ a % n \in 0 .. n - 1 /\ a = n * p + (a % n)
  BY SMT
<1> HIDE DEF p
<1>2. ASSUME q > p PROVE FALSE
  <2>1. n * (q - p) >= n
    BY <1>1, <1>2, SMT
  <2>2. n * (q - p) = n * q - n * p
    BY <1>1, SMT
  <2> QED
    BY <1>1, <2>1, <2>2, SMT
<1>3. ASSUME p > q PROVE FALSE
  <2>1. n * (p - q) >= n
    BY <1>1, <1>3, SMT
  <2>2. n * (p - q) = n * p - n * q
    BY <1>1, SMT
  <2> QED
    BY <1>1, <2>1, <2>2, SMT
<1> QED
  BY <1>1, <1>2, <1>3, SMT

LEMMA NextRemainder ==
    ASSUME NEW t \in Nat, NEW n \in Nat \ {0}
    PROVE  (t + 1) % n = 0 \/ (t + 1) % n = (t % n) + 1
<1> DEFINE q == t \div n
<1> DEFINE r == t % n
<1>1. q \in Int /\ r \in 0 .. n - 1 /\ t = n * q + r
  BY SMT
<1> HIDE DEF q, r
<1>2. CASE r + 1 < n
  <2>1. (n * q + (r + 1)) % n = r + 1
    BY <1>1, <1>2, RemainderUnique
  <2> QED
    BY <1>1, <2>1 DEF r
<1>3. CASE r + 1 = n
  <2>1. (n * (q + 1) + 0) % n = 0
    BY <1>1, RemainderUnique
  <2>2. n * (q + 1) = n * q + n
    BY <1>1, SMT
  <2> QED
    BY <1>1, <1>3, <2>1, <2>2
<1> QED
  BY <1>1, <1>2, <1>3

LEMMA ZeroRemainder ==
    ASSUME NEW n \in Nat \ {0}
    PROVE  0 % n = 0
  BY SMT

-----------------------------------------------------------------------------
(* The invariant holds initially. *)
LEMMA InvInit == Init => Inv
<1> SUFFICES ASSUME Init PROVE Inv
  OBVIOUS
<1> USE TickAssumption, BoundAssumption
<1>1. TypeOK
  <2>1. irq_mask \in SUBSET Line /\ imr \in SUBSET Line /\ irr \in SUBSET Device
    BY DEF Init
  <2>2. depth \in Context /\ nest \in [Context -> 0 .. MaxNest]
    BY DEF Init, Context
  <2>3. serving \in [Context -> Device \cup {Done}]
    BY DEF Init
  <2>4. flag \in [Context -> [Section -> BOOLEAN]]
    BY DEF Init
  <2>5. ticks \in 0 .. TickSize - 1 /\ since \in Nat
    BY DEF Init
  <2> QED
    BY <2>1, <2>2, <2>3, <2>4, <2>5 DEF Init, TypeOK, Statement
<1>2. BootInv
  <2>1. irq_mask = Line \ {IRQ_SLAVE} /\ pc = "serial_init"
    BY DEF Init
  <2>2. /\ IRQ_SLAVE \notin irq_mask /\ IRQ_COM1 \in irq_mask
        /\ IRQ_KBD \in irq_mask /\ IRQ_TIMER \in irq_mask
    BY <2>1 DEF Line, IRQ_TIMER, IRQ_KBD, IRQ_SLAVE, IRQ_COM1
  <2> QED
    BY <2>1, <2>2 DEF Init, BootInv
<1>3. ContextInv /\ FlagInv
  BY DEF Init, ContextInv, FlagInv, Context, Section
<1>4. ClockInv
  BY ZeroRemainder DEF Init, ClockInv
<1> QED
  BY <1>1, <1>2, <1>3, <1>4 DEF Inv

(* The statements of kern_init. *)
LEMMA InvKernInit == Inv /\ KernInit => Inv'
<1> SUFFICES ASSUME Inv, KernInit PROVE Inv'
  OBVIOUS
<1> USE TickAssumption, BoundAssumption
<1>1. /\ UNCHANGED contexts /\ depth = 0 /\ nest[0] = 0
      /\ pc # "idle" /\ pc' # pc /\ pc' \in Statement
      /\ iflag' \in BOOLEAN /\ (iflag' <=> pc' = "idle") /\ ~iflag
      /\ ticks' = 0 /\ since' = 0 /\ irr' \in SUBSET Device
  <2>1. /\ UNCHANGED contexts /\ depth = 0 /\ nest[0] = 0
        /\ pc # "idle" /\ pc' # pc /\ pc' \in Statement
    BY DEF KernInit, SerialInit, KbdInit, PicInit, IdtInit, ClockInit, IntrEnable, At, Statement
  <2>2. ~iflag /\ iflag \in BOOLEAN /\ ticks = 0 /\ since = 0
    BY <2>1 DEF Inv, TypeOK, FlagInv, ClockInv
  <2>3. \/ iflag' = iflag /\ pc' # "idle"
        \/ iflag' = TRUE /\ pc' = "idle"
    BY DEF KernInit, SerialInit, KbdInit, PicInit, IdtInit, ClockInit, IntrEnable
  <2>4. ticks' = 0 /\ since' = 0
    BY <2>2 DEF KernInit, SerialInit, KbdInit, PicInit, IdtInit, ClockInit, IntrEnable, clock
  <2>5. irr' \in SUBSET Device
    BY DEF KernInit, SerialInit, KbdInit, PicInit, IdtInit, ClockInit, IntrEnable, Inv, TypeOK
  <2>6. iflag' \in BOOLEAN /\ (iflag' <=> pc' = "idle")
    <3>1. CASE iflag' = iflag /\ pc' # "idle"
      BY <2>2, <3>1, Zenon
    <3>2. CASE iflag' = TRUE /\ pc' = "idle"
      BY <3>2
    <3> QED
      BY <2>3, <3>1, <3>2
  <2> QED
    BY <2>1, <2>2, <2>4, <2>5, <2>6
<1>2. TypeOK' /\ BootInv'
  <2>1. CASE SerialInit
    <3>1. /\ pc = "serial_init" /\ pc' = "kbd_init" /\ serial_exists' \in BOOLEAN
          /\ ~did_init /\ ~did_init' /\ ~idt /\ ~idt' /\ imr' = imr
          /\ irq_mask' = IF serial_exists' THEN irq_mask \ {IRQ_COM1} ELSE irq_mask
      BY <2>1 DEF SerialInit, At, PicEnable, SetMask, Inv, BootInv
    <3>2. /\ irq_mask' \in SUBSET Line /\ imr' \in SUBSET Line
          /\ did_init' \in BOOLEAN /\ idt' \in BOOLEAN
      BY <2>1, <3>1 DEF SerialInit, Inv, TypeOK
    <3>3. TypeOK'
      BY <1>1, <3>1, <3>2 DEF contexts, Inv, TypeOK
    <3>4. BootInv'
      BY <3>1 DEF Inv, BootInv, IRQ_TIMER, IRQ_KBD, IRQ_SLAVE, IRQ_COM1
    <3> QED
      BY <3>3, <3>4
  <2>2. CASE KbdInit
    BY <1>1, <2>2 DEF KbdInit, At, PicEnable, SetMask, contexts, clock, Inv, TypeOK, BootInv,
       Statement, Line, IRQ_TIMER, IRQ_KBD, IRQ_SLAVE, IRQ_COM1
  <2>3. CASE PicInit
    BY <1>1, <2>3 DEF PicInit, At, contexts, clock, Inv, TypeOK, BootInv,
       Statement, Line, IRQ_TIMER, IRQ_KBD, IRQ_SLAVE, IRQ_COM1
  <2>4. CASE IdtInit
    BY <1>1, <2>4 DEF IdtInit, At, contexts, clock, Inv, TypeOK, BootInv,
       Statement, Line, IRQ_TIMER, IRQ_KBD, IRQ_SLAVE, IRQ_COM1
  <2>5. CASE ClockInit
    BY <1>1, <2>5 DEF ClockInit, At, PicEnable, SetMask, contexts, clock, Inv, TypeOK, BootInv,
       Statement, Line, IRQ_TIMER, IRQ_KBD, IRQ_SLAVE, IRQ_COM1
  <2>6. CASE IntrEnable
    BY <1>1, <2>6 DEF IntrEnable, At, contexts, clock, Inv, TypeOK, BootInv,
       Statement, Line, IRQ_TIMER, IRQ_KBD, IRQ_SLAVE, IRQ_COM1
  <2> QED
    BY <2>1, <2>2, <2>3, <2>4, <2>5, <2>6 DEF KernInit
<1>3. ContextInv'
  BY <1>1 DEF contexts, Inv, ContextInv
<1>4. FlagInv'
  BY <1>1 DEF contexts, Inv, FlagInv, Section, TypeOK
<1>5. ClockInv'
  BY <1>1, ZeroRemainder DEF ClockInv
<1> QED
  BY <1>2, <1>3, <1>4, <1>5 DEF Inv

(* Opening and closing a section. *)
LEMMA InvSection == Inv /\ (Save \/ Restore) => Inv'
<1> SUFFICES ASSUME Inv, Save \/ Restore PROVE Inv'
  OBVIOUS
<1> USE TickAssumption, BoundAssumption
<1>1. /\ UNCHANGED <<boot, irr, depth, serving, clock>>
      /\ depth \in {0, 1} /\ depth \in Context /\ 0 \in Context
      /\ nest \in [Context -> 0 .. MaxNest] /\ flag \in [Context -> [Section -> BOOLEAN]]
  BY DEF Save, Restore, Inv, TypeOK, ContextInv, Context
<1>2. BootInv' /\ ClockInv'
  BY <1>1 DEF boot, clock, Inv, BootInv, ClockInv
<1>3. CASE Save
  <2>1. /\ nest[depth] \in Section
        /\ flag' = [flag EXCEPT ![depth][nest[depth]] = iflag]
        /\ nest' = [nest EXCEPT ![depth] = @ + 1]
        /\ iflag' = FALSE
    BY <1>1, <1>3 DEF Save, Section
  <2>2. TypeOK'
    <3>1. iflag \in BOOLEAN /\ flag[depth] \in [Section -> BOOLEAN]
      BY <1>1 DEF Inv, TypeOK
    <3>2. [flag[depth] EXCEPT ![nest[depth]] = iflag] \in [Section -> BOOLEAN]
      BY <2>1, <3>1
    <3>3. flag' \in [Context -> [Section -> BOOLEAN]]
      BY <1>1, <2>1, <3>2
    <3>4. nest' \in [Context -> 0 .. MaxNest]
      BY <1>1, <2>1 DEF Section
    <3> QED
      BY <1>1, <2>1, <3>3, <3>4 DEF boot, clock, Inv, TypeOK
  <2>3. ContextInv'
    BY <1>1, <2>1 DEF boot, Inv, ContextInv
  <2>4. FlagInv'
    BY <1>1, <2>1 DEF boot, Inv, FlagInv, ContextInv, Section, TypeOK
  <2> QED
    BY <1>2, <2>2, <2>3, <2>4 DEF Inv
<1>4. CASE Restore
  <2>1. /\ nest[depth] > 0 /\ nest[depth] - 1 \in Section
        /\ nest' = [nest EXCEPT ![depth] = @ - 1]
        /\ iflag' = (flag[depth][nest[depth] - 1] \/ iflag)
        /\ flag' = flag
    BY <1>1, <1>4 DEF Restore, Section
  <2>2. flag[depth][nest[depth] - 1] \in BOOLEAN /\ iflag \in BOOLEAN
    BY <1>1, <2>1 DEF Inv, TypeOK
  <2>3. TypeOK'
    BY <1>1, <2>1, <2>2 DEF boot, clock, Inv, TypeOK, Section
  <2>4. ~iflag
    BY <1>1, <2>1 DEF Inv, FlagInv
  <2>5. iflag' <=> pc = "idle" /\ depth = 0 /\ nest[0] = 1
    BY <1>1, <2>1, <2>2, <2>4 DEF Inv, FlagInv, ContextInv, Section
  <2>6. ContextInv'
    BY <1>1, <2>1, <2>5 DEF boot, Inv, ContextInv
  <2>7. FlagInv'
    BY <1>1, <2>1, <2>5 DEF boot, Inv, FlagInv, ContextInv, Section
  <2> QED
    BY <1>2, <2>3, <2>6, <2>7 DEF Inv
<1> QED
  BY <1>3, <1>4

(* A request, and the processor accepting it. *)
LEMMA InvRequest ==
    ASSUME Inv, NEW irq \in Device, Raise(irq) \/ Accept(irq)
    PROVE  Inv'
<1> USE TickAssumption, BoundAssumption
<1>1. UNCHANGED <<boot, flag, clock>>
  BY DEF Raise, Accept, contexts
<1>2. BootInv' /\ ClockInv'
  BY <1>1 DEF boot, clock, Inv, BootInv, ClockInv
<1>3. CASE Raise(irq)
  <2>1. UNCHANGED <<boot, iflag, contexts, clock>> /\ irr' = irr \cup {irq}
    BY <1>3 DEF Raise
  <2> QED
    BY <1>2, <2>1 DEF boot, clock, contexts, Inv, TypeOK, ContextInv, FlagInv
<1>4. CASE Accept(irq)
  <2>1. iflag /\ depth = 0 /\ nest[0] = 0 /\ pc = "idle"
    BY <1>4 DEF Accept, Acceptable, Inv, FlagInv, TypeOK
  <2>2. /\ depth' = 1 /\ 0 \in Context /\ 1 \in Context
        /\ serving' = [serving EXCEPT ![1] = irq]
        /\ nest' = [nest EXCEPT ![1] = 0]
        /\ iflag' = FALSE /\ irr' = irr \ {irq}
    BY <1>4, <2>1 DEF Accept, Context
  <2>3. TypeOK'
    <3>1. serving' \in [Context -> Device \cup {Done}]
      BY <2>2 DEF Inv, TypeOK
    <3>2. nest' \in [Context -> 0 .. MaxNest]
      BY <2>2 DEF Inv, TypeOK
    <3>3. irr' \in SUBSET Device /\ depth' \in Context /\ iflag' \in BOOLEAN
      BY <2>2 DEF Inv, TypeOK
    <3> QED
      BY <1>1, <3>1, <3>2, <3>3 DEF boot, clock, Inv, TypeOK
  <2>4. ContextInv' /\ FlagInv'
    BY <1>1, <2>1, <2>2 DEF boot, Inv, TypeOK, ContextInv, FlagInv, Section
  <2> QED
    BY <1>2, <2>3, <2>4 DEF Inv
<1> QED
  BY <1>3, <1>4

(* The handlers and their return. *)
LEMMA InvHandler == Inv /\ (Tick \/ GetChar \/ Iret) => Inv'
<1> SUFFICES ASSUME Inv, Tick \/ GetChar \/ Iret PROVE Inv'
  OBVIOUS
<1> USE TickAssumption, BoundAssumption
<1>1. UNCHANGED <<boot, irr, nest, flag>>
  BY DEF Tick, GetChar, Iret
<1>2. BootInv'
  BY <1>1 DEF boot, Inv, BootInv
<1>3. CASE Tick
  <2>1. /\ UNCHANGED <<depth, iflag>> /\ serving' = [serving EXCEPT ![depth] = Done]
        /\ ticks' = (ticks + 1) % TickSize
        /\ since' = IF ticks' % TICK_NUM = 0 THEN 0 ELSE since + 1
        /\ serving[depth] # Done
    BY <1>3 DEF Tick, Done, IRQ_TIMER
  <2>2. ticks \in Nat /\ since \in Nat /\ ticks < TickSize
    BY DEF Inv, TypeOK
  <2>3. ticks' \in 0 .. TickSize - 1 /\ (ticks' = 0 \/ ticks' = ticks + 1)
    <3>1. ticks % TickSize = ticks
      <4>1. (TickSize * 0 + ticks) % TickSize = ticks
        BY <2>2, RemainderUnique
      <4> QED
        BY <2>2, <4>1, SMT
    <3>2. (ticks + 1) % TickSize \in 0 .. TickSize - 1
      BY <2>2, NextRemainder
    <3>3. (ticks + 1) % TickSize = 0 \/ (ticks + 1) % TickSize = (ticks % TickSize) + 1
      BY <2>2, NextRemainder
    <3> QED
      BY <2>1, <3>1, <3>2, <3>3
  <2>4. TypeOK'
    BY <1>1, <2>1, <2>2, <2>3 DEF boot, Inv, TypeOK
  <2>5. since' <= ticks' % TICK_NUM
    <3>1. ticks' = 0 => ticks' % TICK_NUM = 0
      BY ZeroRemainder
    <3>2. ticks' = ticks + 1 =>
             ticks' % TICK_NUM = 0 \/ ticks' % TICK_NUM = (ticks % TICK_NUM) + 1
      BY <2>2, NextRemainder
    <3>3. since <= ticks % TICK_NUM /\ ticks % TICK_NUM \in Nat
      BY <2>2, NextRemainder DEF Inv, ClockInv
    <3> QED
      BY <2>1, <2>2, <2>3, <3>1, <3>2, <3>3
  <2>6. pc = "idle" /\ pc' = pc
    BY <1>1, <1>3, <2>1 DEF boot, Inv, ContextInv, TypeOK, Context
  <2>7. ClockInv'
    BY <2>5, <2>6 DEF ClockInv
  <2>8. ContextInv' /\ FlagInv'
    BY <1>1, <2>1 DEF boot, Inv, ContextInv, FlagInv
  <2> QED
    BY <1>2, <2>4, <2>7, <2>8 DEF Inv
<1>4. CASE GetChar
  <2>1. UNCHANGED <<iflag, depth, clock>> /\ serving' = [serving EXCEPT ![depth] = Done]
    BY <1>4 DEF GetChar
  <2>2. TypeOK' /\ ContextInv' /\ FlagInv' /\ ClockInv'
    BY <1>1, <2>1 DEF boot, clock, Inv, TypeOK, ContextInv, FlagInv, ClockInv
  <2> QED
    BY <1>2, <2>2 DEF Inv
<1>5. CASE Iret
  <2>1. depth = 1 /\ depth' = 0 /\ iflag' = TRUE /\ UNCHANGED <<serving, clock>>
    BY <1>5 DEF Iret, Inv, TypeOK, ContextInv, Context
  <2>2. TypeOK' /\ ContextInv' /\ FlagInv' /\ ClockInv'
    BY <1>1, <2>1 DEF boot, clock, Inv, TypeOK, ContextInv, FlagInv, ClockInv, Context, Section
  <2> QED
    BY <1>2, <2>2 DEF Inv
<1> QED
  BY <1>3, <1>4, <1>5

(* The inductive invariant of masking, boot and clock. *)
THEOREM Invariance == Spec => []Inv
<1>1. Inv /\ [Next]_vars => Inv'
  <2> SUFFICES ASSUME Inv, [Next]_vars PROVE Inv'
    OBVIOUS
  <2>1. CASE Next
    BY <2>1, InvKernInit, InvSection, InvRequest, InvHandler DEF Next
  <2>2. CASE UNCHANGED vars
    BY <2>2 DEF vars, boot, contexts, clock, Inv, TypeOK, BootInv, ContextInv, FlagInv, ClockInv
  <2> QED
    BY <2>1, <2>2
<1> QED
  BY <1>1, InvInit, PTL DEF Spec

(* Every variable keeps its type, the counter its width. *)
THEOREM TypeCorrect == Spec => []TypeOK
<1>1. Inv => TypeOK
  BY DEF Inv
<1> QED
  BY <1>1, Invariance, PTL

(* What runs between local_intr_save and local_intr_restore is never       *)
(* interrupted, and handlers do not interrupt each other.                  *)
THEOREM MaskedSectionsAtomic == Spec => []SectionsAlone
<1>1. Inv => SectionsAlone
  BY DEF Inv, TypeOK, ContextInv, SectionsAlone, Context
<1> QED
  BY <1>1, Invariance, PTL

(* Interrupts are only on when controllers and processor are set up, and   *)
(* are on again whenever the main line is outside of all sections.         *)
THEOREM InterruptsOnWhenReady == Spec => [](VectorsReady /\ EnabledAtRest)
<1>1. Inv => VectorsReady /\ EnabledAtRest
  BY DEF Inv, BootInv, FlagInv, VectorsReady, EnabledAtRest
<1> QED
  BY <1>1, Invariance, PTL

(* The drivers' mask survives pic_init. *)
THEOREM LinesStayOpen == Spec => []LinesOpen
<1>1. Inv => LinesOpen
  <2> SUFFICES ASSUME Inv PROVE LinesOpen
    OBVIOUS
  <2>1. did_init => imr = irq_mask
    BY DEF Inv, BootInv
  <2>2. ASSUME pc = "idle"
        PROVE  imr = IF serial_exists THEN {} ELSE {IRQ_COM1}
    <3>1. imr \in SUBSET Line /\ imr = irq_mask
      BY <2>1, <2>2 DEF Inv, TypeOK, BootInv
    <3>2. /\ IRQ_SLAVE \notin imr /\ IRQ_KBD \notin imr /\ IRQ_TIMER \notin imr
          /\ IRQ_COM1 \in imr <=> ~serial_exists
      BY <2>2, <3>1 DEF Inv, BootInv
    <3> QED
      BY <3>1, <3>2 DEF Line
  <2> QED
    BY <2>1, <2>2 DEF LinesOpen
<1> QED
  BY <1>1, Invariance, PTL

(* A report at least every TICK_NUM ticks, over any wrap of the counter. *)
THEOREM TicksReported == Spec => []ReportsInTime
<1>1. Inv => ReportsInTime
  <2> SUFFICES ASSUME Inv PROVE since < TICK_NUM
    BY DEF ReportsInTime
  <2>1. ticks \in Nat /\ since \in Nat /\ since <= ticks % TICK_NUM
    BY DEF Inv, TypeOK, ClockInv
  <2>2. ticks % TICK_NUM \in 0 .. TICK_NUM - 1
    BY <2>1, TickAssumption, NextRemainder
  <2> QED
    BY <2>1, <2>2, TickAssumption
<1> QED
  BY <1>1, Invariance, PTL
-----------------------------------------------------------------------------
(* page_init, for every memory map                                         *)

Entry == [addr : Nat, size : Nat, type : Nat]

(* The maps of the BIOS: usable entries, in any order, do not overlap. *)
MemoryMap ==
    {memmap \in Seq(Entry) : \A i, j \in Usable(memmap) :
        i # j => End(memmap[i]) <= memmap[j].addr \/ End(memmap[j]) <= memmap[i].addr}

(* Products with the size of a frame. *)
LEMMA Multiples ==
  ASSUME NEW p \in Nat \ {0}, NEW a \in Int, NEW b \in Int
  PROVE  /\ a < b => a * p + p <= b * p
         /\ a * p < b * p => a < b
         /\ a * p + p = (a + 1) * p
<1>1. ASSUME NEW c \in Int, NEW d \in Int, c < d PROVE c * p + p <= d * p
  <2>1. PICK e \in Nat : e = d - c - 1
    BY <1>1
  <2>2. PICK x \in Int : x = e * p /\ x >= 0
    <3>1. e * p \in Nat
      OBVIOUS
    <3> QED  BY <3>1
  <2>3. d = c + 1 + e
    BY <2>1
  <2>4. (c + 1 + e) * p = c * p + p + e * p
    OBVIOUS
  <2>5. PICK y, z \in Int : y = c * p /\ z = d * p
    OBVIOUS
  <2>6. z = y + p + x
    BY <2>2, <2>3, <2>4, <2>5
  <2> QED  BY <2>2, <2>5, <2>6
<1>2. ASSUME a * p < b * p PROVE a < b
  <2>1. PICK y, z \in Int : y = a * p /\ z = b * p /\ y < z
    BY <1>2
  <2>2. CASE b < a
    <3>1. z + p <= y
      BY <1>1, <2>1, <2>2
    <3> QED  BY <2>1, <3>1
  <2>3. CASE a = b
    BY <2>1, <2>3
  <2> QED  BY <2>2, <2>3
<1>3. a * p + p = (a + 1) * p
  OBVIOUS
<1> QED  BY <1>1, <1>2, <1>3

LEMMA Quotient ==
  ASSUME NEW p \in Nat \ {0}, NEW q \in Int
  PROVE  (q * p) % p = 0 /\ (q * p) \div p = q
<1> DEFINE a == q * p
<1> DEFINE d == a \div p
<1>1. a \in Int /\ d \in Int /\ a % p \in 0 .. p - 1 /\ a = p * d + (a % p)
  BY SMT
<1>2. p * q + 0 = a /\ 0 \in 0 .. p - 1
  OBVIOUS
<1>3. a % p = 0
  BY <1>2, RemainderUnique
<1> HIDE DEF a, d
<1>4. PICK x \in Int : x = a
  BY <1>1
<1>5. d * p = x /\ q * p = x
  BY <1>1, <1>3, <1>4 DEF a
<1>6. ~(d < q) /\ ~(q < d)
  <2>1. ASSUME d < q PROVE FALSE
    <3>1. d * p + p <= q * p
      BY <1>1, <2>1, Multiples
    <3> QED  BY <1>5, <3>1
  <2>2. ASSUME q < d PROVE FALSE
    <3>1. q * p + p <= d * p
      BY <1>1, <2>2, Multiples
    <3> QED  BY <1>5, <3>1
  <2> QED  BY <2>1, <2>2
<1>7. d = q
  BY <1>1, <1>6
<1> QED  BY <1>3, <1>7 DEF a, d

(* ROUNDDOWN: the last multiple that is not behind a. *)
LEMMA Down ==
  ASSUME NEW a \in Nat
  PROVE  \E q \in Nat : /\ ROUNDDOWN(a) = q * PGSIZE /\ a \div PGSIZE = q
                        /\ q * PGSIZE <= a /\ a < q * PGSIZE + PGSIZE
<1>1. PICK p \in Nat \ {0} : p = PGSIZE
  BY PageInitAssumption
<1>2. PICK q \in Int, r \in 0 .. p - 1 : q = a \div p /\ r = a % p /\ a = p * q + r
  BY SMT
<1>3. PICK x \in Int : x = q * p /\ a = x + r
  BY <1>2
<1>4. x <= a /\ a < x + p /\ a - r = x
  <2>1. 0 <= r /\ r < p /\ r \in Int
    OBVIOUS
  <2> QED  BY ONLY <1>3, <2>1, x \in Int, p \in Nat, a \in Nat
<1>5. q >= 0
  <2>1. ASSUME q < 0 PROVE FALSE
    <3>1. q * p + p <= 0 * p
      BY <2>1, Multiples
    <3>2. x + p <= 0
      BY <1>3, <3>1
    <3> QED  BY <1>4, <3>2
  <2> QED  BY <1>2, <2>1
<1> QED  BY <1>1, <1>2, <1>3, <1>4, <1>5 DEF ROUNDDOWN

(* The frames f from the first multiple not in front of a on. *)
LEMMA Up ==
  ASSUME NEW a \in Nat
  PROVE  \E q \in Nat : /\ ROUNDUP(a) = q * PGSIZE
                        /\ \A f \in Nat : q <= f <=> a <= f * PGSIZE
<1>1. PICK p \in Nat \ {0} : p = PGSIZE
  BY PageInitAssumption
<1>2. a + p - 1 \in Nat
  BY <1>1
<1>3. PICK q \in Nat : /\ ROUNDDOWN(a + p - 1) = q * p
                       /\ q * p <= a + p - 1 /\ a + p - 1 < q * p + p
  BY <1>1, <1>2, Down
<1>4. PICK x \in Int : x = q * p
  OBVIOUS
<1>5. x < a + p /\ a <= x
  BY <1>3, <1>4
<1>6. ASSUME NEW f \in Nat PROVE q <= f <=> a <= f * p
  <2>1. PICK y \in Int : y = f * p
    OBVIOUS
  <2>2. CASE q = f
    BY <1>4, <1>5, <2>1, <2>2
  <2>3. CASE q < f
    <3>1. x + p <= y
      BY <1>4, <2>1, <2>3, Multiples
    <3> QED  BY <1>5, <2>1, <2>3, <3>1
  <2>4. CASE f < q
    <3>1. y + p <= x
      BY <1>4, <2>1, <2>4, Multiples
    <3> QED  BY <1>5, <2>1, <2>4, <3>1
  <2> QED  BY <2>2, <2>3, <2>4
<1>7. ROUNDUP(a) = q * p
  BY <1>1, <1>3 DEF ROUNDUP
<1> QED  BY <1>1, <1>6, <1>7

(* The frames f that end at a or in front of it. *)
LEMMA DownFrames ==
  ASSUME NEW a \in Nat
  PROVE  \E q \in Nat : /\ ROUNDDOWN(a) = q * PGSIZE /\ a \div PGSIZE = q
                        /\ \A f \in Nat : f < q <=> f * PGSIZE + PGSIZE <= a
<1>1. PICK p \in Nat \ {0} : p = PGSIZE
  BY PageInitAssumption
<1>2. PICK q \in Nat : /\ ROUNDDOWN(a) = q * p /\ a \div p = q
                       /\ q * p <= a /\ a < q * p + p
  BY <1>1, Down
<1>3. PICK x \in Int : x = q * p
  OBVIOUS
<1>4. ASSUME NEW f \in Nat PROVE f < q <=> f * p + p <= a
  <2>1. PICK y \in Int : y = f * p
    OBVIOUS
  <2>2. CASE q = f
    BY <1>2, <1>3, <2>1, <2>2
  <2>3. CASE q < f
    <3>1. x + p <= y
      BY <1>3, <2>1, <2>3, Multiples
    <3> QED  BY <1>1, <1>2, <1>3, <2>1, <2>3, <3>1
  <2>4. CASE f < q
    <3>1. y + p <= x
      BY <1>3, <2>1, <2>4, Multiples
    <3> QED  BY <1>2, <1>3, <2>1, <2>4, <3>1
  <2> QED  BY <2>2, <2>3, <2>4
<1> QED  BY <1>1, <1>2, <1>4

-----------------------------------------------------------------------------
(* The frames of a zone, and how many frames there are.                    *)

(* Frame f lies in the usable entry, behind free and below KMEMSIZE. *)
Fits(entry, free, f) ==
    /\ entry.addr <= f * PGSIZE /\ free <= f * PGSIZE
    /\ f * PGSIZE + PGSIZE <= End(entry) /\ f * PGSIZE + PGSIZE <= KMEMSIZE

LEMMA ZoneFrames ==
  ASSUME NEW entry \in Entry, NEW free \in Nat
  PROVE  \E b \in Nat, e \in Nat :
            /\ Zone(entry, free) = [begin |-> b * PGSIZE, end |-> e * PGSIZE]
            /\ \A f \in Nat : b <= f /\ f < e <=> Fits(entry, free, f)
<1>1. PICK a, z, k, s \in Nat : a = entry.addr /\ s = entry.size /\ z = a + s /\ z = End(entry) /\ k = KMEMSIZE
  BY PageInitAssumption DEF Entry, End
<1>2. PICK m \in Nat : m = AtLeast(a, free) /\ a <= m /\ free <= m /\ m \in {a, free}
  BY DEF AtLeast
<1>3. PICK l \in Nat : l = AtMost(z, k) /\ l <= z /\ l <= k /\ l \in {z, k}
  BY DEF AtMost
<1>4. PICK b \in Nat : ROUNDUP(m) = b * PGSIZE /\ \A f \in Nat : b <= f <=> m <= f * PGSIZE
  BY Up
<1>5. PICK e \in Nat : ROUNDDOWN(l) = e * PGSIZE /\ \A f \in Nat : f < e <=> f * PGSIZE + PGSIZE <= l
  BY DownFrames
<1>6. ASSUME NEW f \in Nat PROVE b <= f /\ f < e <=> Fits(entry, free, f)
  <2>1. PICK x, y \in Nat : x = f * PGSIZE /\ y = x + PGSIZE
    BY PageInitAssumption
  <2>2. m <= x <=> a <= x /\ free <= x
    BY <1>2
  <2>3. y <= l <=> y <= z /\ y <= k
    BY <1>3
  <2> QED  BY <1>1, <1>4, <1>5, <2>1, <2>2, <2>3 DEF Fits
<1> QED  BY <1>1, <1>2, <1>3, <1>4, <1>5, <1>6 DEF Zone

(* A set of naturals with a bound has a greatest element. *)
LEMMA Greatest ==
  ASSUME NEW S \in SUBSET Nat, S # {}, NEW b \in Nat, \A x \in S : x <= b
  PROVE  Max(S) \in S /\ \A x \in S : x <= Max(S)
<1> DEFINE Bounds == {k \in Nat : \A x \in S : x <= k}
<1>1. PICK m \in Bounds : \A k \in Bounds : m <= k
  <2>1. b \in Bounds
    OBVIOUS
  <2>2. Bounds \in SUBSET Nat
    OBVIOUS
  <2> HIDE DEF Bounds
  <2> QED  BY <2>1, <2>2, LeastNatural
<1>2. m \in S
  <2>1. ASSUME m \notin S PROVE FALSE
    <3>1. \A x \in S : x < m
      BY <1>1, <2>1
    <3>2. m >= 1 /\ m - 1 \in Nat
      <4>1. PICK x \in S : x < m
        BY <3>1
      <4>2. x \in Nat /\ m \in Nat
        BY <1>1, <4>1
      <4> QED  BY <4>1, <4>2
    <3>3. m - 1 \in Bounds
      BY <1>1, <3>1, <3>2
    <3> QED  BY <1>1, <3>2, <3>3
  <2> QED  BY <2>1
<1>3. \A x \in S : m >= x
  BY <1>1
<1>4. PICK g : g = Max(S)
  OBVIOUS
<1>5. g \in S /\ \A x \in S : g >= x
  BY <1>2, <1>3, <1>4, Zenon DEF Max
<1> QED  BY <1>4, <1>5

LEMMA EntryAt ==
  ASSUME NEW memmap \in Seq(Entry), NEW i \in DOMAIN memmap
  PROVE  memmap[i] \in Entry /\ memmap[i].addr \in Nat /\ End(memmap[i]) \in Nat
<1>1. memmap[i] \in Entry
  OBVIOUS
<1>2. PICK e \in Entry : e = memmap[i]
  BY <1>1
<1>3. e.addr \in Nat /\ e.size \in Nat
  BY DEF Entry
<1> QED  BY <1>2, <1>3 DEF End

LEMMA EntriesEnd ==
  ASSUME NEW memmap \in Seq(Entry)
  PROVE  \E b \in Nat : \A i \in DOMAIN memmap : End(memmap[i]) \in Nat /\ End(memmap[i]) <= b
<1> DEFINE Bad == {k \in Nat : k <= Len(memmap) /\
                       ~ \E b \in Nat : \A i \in 1 .. k : End(memmap[i]) <= b}
<1>1. ASSUME NEW i \in DOMAIN memmap PROVE End(memmap[i]) \in Nat
  BY EntryAt
<1>2. Len(memmap) \in Nat /\ DOMAIN memmap = 1 .. Len(memmap)
  OBVIOUS
<1>3. ASSUME Bad # {} PROVE FALSE
  <2>1. PICK k \in Bad : \A j \in Bad : k <= j
    BY <1>3, LeastNatural
  <2>2. k # 0
    <3>1. \A i \in 1 .. 0 : End(memmap[i]) <= 0
      OBVIOUS
    <3> QED  BY <3>1
  <2>3. k - 1 \in Nat /\ k - 1 <= Len(memmap) /\ k - 1 \notin Bad
    <3>1. PICK n \in Nat : n = Len(memmap)
      BY <1>2
    <3>2. k \in Nat /\ k <= n
      BY <2>1, <3>1
    <3>3. k - 1 \in Nat /\ k - 1 <= n /\ ~(k <= k - 1)
      BY <2>2, <3>2
    <3>4. k - 1 \notin Bad
      <4>1. k - 1 \in Bad => k <= k - 1
        BY <2>1
      <4> QED  BY <3>3, <4>1
    <3> QED  BY <3>1, <3>3, <3>4
  <2>4. PICK b \in Nat : \A i \in 1 .. k - 1 : End(memmap[i]) <= b
    BY <2>3
  <2>5. PICK e \in Nat : e = End(memmap[k])
    <3>1. k \in DOMAIN memmap
      <4>1. PICK n \in Nat : n = Len(memmap)
        BY <1>2
      <4>2. k \in Nat /\ k <= n
        BY <2>1, <4>1
      <4>3. k \in 1 .. n
        BY <2>2, <4>2
      <4> QED  BY <1>2, <4>1, <4>3
    <3> QED  BY <1>1, <3>1
  <2>6. PICK c \in Nat : b <= c /\ e <= c
    <3>1. b + e \in Nat /\ b <= b + e /\ e <= b + e
      OBVIOUS
    <3> QED  BY <3>1
  <2>7. ASSUME NEW i \in 1 .. k PROVE End(memmap[i]) <= c
    <3>1. CASE i = k
      BY <2>5, <2>6, <3>1
    <3>2. CASE i # k
      <4>1. i \in 1 .. k - 1 /\ i \in DOMAIN memmap
        BY <1>2, <2>1, <3>2
      <4>2. PICK x \in Nat : x = End(memmap[i])
        BY <1>1, <4>1
      <4>3. x <= b
        BY <2>4, <4>1, <4>2
      <4> QED  BY <2>6, <4>2, <4>3
    <3> QED  BY <3>1, <3>2
  <2> QED  BY <2>1, <2>7
<1>4. PICK b \in Nat : \A i \in 1 .. Len(memmap) : End(memmap[i]) <= b
  <2>1. Len(memmap) \notin Bad
    BY <1>3
  <2>2. Len(memmap) <= Len(memmap)
    BY ONLY <1>2
  <2> QED  BY <1>2, <2>1, <2>2
<1> QED  BY <1>1, <1>2, <1>4

(* npage: every frame that lies in a usable entry has a struct Page. *)
LEMMA FramesCounted ==
  ASSUME NEW memmap \in Seq(Entry)
  PROVE  /\ npage(memmap) \in Nat
         /\ \A i \in Usable(memmap), f \in Nat :
               /\ memmap[i].addr <= f * PGSIZE
               /\ f * PGSIZE + PGSIZE <= End(memmap[i])
               /\ f * PGSIZE + PGSIZE <= KMEMSIZE
               => f < npage(memmap)
<1> DEFINE Ends == {End(memmap[i]) : i \in {j \in Usable(memmap) : memmap[j].addr < KMEMSIZE}}
<1>1. PICK b \in Nat : \A i \in DOMAIN memmap : End(memmap[i]) \in Nat /\ End(memmap[i]) <= b
  BY EntriesEnd
<1>2. {0} \cup Ends \in SUBSET Nat /\ \A x \in {0} \cup Ends : x <= b
  BY <1>1 DEF Usable
<1>3. PICK g \in Nat : g = Max({0} \cup Ends) /\ \A x \in {0} \cup Ends : x <= g
  <2>1. {0} \cup Ends # {}
    OBVIOUS
  <2> HIDE DEF Ends
  <2> QED  BY <1>2, <2>1, Greatest
<1>4. PICK k \in Nat : k = KMEMSIZE
  BY PageInitAssumption
<1>5. PICK l \in Nat : l = AtMost(g, k) /\ l \in {g, k} /\ \A y \in Nat : y <= g /\ y <= k => y <= l
  BY DEF AtMost
<1>6. PICK q \in Nat : l \div PGSIZE = q /\ \A f \in Nat : f < q <=> f * PGSIZE + PGSIZE <= l
  BY DownFrames
<1>7. npage(memmap) = q
  BY <1>3, <1>4, <1>5, <1>6 DEF npage
<1>8. ASSUME NEW i \in Usable(memmap), NEW f \in Nat, memmap[i].addr <= f * PGSIZE,
             f * PGSIZE + PGSIZE <= End(memmap[i]), f * PGSIZE + PGSIZE <= KMEMSIZE
      PROVE  f < q
  <2>1. PICK x, p \in Nat : x = f * PGSIZE /\ p = PGSIZE /\ p >= 1
    BY PageInitAssumption
  <2>2. PICK a, z \in Nat : a = memmap[i].addr /\ z = End(memmap[i])
    BY EntryAt DEF Usable
  <2>3. a <= x /\ x + p <= z /\ x + p <= k
    BY <1>4, <1>8, <2>1, <2>2
  <2>4. a < k
    BY <2>1, <2>3
  <2>5. z \in Ends
    BY <1>4, <2>2, <2>4
  <2>6. x + p <= g
    <3>1. z <= g
      BY <1>3, <2>5
    <3> QED  BY ONLY <2>3, <3>1, x \in Nat, p \in Nat, z \in Nat, g \in Nat
  <2>7. x + p <= l
    BY <1>5, <2>1, <2>3, <2>6
  <2> QED  BY <1>6, <2>1, <2>7
<1> QED  BY <1>7, <1>8

-----------------------------------------------------------------------------
(* The calls of init_memmap. *)

(* Entry i gives a zone, and which call it leads to. *)
Gives(memmap, free, i) ==
    i \in Usable(memmap) /\ Zone(memmap[i], free).begin < Zone(memmap[i], free).end

Call(memmap, free, i) ==
    [base |-> Zone(memmap[i], free).begin \div PGSIZE,
     n |-> (Zone(memmap[i], free).end - Zone(memmap[i], free).begin) \div PGSIZE,
     found |-> pa2page(Zone(memmap[i], free).begin, npage(memmap))]

(* A pass over the first k entries. *)
Passing(z, memmap, free, k) ==
    z = [i \in 0 .. k |->
            IF i = 0 THEN <<>>
            ELSE IF Gives(memmap, free, i) THEN Append(z[i - 1], Call(memmap, free, i))
                 ELSE z[i - 1]]

LEMMA PassingExists ==
  ASSUME NEW memmap, NEW free, NEW m \in Nat
  PROVE  \E z : Passing(z, memmap, free, m)
<1> DEFINE Bad == {k \in Nat : ~ \E z : Passing(z, memmap, free, k)}
<1> SUFFICES ASSUME Bad # {} PROVE FALSE
  OBVIOUS
<1>1. PICK k \in Bad : \A j \in Bad : k <= j
  BY LeastNatural
<1>2. k # 0
  <2> DEFINE z == [i \in 0 .. 0 |-> <<>>]
  <2>1. z = [i \in 0 .. 0 |->
            IF i = 0 THEN <<>>
            ELSE IF Gives(memmap, free, i) THEN Append(z[i - 1], Call(memmap, free, i))
                 ELSE z[i - 1]]
    OBVIOUS
  <2>2. Passing(z, memmap, free, 0)
    BY <2>1 DEF Passing
  <2> QED  BY <2>2
<1>3. k - 1 \in Nat /\ k - 1 \notin Bad /\ k \in Nat
  BY <1>1, <1>2
<1>4. PICK y : Passing(y, memmap, free, k - 1)
  BY <1>3
<1> DEFINE Newest == IF Gives(memmap, free, k) THEN Append(y[k - 1], Call(memmap, free, k)) ELSE y[k - 1]
<1> DEFINE z == [i \in 0 .. k |-> IF i = k THEN Newest ELSE y[i]]
<1>5. ASSUME NEW i \in 0 .. k
      PROVE  z[i] = IF i = 0 THEN <<>>
                    ELSE IF Gives(memmap, free, i) THEN Append(z[i - 1], Call(memmap, free, i))
                         ELSE z[i - 1]
  <2>1. CASE i = k
    <3>1. z[i] = Newest /\ z[k - 1] = y[k - 1]
      BY <2>1, <1>2, <1>3
    <3> QED  BY <3>1, <2>1, <1>2
  <2>2. CASE i # k
    <3>1. i \in 0 .. (k - 1) /\ z[i] = y[i]
      BY <2>2, <1>3
    <3>2. y[i] = IF i = 0 THEN <<>>
                 ELSE IF Gives(memmap, free, i) THEN Append(y[i - 1], Call(memmap, free, i))
                      ELSE y[i - 1]
      BY <3>1, <1>4 DEF Passing
    <3>3. i # 0 => z[i - 1] = y[i - 1]
      BY <3>1, <1>3
    <3> QED  BY <3>1, <3>2, <3>3
  <2> QED  BY <2>1, <2>2
<1> HIDE DEF Newest
<1>6. Passing(z, memmap, free, k)
  BY <1>5 DEF Passing
<1> HIDE DEF z
<1> QED  BY <1>1, <1>6

LEMMA PageInitIs ==
  ASSUME NEW memmap \in Seq(Entry), NEW end
  PROVE  \E z : /\ Passing(z, memmap, freemem(memmap, end), Len(memmap))
                /\ page_init(memmap, end) = z[Len(memmap)]
<1> DEFINE free == freemem(memmap, end)
<1> DEFINE z == CHOOSE y : Passing(y, memmap, free, Len(memmap))
<1>1. Len(memmap) \in Nat
  OBVIOUS
<1>2. Passing(z, memmap, free, Len(memmap))
  BY <1>1, PassingExists
<1>3. page_init(memmap, end) = z[Len(memmap)]
  BY DEF page_init, Passing, Gives, Call
<1> QED  BY <1>2, <1>3

Called == [base : Nat, n : Nat, found : {"ok"}]

(* What a call says: its frames are those of the entry's zone, and pa2page *)
(* finds the first.                                                        *)
LEMMA CallIs ==
  ASSUME NEW memmap \in Seq(Entry), NEW free \in Nat, NEW i \in Usable(memmap)
  PROVE  /\ Gives(memmap, free, i) =>
               /\ Call(memmap, free, i) \in Called
               /\ \A f : f \in Frames(Call(memmap, free, i)) <=> f \in Nat /\ Fits(memmap[i], free, f)
         /\ ~Gives(memmap, free, i) => \A f \in Nat : ~Fits(memmap[i], free, f)
<1>1. memmap[i] \in Entry
  BY EntryAt DEF Usable
<1>2. PICK b \in Nat, e \in Nat :
        /\ Zone(memmap[i], free) = [begin |-> b * PGSIZE, end |-> e * PGSIZE]
        /\ \A f \in Nat : b <= f /\ f < e <=> Fits(memmap[i], free, f)
  BY <1>1, ZoneFrames
<1>3. PICK p \in Nat \ {0} : p = PGSIZE
  BY PageInitAssumption
<1>4. Gives(memmap, free, i) <=> b < e
  <2>1. Gives(memmap, free, i) <=> b * p < e * p
    BY <1>2, <1>3 DEF Gives
  <2>2. b < e => b * p < e * p
    <3>1. PICK x, y \in Int : x = b * p /\ y = e * p
      OBVIOUS
    <3>2. b < e => x + p <= y
      BY <3>1, Multiples
    <3> QED  BY <1>3, <3>1, <3>2
  <2>3. b * p < e * p => b < e
    BY Multiples
  <2> QED  BY <2>1, <2>2, <2>3
<1>5. ASSUME b < e
      PROVE  /\ Call(memmap, free, i) \in Called
             /\ \A f : f \in Frames(Call(memmap, free, i)) <=> f \in Nat /\ Fits(memmap[i], free, f)
  <2>1. (b * p) \div p = b
    BY Quotient
  <2>2. (e * p - b * p) \div p = e - b
    <3>1. e * p - b * p = (e - b) * p /\ e - b \in Int
      OBVIOUS
    <3> QED  BY <3>1, Quotient
  <2>3. b < npage(memmap) /\ npage(memmap) \in Nat
    <3>1. Fits(memmap[i], free, b)
      BY <1>2, <1>5
    <3> QED  BY <3>1, FramesCounted DEF Fits
  <2>4. Call(memmap, free, i) = [base |-> b, n |-> e - b, found |-> "ok"]
    <3>1. pa2page(b * p, npage(memmap)) = "ok"
      BY <1>3, <2>1, <2>3 DEF pa2page
    <3> QED  BY <1>2, <1>3, <2>1, <2>2, <3>1 DEF Call
  <2>5. Frames(Call(memmap, free, i)) = b .. e - 1
    BY <2>4 DEF Frames
  <2>6. ASSUME NEW f PROVE f \in b .. e - 1 <=> f \in Nat /\ Fits(memmap[i], free, f)
    <3>1. f \in b .. e - 1 <=> f \in Nat /\ b <= f /\ f < e
      OBVIOUS
    <3> QED  BY <1>2, <3>1
  <2>7. e - b \in Nat
    BY <1>5
  <2> QED  BY <2>4, <2>5, <2>6, <2>7 DEF Called
<1>6. ASSUME ~(b < e), NEW f \in Nat PROVE ~Fits(memmap[i], free, f)
  BY <1>2, <1>6
<1> QED  BY <1>4, <1>5, <1>6

(* A frame lies in one entry only. *)
LEMMA OneEntry ==
  ASSUME NEW memmap \in MemoryMap, NEW free, NEW i \in Usable(memmap), NEW j \in Usable(memmap),
         NEW f \in Nat, Fits(memmap[i], free, f), Fits(memmap[j], free, f)
  PROVE  i = j
<1>1. ASSUME NEW k \in Usable(memmap), NEW l \in Usable(memmap), Fits(memmap[k], free, f),
             Fits(memmap[l], free, f), End(memmap[k]) <= memmap[l].addr
      PROVE  FALSE
  <2>1. PICK z, a, x, p \in Nat : /\ z = End(memmap[k]) /\ a = memmap[l].addr
                                  /\ x = f * PGSIZE /\ p = PGSIZE /\ p >= 1
    <3>1. End(memmap[k]) \in Nat /\ memmap[l].addr \in Nat
      BY EntryAt DEF Usable, MemoryMap
    <3>2. f * PGSIZE \in Nat /\ PGSIZE \in Nat /\ PGSIZE >= 1
      BY PageInitAssumption
    <3> QED  BY <3>1, <3>2
  <2>2. x + p <= z /\ a <= x /\ z <= a
    BY <1>1, <2>1 DEF Fits
  <2> QED  BY <2>1, <2>2
<1>2. i # j => End(memmap[i]) <= memmap[j].addr \/ End(memmap[j]) <= memmap[i].addr
  BY DEF MemoryMap
<1> QED  BY <1>1, <1>2

(* The calls s of the first k entries. *)
Calls(s, memmap, free, k) ==
    /\ s \in Seq(Called)
    /\ \A x \in DOMAIN s : \E i \in 1 .. k : Gives(memmap, free, i) /\ s[x] = Call(memmap, free, i)
    /\ \A i \in 1 .. k : Gives(memmap, free, i) => \E x \in DOMAIN s : s[x] = Call(memmap, free, i)
    /\ \A x, y \in DOMAIN s : x # y => Frames(s[x]) \cap Frames(s[y]) = {}

LEMMA OneMoreCall ==
  ASSUME NEW memmap \in MemoryMap, NEW free \in Nat, NEW k \in Nat, k + 1 \in DOMAIN memmap,
         NEW s, Calls(s, memmap, free, k), Gives(memmap, free, k + 1)
  PROVE  Calls(Append(s, Call(memmap, free, k + 1)), memmap, free, k + 1)
<1>1. memmap \in Seq(Entry) /\ k + 1 \in Usable(memmap)
  BY DEF MemoryMap, Gives
<1>2. PICK c \in Called : c = Call(memmap, free, k + 1)
  BY <1>1, CallIs
<1>3. PICK n \in Nat : n = Len(s) /\ DOMAIN s = 1 .. n /\ s \in Seq(Called)
  BY DEF Calls
<1>4. PICK t \in Seq(Called) : /\ t = Append(s, c) /\ DOMAIN t = 1 .. n + 1
                                /\ t[n + 1] = c /\ \A x \in 1 .. n : t[x] = s[x]
  <2>1. PICK t \in Seq(Called) : t = Append(s, c)
    <3>1. s \in Seq(Called)
      BY <1>3
    <3>2. Append(s, c) \in Seq(Called)
      BY <3>1, AppendProperties
    <3> QED  BY <3>2
  <2>2. Len(t) = n + 1 /\ t[n + 1] = c /\ \A x \in 1 .. n : t[x] = s[x]
    BY <1>3, <2>1, AppendProperties
  <2>3. DOMAIN t = 1 .. n + 1
    BY <2>2
  <2> QED  BY <2>1, <2>2, <2>3
<1>5. ASSUME NEW x \in DOMAIN t
      PROVE  \E i \in 1 .. k + 1 : Gives(memmap, free, i) /\ t[x] = Call(memmap, free, i)
  <2>1. CASE x = n + 1
    <3>1. k + 1 \in 1 .. k + 1
      OBVIOUS
    <3> QED  BY <1>2, <1>4, <2>1, <3>1
  <2>2. CASE x # n + 1
    <3>1. x \in 1 .. n /\ t[x] = s[x]
      BY <1>4, <2>2
    <3>2. PICK i \in 1 .. k : Gives(memmap, free, i) /\ s[x] = Call(memmap, free, i)
      BY <1>3, <3>1 DEF Calls
    <3>3. i \in 1 .. k + 1
      OBVIOUS
    <3> QED  BY <3>1, <3>2, <3>3
  <2> QED  BY <2>1, <2>2
<1>6. ASSUME NEW i \in 1 .. k + 1, Gives(memmap, free, i)
      PROVE  \E x \in DOMAIN t : t[x] = Call(memmap, free, i)
  <2>1. CASE i = k + 1
    <3>1. n + 1 \in DOMAIN t
      BY <1>4
    <3> QED  BY <1>2, <1>4, <2>1, <3>1
  <2>2. CASE i # k + 1
    <3>1. i \in 1 .. k
      BY <2>2
    <3>2. PICK x \in DOMAIN s : s[x] = Call(memmap, free, i)
      BY <1>6, <3>1 DEF Calls
    <3>3. x \in 1 .. n /\ x \in DOMAIN t
      BY <1>3, <1>4
    <3> QED  BY <1>4, <3>2, <3>3
  <2> QED  BY <2>1, <2>2
<1>7. ASSUME NEW x \in 1 .. n PROVE Frames(s[x]) \cap Frames(c) = {}
  <2>1. PICK i \in 1 .. k : Gives(memmap, free, i) /\ s[x] = Call(memmap, free, i)
    BY <1>3 DEF Calls
  <2>2. i \in Usable(memmap) /\ i # k + 1
    BY <2>1 DEF Gives
  <2>3. ASSUME NEW f, f \in Frames(s[x]), f \in Frames(c) PROVE FALSE
    <3>1. f \in Nat /\ Fits(memmap[i], free, f)
      BY <1>1, <2>1, <2>2, <2>3, CallIs
    <3>2. Fits(memmap[k + 1], free, f)
      BY <1>1, <1>2, <2>3, CallIs
    <3> QED  BY <1>1, <2>2, <3>1, <3>2, OneEntry
  <2> QED  BY <2>3
<1>8. ASSUME NEW x \in DOMAIN t, NEW y \in DOMAIN t, x # y
      PROVE  Frames(t[x]) \cap Frames(t[y]) = {}
  <2>1. CASE x = n + 1
    <3>1. y \in 1 .. n /\ t[y] = s[y] /\ t[x] = c
      BY <1>4, <1>8, <2>1
    <3> QED  BY <1>7, <3>1
  <2>2. CASE y = n + 1
    <3>1. x \in 1 .. n /\ t[x] = s[x] /\ t[y] = c
      BY <1>4, <1>8, <2>2
    <3> QED  BY <1>7, <3>1
  <2>3. CASE x # n + 1 /\ y # n + 1
    <3>1. x \in DOMAIN s /\ t[x] = s[x] /\ y \in DOMAIN s /\ t[y] = s[y]
      BY <1>3, <1>4, <2>3
    <3> QED  BY <1>8, <3>1 DEF Calls
  <2> QED  BY <2>1, <2>2, <2>3
<1>9. Calls(t, memmap, free, k + 1)
  BY <1>5, <1>6, <1>8 DEF Calls
<1> QED  BY <1>2, <1>4, <1>9

LEMMA AllCalls ==
  ASSUME NEW memmap \in MemoryMap, NEW free \in Nat, NEW z, NEW m \in Nat, m = Len(memmap),
         Passing(z, memmap, free, m)
  PROVE  Calls(z[m], memmap, free, m)
<1> DEFINE Bad == {k \in Nat : k <= m /\ ~Calls(z[k], memmap, free, k)}
<1> SUFFICES ASSUME Bad # {} PROVE FALSE
  OBVIOUS
<1>1. PICK k \in Bad : \A j \in Bad : k <= j
  BY LeastNatural
<1>2. k \in Nat /\ k <= m /\ ~Calls(z[k], memmap, free, k)
  BY <1>1
<1>3. k # 0
  <2>1. z[0] = <<>>
    BY DEF Passing
  <2>2. <<>> \in Seq(Called) /\ DOMAIN <<>> = {}
    OBVIOUS
  <2>3. Calls(<<>>, memmap, free, 0)
    BY <2>2 DEF Calls
  <2> QED  BY <1>2, <2>1, <2>3
<1>4. PICK j \in Nat : j + 1 = k
  <2>1. k - 1 \in Nat /\ (k - 1) + 1 = k
    BY <1>2, <1>3
  <2> QED  BY <2>1
<1>5. j <= m /\ j \notin Bad /\ k - 1 = j
  <2>1. ~(k <= j)
    BY <1>2, <1>4
  <2> QED  BY <1>1, <1>2, <1>4, <2>1
<1>6. Calls(z[j], memmap, free, j)
  BY <1>5
<1>7. z[k] = IF Gives(memmap, free, k) THEN Append(z[j], Call(memmap, free, k)) ELSE z[j]
  <2>1. k \in 0 .. m
    BY <1>2
  <2>2. z[k] = IF k = 0 THEN <<>>
               ELSE IF Gives(memmap, free, k) THEN Append(z[k - 1], Call(memmap, free, k))
                    ELSE z[k - 1]
    BY <2>1 DEF Passing
  <2> QED  BY <1>3, <1>5, <2>2
<1>8. CASE Gives(memmap, free, k)
  <2>1. j + 1 \in DOMAIN memmap
    BY <1>4, <1>8 DEF Gives, Usable
  <2> QED  BY <1>2, <1>4, <1>6, <1>7, <1>8, <2>1, OneMoreCall
<1>9. CASE ~Gives(memmap, free, k)
  <2>1. ASSUME NEW i \in 1 .. k, Gives(memmap, free, i) PROVE i \in 1 .. j
    BY <1>4, <1>9, <2>1
  <2>2. 1 .. j \subseteq 1 .. k
    BY <1>4
  <2>3. Calls(z[j], memmap, free, k)
    BY <1>6, <2>1, <2>2 DEF Calls
  <2> QED  BY <1>2, <1>7, <1>9, <2>3
<1> QED  BY <1>8, <1>9

LEMMA RegionsOf ==
  ASSUME NEW memmap \in MemoryMap, NEW end \in Nat
  PROVE  RegionsUsable(memmap, end)
<1>1. memmap \in Seq(Entry)
  BY DEF MemoryMap
<1>2. PICK n \in Nat :
        /\ n = npage(memmap)
        /\ \A i \in Usable(memmap), f \in Nat :
              /\ memmap[i].addr <= f * PGSIZE
              /\ f * PGSIZE + PGSIZE <= End(memmap[i])
              /\ f * PGSIZE + PGSIZE <= KMEMSIZE
              => f < n
  BY <1>1, FramesCounted
<1>3. PICK p \in Nat \ {0} : p = PGSIZE
  BY PageInitAssumption
<1>4. PICK free \in Nat : free = freemem(memmap, end)
  <2>1. PICK q \in Nat : ROUNDUP(end) = q * p
    BY <1>3, Up
  <2>2. q * p \in Nat /\ PageStruct * n \in Nat
    BY PageInitAssumption
  <2> QED  BY <1>2, <2>1, <2>2 DEF freemem
<1>5. PICK m \in Nat : m = Len(memmap) /\ DOMAIN memmap = 1 .. m
  BY <1>1
<1>6. PICK s \in Seq(Called) : s = page_init(memmap, end) /\ Calls(s, memmap, free, m)
  <2>1. PICK z : Passing(z, memmap, free, m) /\ page_init(memmap, end) = z[m]
    BY <1>1, <1>4, <1>5, PageInitIs
  <2>2. Calls(z[m], memmap, free, m)
    BY <1>5, <2>1, AllCalls
  <2>3. z[m] \in Seq(Called)
    BY <2>2 DEF Calls
  <2> QED  BY <2>1, <2>2, <2>3
<1>7. PICK k \in Nat : KMEMSIZE = k * p /\ KMEMSIZE \div p = k
  <2>1. PICK k \in Nat : ROUNDDOWN(KMEMSIZE) = k * p /\ KMEMSIZE \div p = k
    BY <1>3, PageInitAssumption, Down
  <2>2. KMEMSIZE = ROUNDDOWN(KMEMSIZE)
    BY PageInitAssumption DEF ROUNDDOWN
  <2> QED  BY <2>1, <2>2
<1>8. ASSUME NEW f \in Nat PROVE f < k <=> f * p + p <= KMEMSIZE
  <2>1. f * p + p = (f + 1) * p
    BY Multiples
  <2>2. f + 1 < k => (f + 1) * p + p <= k * p
    BY Multiples
  <2>3. k * p < (f + 1) * p => k < f + 1
    BY Multiples
  <2>4. k < f + 1 => k * p + p <= (f + 1) * p
    BY Multiples
  <2>5. PICK x, y \in Int : x = (f + 1) * p /\ y = k * p
    OBVIOUS
  <2>6. f < k => x <= y
    <3>1. CASE f + 1 < k
      BY <2>2, <2>5, <3>1
    <3>2. CASE f + 1 = k
      BY <2>5, <3>2
    <3> QED  BY <3>1, <3>2
  <2>7. x <= y => f < k
    BY <2>4, <2>5
  <2> QED  BY <1>7, <2>1, <2>5, <2>6, <2>7
<1>9. ASSUME NEW i \in Usable(memmap), NEW f \in Nat, Within(f, memmap[i]), f < k
      PROVE  f < n /\ (free <= f * p => Fits(memmap[i], free, f))
  <2>1. (f + 1) * p = f * p + p
    BY Multiples
  <2>2. memmap[i].addr <= f * p /\ f * p + p <= End(memmap[i]) /\ f * p + p <= KMEMSIZE
    BY <1>3, <1>8, <1>9, <2>1 DEF Within
  <2> QED  BY <1>2, <1>3, <2>2 DEF Fits
<1>10. ASSUME NEW i \in Usable(memmap), NEW f \in Nat, Fits(memmap[i], free, f)
       PROVE  Within(f, memmap[i]) /\ f < k /\ f < n /\ f * p >= free
  <2>1. (f + 1) * p = f * p + p
    BY Multiples
  <2>2. /\ memmap[i].addr <= f * p /\ f * p + p <= End(memmap[i]) /\ f * p + p <= KMEMSIZE
        /\ free <= f * p
    BY <1>3, <1>10 DEF Fits
  <2> QED  BY <1>2, <1>3, <1>8, <2>1, <2>2 DEF Within
<1>11. \A x \in DOMAIN s : s[x].found = "ok"
  <2>1. \A c \in Called : c.found = "ok"
    BY DEF Called
  <2>2. \A x \in DOMAIN s : s[x] \in Called
    OBVIOUS
  <2> QED  BY <2>1, <2>2
<1>12. \A x, y \in DOMAIN s : x # y => Frames(s[x]) \cap Frames(s[y]) = {}
  BY <1>6 DEF Calls
<1>13. ASSUME NEW f, f \in UNION {Frames(s[x]) : x \in DOMAIN s}
       PROVE  /\ f \in 0 .. k - 1 /\ f < n /\ f * p >= free
              /\ \E i \in Usable(memmap) : Within(f, memmap[i])
  <2>1. PICK x \in DOMAIN s : f \in Frames(s[x])
    BY <1>13
  <2>2. PICK i \in 1 .. m : Gives(memmap, free, i) /\ s[x] = Call(memmap, free, i)
    BY <1>6 DEF Calls
  <2>3. i \in Usable(memmap)
    BY <2>2 DEF Gives
  <2>4. f \in Nat /\ Fits(memmap[i], free, f)
    BY <1>1, <2>1, <2>2, <2>3, CallIs
  <2> QED  BY <1>10, <2>3, <2>4
<1>14. ASSUME NEW f \in 0 .. k - 1, f * p >= free, NEW i \in Usable(memmap), Within(f, memmap[i])
       PROVE  f \in UNION {Frames(s[x]) : x \in DOMAIN s}
  <2>1. f \in Nat /\ f < k
    OBVIOUS
  <2>2. free <= f * p
    BY <1>14, <2>1
  <2>3. Fits(memmap[i], free, f)
    BY <1>9, <1>14, <2>1, <2>2
  <2>4. Gives(memmap, free, i)
    BY <1>1, <2>1, <2>3, CallIs
  <2>5. f \in Frames(Call(memmap, free, i))
    BY <1>1, <2>1, <2>3, <2>4, CallIs
  <2>6. i \in 1 .. m
    BY <1>5 DEF Usable
  <2>7. PICK x \in DOMAIN s : s[x] = Call(memmap, free, i)
    BY <1>6, <2>4, <2>6 DEF Calls
  <2> QED  BY <2>5, <2>7
<1>15. UNION {Frames(s[x]) : x \in DOMAIN s} =
          {f \in 0 .. k - 1 : f < n /\ f * p >= free /\ \E i \in Usable(memmap) : Within(f, memmap[i])}
  BY <1>13, <1>14
<1>16. ASSUME NEW f \in n .. k - 1, NEW i \in Usable(memmap) PROVE ~Within(f, memmap[i])
  <2>1. f \in Nat /\ f < k /\ ~(f < n)
    OBVIOUS
  <2> QED  BY <1>9, <2>1
<1>17. UNION {Frames(s[x]) : x \in DOMAIN s} =
          {f \in 0 .. KMEMSIZE \div PGSIZE - 1 :
              /\ f < n /\ f * PGSIZE >= free
              /\ \E i \in Usable(memmap) : Within(f, memmap[i])}
  BY <1>3, <1>7, <1>15
<1>18. \A f \in n .. KMEMSIZE \div PGSIZE - 1 : \A i \in Usable(memmap) : ~Within(f, memmap[i])
  BY <1>3, <1>7, <1>16
<1>19. page_init(memmap, end) = s /\ npage(memmap) = n /\ freemem(memmap, end) = free
  BY <1>2, <1>4, <1>6
<1>20. \A x \in DOMAIN page_init(memmap, end) : page_init(memmap, end)[x].found = "ok"
  BY <1>11, <1>19
<1>21. \A x, y \in DOMAIN page_init(memmap, end) : x # y =>
          Frames(page_init(memmap, end)[x]) \cap Frames(page_init(memmap, end)[y]) = {}
  BY <1>12, <1>19
<1>22. UNION {Frames(page_init(memmap, end)[x]) : x \in DOMAIN page_init(memmap, end)} =
          {f \in 0 .. KMEMSIZE \div PGSIZE - 1 :
              /\ f < npage(memmap) /\ f * PGSIZE >= freemem(memmap, end)
              /\ \E i \in Usable(memmap) : Within(f, memmap[i])}
  BY <1>17, <1>19
<1>23. \A f \in npage(memmap) .. KMEMSIZE \div PGSIZE - 1 : \A i \in Usable(memmap) : ~Within(f, memmap[i])
  BY <1>18, <1>19
<1> QED  BY ONLY <1>20, <1>21, <1>22, <1>23 DEF RegionsUsable

(* page_init, for every memory map of any number of entries, every size of *)
(* a frame and of a struct Page, wherever the kernel ends: the manager     *)
(* gets exactly the frames that lie wholly in a usable entry, behind the   *)
(* array of pages and below KMEMSIZE, none twice; so the run's maps too.   *)
THEOREM RegionsTheorem ==
  /\ \A memmap \in MemoryMap, end \in Nat : RegionsUsable(memmap, end)
  /\ MCSpec => []RegionsAreUsable
<1> DEFINE Asked == in[1] = "memory" => in[2] \in MemEntries /\ in[3] \in Nat
<1>1. MCInit => Asked
  BY DEF MCInit
<1>2. Asked /\ [MCNext]_allvars => Asked'
  <2> SUFFICES ASSUME Asked, [MCNext]_allvars PROVE Asked'
    OBVIOUS
  <2>1. CASE UNCHANGED in
    BY <2>1
  <2>2. CASE Boot
    <3>1. CASE \E q \in Programs, text \in Text : in' = <<"load", q, text>>
      BY <3>1
    <3>2. CASE \E entry \in MemEntries, end \in {0, 3, 5} : in' = <<"memory", entry, end>>
      BY <3>2
    <3>3. CASE \E la \in 0 .. 11, pa \in 0 .. 7 : in' = <<"map", la, pa>>
      BY <3>3
    <3> QED  BY <2>2, <3>1, <3>2, <3>3 DEF Boot
  <2>3. CASE Answered
    BY <2>3 DEF Answered
  <2> QED  BY <2>1, <2>2, <2>3 DEF MCNext, Interruptible, Switching, allvars
<1>3. Asked => RegionsAreUsable
  <2> SUFFICES ASSUME in[1] = "memory", in[2] \in MemEntries, in[3] \in Nat, NEW other \in MemEntries,
                      End(in[2]) <= other.addr \/ End(other) <= in[2].addr
               PROVE  RegionsUsable(<<in[2], other>>, in[3])
    BY DEF RegionsAreUsable
  <2>1. MemEntries \subseteq Entry
    BY DEF MemEntries, E820, Entry, E820_ARM, E820_ARR
  <2>2. PICK memmap \in Seq(Entry) : memmap = <<in[2], other>>
    <3>1. in[2] \in Entry /\ other \in Entry
      BY <2>1
    <3>2. <<in[2], other>> \in Seq(Entry)
      BY <3>1
    <3> QED  BY <3>2
  <2>3. DOMAIN memmap = {1, 2} /\ memmap[1] = in[2] /\ memmap[2] = other
    BY <2>2
  <2>4. memmap \in MemoryMap
    BY <2>3 DEF MemoryMap, Usable
  <2> QED  BY <2>2, <2>4, RegionsOf
<1>4. \A memmap \in MemoryMap, end \in Nat : RegionsUsable(memmap, end)
  BY RegionsOf
<1>5. MCSpec => []RegionsAreUsable
  BY <1>1, <1>2, <1>3, PTL DEF MCSpec
<1> QED  BY <1>4, <1>5

-----------------------------------------------------------------------------
(* The switch of modes, wherever the stacks and the static frame are       *)

(* The segments and flags of each mode. *)
Segments(m) ==
    /\ m \in {MS!KERNEL_CS, MS!USER_CS} /\ cs = m
    /\ m = MS!KERNEL_CS => ds = MS!KERNEL_DS /\ ss = MS!KERNEL_DS /\ eflags = 0
    /\ m = MS!USER_CS => ds = MS!USER_DS /\ ss = MS!USER_DS /\ eflags = MS!FL_IOPL_MASK

(* Where the test is says what is on its stack. *)
InTest ==
    \/ eip \in {1, 2, 3} /\ esp = stacktop /\ regs = stacktop
    \/ /\ eip \in {4, 5, 6, 7, 8} /\ regs = stacktop - 2
       /\ eip \in {4, 7, 8} => esp = stacktop - 2
       /\ eip \in {5, 6} => esp = stacktop - 4
       /\ mem[stacktop - 2] = stacktop
       /\ mem[stacktop - 1] = (IF eip \in {7, 8} THEN 3 ELSE 2)

ModeInv ==
    /\ mem \in [MS!Address -> Int]
    /\ Segments(asked)
    /\ InTest

(* What a trap that asks for the mode m leaves. *)
Invisible(next, m) ==
    /\ mem' \in [MS!Address -> Int] /\ Segments(m)'
    /\ eip' = next /\ esp' = esp /\ regs' = regs
    /\ \A a \in esp .. stacktop - 1 : mem'[a] = mem[a]

LEMMA Places ==
  ASSUME NEW s \in Nat, NEW e \in Nat, NEW k \in Nat, s = stacktop, e = esp0, k = switchk2u
  PROVE  /\ s >= 11 /\ s + 9 <= e /\ e <= k
         /\ MS!Address = 0 .. k + 7
BY StackAssumption DEF MS!Address, MS!FrameSize

(* What a trap pushes, word by word. *)
Frame(p, tf, trapno, next) ==
    /\ p \in [MS!Address -> Int]
    /\ p[tf - 1] = tf /\ p[tf] = regs /\ p[tf + 1] = ds /\ p[tf + 2] = trapno
    /\ p[tf + 3] = next /\ p[tf + 4] = cs /\ p[tf + 5] = eflags
    /\ MS!Ring = MS!DPL_USER => p[tf + 6] = esp /\ p[tf + 7] = ss
    /\ \A a \in MS!Address : a \notin tf - 1 .. tf + 7 => p[a] = mem[a]
    /\ MS!Ring # MS!DPL_USER => \A a \in MS!Address : a \notin tf - 1 .. tf + 5 => p[a] = mem[a]

LEMMA Pushed ==
  ASSUME mem \in [MS!Address -> Int],
         regs \in Int, ds \in Int, cs \in Int, eflags \in Int, esp \in Int, ss \in Int,
         NEW tf \in Int, NEW trapno \in Int, NEW next \in Int, 0 <= tf - 1, tf + 7 < switchk2u
  PROVE  Frame(MS!alltraps(tf, trapno, next), tf, trapno, next)
<1> DEFINE p == MS!alltraps(tf, trapno, next)
<1> DEFINE A == MS!Address
<1> DEFINE q == [mem EXCEPT ![tf - 1] = tf, ![tf + MS!tf_regs] = regs, ![tf + MS!tf_ds] = ds,
                            ![tf + MS!tf_trapno] = trapno, ![tf + MS!tf_eip] = next,
                            ![tf + MS!tf_cs] = cs, ![tf + MS!tf_eflags] = eflags]
<1>1. /\ tf - 1 \in A /\ tf \in A /\ tf + 1 \in A /\ tf + 2 \in A /\ tf + 3 \in A
      /\ tf + 4 \in A /\ tf + 5 \in A /\ tf + 6 \in A /\ tf + 7 \in A
  BY StackAssumption DEF MS!Address, MS!FrameSize
<1>2. A \subseteq Int
  BY DEF MS!Address
<1> HIDE DEF A
<1>3. /\ q \in [A -> Int]
      /\ q[tf - 1] = tf /\ q[tf] = regs /\ q[tf + 1] = ds /\ q[tf + 2] = trapno
      /\ q[tf + 3] = next /\ q[tf + 4] = cs /\ q[tf + 5] = eflags
      /\ \A a \in A : a \notin tf - 1 .. tf + 5 => q[a] = mem[a]
  <2>1. mem \in [A -> Int]
    BY DEF A
  <2>2. q = [mem EXCEPT ![tf - 1] = tf, ![tf + 0] = regs, ![tf + 1] = ds, ![tf + 2] = trapno,
                        ![tf + 3] = next, ![tf + 4] = cs, ![tf + 5] = eflags]
    BY DEF MS!tf_regs, MS!tf_ds, MS!tf_trapno, MS!tf_eip, MS!tf_cs, MS!tf_eflags
  <2> HIDE DEF q
  <2> QED  BY <1>1, <1>2, <2>1, <2>2
<1>4. p = IF MS!Ring = MS!DPL_USER THEN [q EXCEPT ![tf + MS!tf_esp] = esp, ![tf + MS!tf_ss] = ss] ELSE q
  BY DEF MS!alltraps
<1> HIDE DEF p, q
<1>5. ASSUME MS!Ring = MS!DPL_USER PROVE Frame(p, tf, trapno, next)
  <2>2. p = [q EXCEPT ![tf + 6] = esp, ![tf + 7] = ss]
    BY <1>4, <1>5 DEF MS!tf_esp, MS!tf_ss
  <2>3. /\ p \in [A -> Int]
        /\ p[tf - 1] = tf /\ p[tf] = regs /\ p[tf + 1] = ds /\ p[tf + 2] = trapno
        /\ p[tf + 3] = next /\ p[tf + 4] = cs /\ p[tf + 5] = eflags
        /\ p[tf + 6] = esp /\ p[tf + 7] = ss
        /\ \A a \in A : a \notin tf - 1 .. tf + 7 => p[a] = mem[a]
    BY <1>1, <1>2, <1>3, <2>2
    <2> QED  BY ONLY <1>5, <2>3 DEF A, Frame
<1>6. ASSUME MS!Ring # MS!DPL_USER PROVE Frame(p, tf, trapno, next)
  <2>1. p = q
    BY <1>4, <1>6
  <2>2. \A a \in A : a \notin tf - 1 .. tf + 7 => p[a] = mem[a]
    <3> SUFFICES ASSUME NEW a \in A, a \notin tf - 1 .. tf + 7 PROVE p[a] = mem[a]
      OBVIOUS
    <3>1. a \notin tf - 1 .. tf + 5
      BY <1>2
    <3> QED  BY <1>3, <2>1, <3>1
  <2> QED  BY ONLY <1>3, <1>6, <2>1, <2>2 DEF A, Frame
<1> QED  BY <1>5, <1>6 DEF p

(* What the processor goes on with. *)
LEMMA Returned ==
  ASSUME NEW m, NEW frame \in Int, MS!trapret(m, frame)
  PROVE  /\ regs' = m[frame] /\ ds' = m[frame + 1]
         /\ eip' = m[frame + 3] /\ cs' = m[frame + 4] /\ eflags' = m[frame + 5]
         /\ m[frame + 4] = MS!USER_CS => esp' = m[frame + 6] /\ ss' = m[frame + 7]
         /\ m[frame + 4] # MS!USER_CS => esp' = frame + 6 /\ ss' = MS!KERNEL_DS
<1>1. frame + 0 = frame /\ frame + 8 - 2 = frame + 6
  OBVIOUS
<1> QED
  BY <1>1 DEF MS!trapret, MS!tf_regs, MS!tf_ds, MS!tf_trapno, MS!tf_eip, MS!tf_cs, MS!tf_eflags, MS!tf_esp,
     MS!tf_ss, MS!FrameSize

(* The frame that leads to user mode. *)
LEMMA ToUser ==
  ASSUME NEW p \in [MS!Address -> Int], NEW tf \in Int, 0 <= tf - 1, tf + 7 < switchk2u,
         p[tf + 4] # MS!USER_CS, NEW m, m = MS!switch_to_user(p, tf)
  PROVE  /\ m \in [MS!Address -> Int] /\ m[tf - 1] = switchk2u
         /\ m[switchk2u] = p[tf] /\ m[switchk2u + 1] = MS!USER_DS
         /\ m[switchk2u + 3] = p[tf + 3] /\ m[switchk2u + 4] = MS!USER_CS
         /\ m[switchk2u + 5] = MS!FL_IOPL_MASK /\ m[switchk2u + 6] = tf + 6
         /\ m[switchk2u + 7] = MS!USER_DS
         /\ \A a \in MS!Address : a # tf - 1 /\ a < switchk2u => m[a] = p[a]
<1>1. PICK k \in Nat : k = switchk2u
  BY StackAssumption
<1> DEFINE A == 0 .. k + 7
<1>2. MS!Address = A
  BY <1>1 DEF MS!Address, MS!FrameSize
<1> DEFINE q == [a \in A |-> IF a \in k .. k + 7 THEN p[tf + a - k] ELSE p[a]]
<1>3. MS!Copied(p, k, tf, 8) = q
  <2>1. DOMAIN p = A /\ k + 8 - 1 = k + 7
    BY <1>2
  <2> QED  BY <2>1 DEF MS!Copied
<1>4. q \in [A -> Int]
  <2> SUFFICES ASSUME NEW a \in A PROVE q[a] \in Int
    OBVIOUS
  <2>1. a \in k .. k + 7 => tf + a - k \in A
    BY <1>1
  <2> QED  BY <1>2, <2>1
<1>5. q[k] = p[tf] /\ q[k + 3] = p[tf + 3] /\ \A a \in A : a < k => q[a] = p[a]
  <2>1. /\ k \in A /\ k + 3 \in A /\ tf + k - k = tf /\ tf + (k + 3) - k = tf + 3
        /\ k \in k .. k + 7 /\ k + 3 \in k .. k + 7
        /\ \A a \in A : a < k => a \notin k .. k + 7
    OBVIOUS
  <2> QED  BY <2>1
<1> HIDE DEF q
<1>6. m = [q EXCEPT ![k + 4] = 27, ![k + 1] = 35, ![k + 7] = 35, ![k + 6] = tf + 6, ![k + 5] = 3, ![tf - 1] = k]
  <2>1. tf + 8 - 2 = tf + 6
    OBVIOUS
  <2>2. m = [q EXCEPT ![k + 4] = 27, ![k + 1] = 35, ![k + 7] = 35, ![k + 6] = tf + 8 - 2, ![k + 5] = 3,
                      ![tf - 1] = k]
    BY <1>1, <1>3 DEF MS!switch_to_user, MS!tf_cs, MS!tf_ds, MS!tf_ss, MS!tf_esp, MS!tf_eflags, MS!USER_CS,
                      MS!USER_DS, MS!FL_IOPL_MASK, MS!FrameSize
  <2> QED  BY <2>1, <2>2
<1>7. /\ tf - 1 \in A /\ tf - 1 < k /\ k \in A /\ k + 1 \in A /\ k + 3 \in A /\ k + 4 \in A
      /\ k + 5 \in A /\ k + 6 \in A /\ k + 7 \in A
  BY <1>1
<1>8. /\ m \in [A -> Int] /\ m[tf - 1] = k
      /\ m[k] = q[k] /\ m[k + 1] = 35 /\ m[k + 3] = q[k + 3] /\ m[k + 4] = 27
      /\ m[k + 5] = 3 /\ m[k + 6] = tf + 6 /\ m[k + 7] = 35
      /\ \A a \in A : a # tf - 1 /\ a < k => m[a] = q[a]
  <2> HIDE DEF A
  <2>1. A \subseteq Int
    BY DEF A
  <2>2. m \in [A -> Int]
    <3>1. tf + 6 \in Int /\ k \in Int
      OBVIOUS
    <3> QED  BY ONLY <1>4, <1>6, <1>7, <3>1, k \in Nat, tf \in Int
  <2>3. /\ m[tf - 1] = k /\ m[k] = q[k] /\ m[k + 1] = 35 /\ m[k + 3] = q[k + 3] /\ m[k + 4] = 27
        /\ m[k + 5] = 3 /\ m[k + 6] = tf + 6 /\ m[k + 7] = 35
    BY ONLY <1>4, <1>6, <1>7, k \in Nat, tf \in Int
  <2>4. \A a \in A : a # tf - 1 /\ a < k => m[a] = q[a]
    BY ONLY <1>4, <1>6, <2>1, k \in Nat, tf \in Int
  <2> QED  BY <2>2, <2>3, <2>4
<1>9. m[k + 3] = p[tf + 3] /\ m[k] = p[tf] /\ \A a \in A : a # tf - 1 /\ a < k => m[a] = p[a]
  BY <1>5, <1>8
<1> QED
  BY ONLY <1>1, <1>2, <1>8, <1>9 DEF MS!USER_CS, MS!USER_DS, MS!FL_IOPL_MASK

KernelCopy(p, tf, s) ==
    [MS!Copied([p EXCEPT ![tf + 4] = 8, ![tf + 1] = 16, ![tf + 5] = 0], s, tf, 6) EXCEPT ![tf - 1] = s]

KernelFrame(m, p, tf, s) ==
    /\ m \in [MS!Address -> Int] /\ m[tf - 1] = s
    /\ m[s] = p[tf] /\ m[s + 1] = MS!KERNEL_DS
    /\ m[s + 3] = p[tf + 3] /\ m[s + 4] = MS!KERNEL_CS /\ m[s + 5] = 0
    /\ \A a \in MS!Address : s + 6 <= a /\ a < tf - 1 => m[a] = p[a]

(* The frame that leads to kernel mode, below the stack pointer it holds. *)
LEMMA Lowered ==
  ASSUME NEW p \in [MS!Address -> Int], NEW tf \in Int, tf < switchk2u,
         NEW s \in Int, 0 <= s, s + 6 < tf, NEW m, m = KernelCopy(p, tf, s)
  PROVE  KernelFrame(m, p, tf, s)
<1>1. PICK k \in Nat : k = switchk2u
  BY StackAssumption
<1> DEFINE A == 0 .. k + 7
<1>2. MS!Address = A
  BY <1>1 DEF MS!Address, MS!FrameSize
<1>3. PICK r \in [A -> Int] : r = [p EXCEPT ![tf + 4] = 8, ![tf + 1] = 16, ![tf + 5] = 0]
  <2>1. p \in [A -> Int]
    BY <1>2
  <2>2. tf + 1 \in A /\ tf + 4 \in A /\ tf + 5 \in A
    BY <1>1
  <2> HIDE DEF A
  <2>3. [p EXCEPT ![tf + 4] = 8, ![tf + 1] = 16, ![tf + 5] = 0] \in [A -> Int]
    BY ONLY <2>1, <2>2, tf \in Int
  <2> QED  BY <2>3
<1>4. /\ tf \in A /\ tf + 1 \in A /\ tf + 3 \in A /\ tf + 4 \in A /\ tf + 5 \in A /\ tf - 1 \in A
      /\ s \in A /\ s + 1 \in A /\ s + 3 \in A /\ s + 4 \in A /\ s + 5 \in A
  BY <1>1
<1>5. /\ r[tf] = p[tf] /\ r[tf + 1] = 16 /\ r[tf + 3] = p[tf + 3] /\ r[tf + 4] = 8 /\ r[tf + 5] = 0
      /\ \A a \in A : a < tf => r[a] = p[a]
  <2>1. p \in [A -> Int] /\ A \subseteq Int
    BY <1>2
  <2> HIDE DEF A
  <2>2. r[tf] = p[tf] /\ r[tf + 1] = 16 /\ r[tf + 3] = p[tf + 3] /\ r[tf + 4] = 8 /\ r[tf + 5] = 0
    BY ONLY <1>3, <1>4, <2>1, tf \in Int
  <2>3. \A a \in A : a < tf => r[a] = p[a]
    BY ONLY <1>3, <2>1, tf \in Int
  <2> QED  BY <2>2, <2>3
<1> DEFINE q == [a \in A |-> IF a \in s .. s + 5 THEN r[tf + a - s] ELSE r[a]]
<1>6. MS!Copied(r, s, tf, 6) = q
  <2>1. DOMAIN r = A /\ s + 6 - 1 = s + 5
    OBVIOUS
  <2> QED  BY <2>1 DEF MS!Copied
<1>7. q \in [A -> Int]
  <2> SUFFICES ASSUME NEW a \in A PROVE q[a] \in Int
    OBVIOUS
  <2>1. a \in s .. s + 5 => tf + a - s \in A
    BY <1>1
  <2> QED  BY <2>1
<1>8. /\ q[s] = r[tf] /\ q[s + 1] = r[tf + 1] /\ q[s + 3] = r[tf + 3] /\ q[s + 4] = r[tf + 4]
      /\ q[s + 5] = r[tf + 5] /\ \A a \in A : s + 6 <= a => q[a] = r[a]
  <2>1. /\ tf + s - s = tf /\ tf + (s + 1) - s = tf + 1 /\ tf + (s + 3) - s = tf + 3
        /\ tf + (s + 4) - s = tf + 4 /\ tf + (s + 5) - s = tf + 5
        /\ s \in s .. s + 5 /\ s + 1 \in s .. s + 5 /\ s + 3 \in s .. s + 5
        /\ s + 4 \in s .. s + 5 /\ s + 5 \in s .. s + 5
        /\ \A a \in A : s + 6 <= a => a \notin s .. s + 5
    OBVIOUS
  <2> QED  BY <1>4, <2>1
<1> HIDE DEF q
<1>9. m = [q EXCEPT ![tf - 1] = s]
  BY <1>3, <1>6 DEF KernelCopy
<1>10. /\ m \in [A -> Int] /\ m[tf - 1] = s
       /\ m[s] = q[s] /\ m[s + 1] = q[s + 1] /\ m[s + 3] = q[s + 3] /\ m[s + 4] = q[s + 4] /\ m[s + 5] = q[s + 5]
       /\ \A a \in A : s + 6 <= a /\ a < tf - 1 => m[a] = q[a]
  <2>1. A \subseteq Int /\ s + 6 <= tf - 1
    BY <1>1
  <2> HIDE DEF A
  <2>2. m \in [A -> Int]
    BY ONLY <1>7, <1>9, s \in Int
  <2>3. /\ m[tf - 1] = s
        /\ m[s] = q[s] /\ m[s + 1] = q[s + 1] /\ m[s + 3] = q[s + 3] /\ m[s + 4] = q[s + 4] /\ m[s + 5] = q[s + 5]
    BY ONLY <1>4, <1>7, <1>9, <2>1, s \in Int, tf \in Int
  <2>4. \A a \in A : s + 6 <= a /\ a < tf - 1 => m[a] = q[a]
    BY ONLY <1>7, <1>9, <2>1, s \in Int, tf \in Int
  <2> QED  BY <2>2, <2>3, <2>4
<1>11. \A a \in A : s + 6 <= a /\ a < tf - 1 => m[a] = p[a]
  <2> SUFFICES ASSUME NEW a \in A, s + 6 <= a, a < tf - 1 PROVE m[a] = p[a]
    OBVIOUS
  <2>1. a < tf
    BY <1>1
  <2> QED  BY <1>5, <1>8, <1>10, <2>1
<1> QED
  BY <1>2, <1>5, <1>8, <1>10, <1>11 DEF KernelFrame, MS!KERNEL_CS, MS!KERNEL_DS

LEMMA ToKernel ==
  ASSUME NEW p \in [MS!Address -> Int], NEW tf \in Int, tf < switchk2u,
         p[tf + 4] # MS!KERNEL_CS, NEW s \in Int, s + 6 = p[tf + 6], 0 <= s, s + 6 < tf
  PROVE  KernelFrame(MS!switch_to_kernel(p, tf), p, tf, s)
<1> DEFINE m == MS!switch_to_kernel(p, tf)
<1>1. p[tf + 6] - (8 - 2) = s
  <2>1. (s + 6) - (8 - 2) = s
    OBVIOUS
  <2> QED  BY <2>1
<1>2. 8 - 2 = 6
  OBVIOUS
<1>3. m = [MS!Copied([p EXCEPT ![tf + 4] = 8, ![tf + 1] = 16, ![tf + 5] = 0], p[tf + 6] - (8 - 2), tf, 8 - 2)
              EXCEPT ![tf - 1] = p[tf + 6] - (8 - 2)]
  BY DEF MS!switch_to_kernel, MS!tf_cs, MS!tf_ds, MS!tf_esp, MS!tf_eflags, MS!KERNEL_CS, MS!KERNEL_DS,
         MS!FrameSize
<1>4. m = KernelCopy(p, tf, s)
  BY ONLY <1>1, <1>2, <1>3 DEF KernelCopy
<1> QED
  BY ONLY <1>4, Lowered, p \in [MS!Address -> Int], tf \in Int, tf < switchk2u, s \in Int, 0 <= s,
          s + 6 < tf

(* The mode that a trap asks for. *)
Aims(trapno, c, m) ==
    \/ trapno = MS!T_SWITCH_TOU /\ m = MS!USER_CS
    \/ trapno = MS!T_SWITCH_TOK /\ m = MS!KERNEL_CS
    \/ trapno = MS!IRQ_KBD /\ m = (CASE c = "3" -> MS!USER_CS [] c = "0" -> MS!KERNEL_CS
                                     [] c \notin {"0", "3"} -> cs)
    \/ trapno = MS!T_GPFLT /\ m = cs

LEMMA Dispatched ==
  ASSUME NEW p, NEW tf \in Int, NEW trapno, NEW c, NEW to, cs \in {MS!KERNEL_CS, MS!USER_CS},
         p[tf + 4] = cs, p[tf + 2] = trapno, Aims(trapno, c, to), NEW m, m = MS!trap_dispatch(p, tf, c)
  PROVE  \/ m = p /\ to = cs
         \/ m = MS!switch_to_user(p, tf) /\ cs = MS!KERNEL_CS /\ to = MS!USER_CS
         \/ m = MS!switch_to_kernel(p, tf) /\ cs = MS!USER_CS /\ to = MS!KERNEL_CS
<1> DEFINE U == MS!switch_to_user(p, tf)
<1> DEFINE K == MS!switch_to_kernel(p, tf)
<1>1. cs = MS!USER_CS => U = p
  BY DEF MS!switch_to_user, MS!tf_cs
<1>2. cs = MS!KERNEL_CS => K = p
  BY DEF MS!switch_to_kernel, MS!tf_cs
<1>3. m = CASE trapno = 120 -> U [] trapno = 121 -> K [] trapno = 33 /\ c = "3" -> U
            [] trapno = 33 /\ c = "0" -> K [] trapno = 33 /\ c \notin {"0", "3"} -> p [] trapno = 13 -> p
  BY DEF MS!trap_dispatch, MS!tf_trapno, MS!T_SWITCH_TOU, MS!T_SWITCH_TOK, MS!IRQ_KBD, MS!T_GPFLT
<1> HIDE DEF U, K
<1>4. \/ m = U /\ to = MS!USER_CS
      \/ m = K /\ to = MS!KERNEL_CS
      \/ m = p /\ to = cs
  <2>1. CASE trapno = 120 /\ to = MS!USER_CS
    BY <1>3, <2>1
  <2>2. CASE trapno = 121 /\ to = MS!KERNEL_CS
    BY <1>3, <2>2
  <2>3. CASE trapno = 33 /\ to = (CASE c = "3" -> MS!USER_CS [] c = "0" -> MS!KERNEL_CS
                                     [] c \notin {"0", "3"} -> cs)
    <3>1. CASE c = "3"
      BY <1>3, <2>3, <3>1
    <3>2. CASE c = "0"
      BY <1>3, <2>3, <3>2
    <3>3. CASE c \notin {"0", "3"}
      BY <1>3, <2>3, <3>3
    <3> QED  BY <3>1, <3>2, <3>3
  <2>4. CASE trapno = 13 /\ to = cs
    BY <1>3, <2>4
  <2> QED
    BY <2>1, <2>2, <2>3, <2>4 DEF Aims, MS!T_SWITCH_TOU, MS!T_SWITCH_TOK, MS!IRQ_KBD, MS!T_GPFLT
<1>5. CASE cs = MS!USER_CS
  BY <1>1, <1>4, <1>5 DEF K
<1>6. CASE cs = MS!KERNEL_CS
  BY <1>2, <1>4, <1>6 DEF U
<1> QED  BY <1>5, <1>6

(* A trap is invisible but for the mode. *)
LEMMA TrapInvisible ==
  ASSUME mem \in [MS!Address -> Int], Segments(cs), regs \in Int,
         esp \in Int, stacktop - 4 <= esp, esp <= stacktop,
         NEW trapno \in Int, NEW next \in Int, NEW c, NEW to, Aims(trapno, c, to), MS!Trap(trapno, next, c)
  PROVE  Invisible(next, to)
<1>1. PICK t, e, k \in Nat : /\ t = stacktop /\ e = esp0 /\ k = switchk2u
                             /\ t >= 11 /\ t + 9 <= e /\ e <= k /\ MS!Address = 0 .. k + 7
  BY StackAssumption, Places
<1>2. PICK x \in Int : x = esp /\ t - 4 <= x /\ x <= t
  BY <1>1
<1>3. /\ cs \in {8, 27} /\ ds \in Int /\ ss \in Int /\ eflags \in Int /\ cs \in Int
      /\ cs = 8 => ds = 16 /\ ss = 16 /\ eflags = 0
      /\ cs = 27 => ds = 35 /\ ss = 35 /\ eflags = 3
  BY DEF Segments, MS!KERNEL_CS, MS!KERNEL_DS, MS!USER_CS, MS!USER_DS, MS!FL_IOPL_MASK
<1>4. MS!Ring = MS!DPL_USER <=> cs = 27
  BY <1>3 DEF MS!Ring, MS!DPL_USER
<1>5. PICK tf \in Int : /\ tf = MS!TrapFrame
                        /\ cs = 27 => tf = e - 8
                        /\ cs = 8 => tf = x - 6
  <2>1. CASE cs = 27
    BY <1>1, <1>4, <2>1 DEF MS!TrapFrame, MS!FrameSize
  <2>2. CASE cs = 8
    BY <1>2, <1>4, <2>2 DEF MS!TrapFrame, MS!FrameSize
  <2> QED  BY <1>3, <2>1, <2>2
<1>6. PICK p : p = MS!alltraps(tf, trapno, next)
  OBVIOUS
<1>7. PICK m : m = MS!trap_dispatch(p, tf, c) /\ mem' = m /\ MS!trapret(m, m[tf - 1])
  BY <1>5, <1>6 DEF MS!Trap
<1>8. 0 <= tf - 1 /\ tf + 7 < k
  <2>1. CASE cs = 27
    BY <1>1, <1>5, <2>1
  <2>2. CASE cs = 8
    BY <1>1, <1>2, <1>5, <2>2
  <2> QED  BY <1>3, <2>1, <2>2
<1>9. /\ p \in [MS!Address -> Int]
      /\ p[tf - 1] = tf /\ p[tf] = regs /\ p[tf + 1] = ds /\ p[tf + 2] = trapno
      /\ p[tf + 3] = next /\ p[tf + 4] = cs /\ p[tf + 5] = eflags
      /\ cs = 27 => p[tf + 6] = x /\ p[tf + 7] = ss
      /\ \A a \in MS!Address : a \notin tf - 1 .. tf + 7 => p[a] = mem[a]
      /\ cs # 27 => \A a \in MS!Address : a \notin tf - 1 .. tf + 5 => p[a] = mem[a]
  <2>1. tf + 7 < switchk2u
    BY <1>1, <1>8
  <2>2. /\ p \in [MS!Address -> Int]
        /\ p[tf - 1] = tf /\ p[tf] = regs /\ p[tf + 1] = ds /\ p[tf + 2] = trapno
        /\ p[tf + 3] = next /\ p[tf + 4] = cs /\ p[tf + 5] = eflags
        /\ MS!Ring = MS!DPL_USER => p[tf + 6] = esp /\ p[tf + 7] = ss
        /\ \A a \in MS!Address : a \notin tf - 1 .. tf + 7 => p[a] = mem[a]
        /\ MS!Ring # MS!DPL_USER => \A a \in MS!Address : a \notin tf - 1 .. tf + 5 => p[a] = mem[a]
    <3>1. ds \in Int /\ cs \in Int /\ eflags \in Int /\ ss \in Int
      BY <1>3
    <3>2. 0 <= tf - 1
      BY <1>8
    <3>3. Frame(MS!alltraps(tf, trapno, next), tf, trapno, next)
      BY ONLY <2>1, <3>1, <3>2, Pushed, mem \in [MS!Address -> Int], regs \in Int, esp \in Int,
              tf \in Int, trapno \in Int, next \in Int
    <3> QED  BY ONLY <1>6, <3>3 DEF Frame
  <2> QED  BY ONLY <1>2, <1>4, <2>2
<1>10. \A a \in x .. t - 1 : a \in MS!Address /\ p[a] = mem[a]
  <2> SUFFICES ASSUME NEW a \in x .. t - 1 PROVE p[a] = mem[a] /\ a \in MS!Address
    OBVIOUS
  <2>1. a \in MS!Address
    BY <1>1, <1>2
  <2>2. CASE cs = 27
    <3>1. a \notin tf - 1 .. tf + 7
      BY <1>1, <1>2, <1>5, <2>2
    <3> QED  BY <1>9, <2>1, <3>1
  <2>3. CASE cs = 8
    <3>1. a \notin tf - 1 .. tf + 5
      BY <1>2, <1>5, <2>3
    <3> QED  BY <1>9, <2>1, <2>3, <3>1
  <2> QED  BY <1>3, <2>1, <2>2, <2>3
<1>11. \/ m = p /\ to = cs
       \/ m = MS!switch_to_user(p, tf) /\ cs = MS!KERNEL_CS /\ to = MS!USER_CS
       \/ m = MS!switch_to_kernel(p, tf) /\ cs = MS!USER_CS /\ to = MS!KERNEL_CS
  <2>1. cs \in {MS!KERNEL_CS, MS!USER_CS}
    BY <1>3 DEF MS!KERNEL_CS, MS!USER_CS
  <2>2. p[tf + 4] = cs /\ p[tf + 2] = trapno
    BY <1>9
  <2>3. m = MS!trap_dispatch(p, tf, c)
    BY <1>7
  <2> QED  BY ONLY <2>1, <2>2, <2>3, Dispatched, Aims(trapno, c, to), tf \in Int, trapno \in Int
<1> DEFINE Goal == /\ m \in [MS!Address -> Int]
                   /\ cs' = to /\ to \in {8, 27}
                   /\ to = 8 => ds' = 16 /\ ss' = 16 /\ eflags' = 0
                   /\ to = 27 => ds' = 35 /\ ss' = 35 /\ eflags' = 3
                   /\ eip' = next /\ esp' = x /\ regs' = regs
                   /\ \A a \in x .. t - 1 : m[a] = mem[a]
<1> USE DEF MS!KERNEL_CS, MS!KERNEL_DS, MS!USER_CS, MS!USER_DS, MS!FL_IOPL_MASK
<1>12. ASSUME m = p, to = cs PROVE Goal
  <2>1. MS!trapret(m, tf)
    BY <1>7, <1>9, <1>12
  <2>2. /\ regs' = m[tf] /\ ds' = m[tf + 1]
        /\ eip' = m[tf + 3] /\ cs' = m[tf + 4] /\ eflags' = m[tf + 5]
        /\ m[tf + 4] = 27 => esp' = m[tf + 6] /\ ss' = m[tf + 7]
        /\ m[tf + 4] # 27 => esp' = tf + 6 /\ ss' = 16
    BY <2>1, Returned
  <2>3. cs = 8 => tf + 6 = x
    BY <1>5
  <2>4. CASE cs = 8
    BY <1>3, <1>9, <1>10, <1>12, <2>2, <2>3, <2>4
  <2>5. CASE cs = 27
    BY <1>3, <1>9, <1>10, <1>12, <2>2, <2>5
  <2> QED  BY <1>3, <2>4, <2>5
<1>13. ASSUME m = MS!switch_to_user(p, tf), cs = 8, to = 27 PROVE Goal
  <2>1. tf = x - 6 /\ 0 <= tf - 1 /\ tf + 7 < k /\ tf + 6 = x /\ k \in Int
    BY <1>1, <1>2, <1>5, <1>13
  <2>2. p[tf + 4] # MS!USER_CS
    BY <1>9, <1>13
  <2>3. /\ m \in [MS!Address -> Int] /\ m[tf - 1] = k
        /\ m[k] = p[tf] /\ m[k + 1] = 35 /\ m[k + 3] = p[tf + 3] /\ m[k + 4] = 27
        /\ m[k + 5] = 3 /\ m[k + 6] = tf + 6 /\ m[k + 7] = 35
        /\ \A a \in MS!Address : a # tf - 1 /\ a < k => m[a] = p[a]
    <3>1. tf + 7 < switchk2u /\ 0 <= tf - 1 /\ p \in [MS!Address -> Int] /\ m = MS!switch_to_user(p, tf)
      BY <1>1, <1>9, <1>13, <2>1
    <3>2. /\ m \in [MS!Address -> Int] /\ m[tf - 1] = switchk2u
          /\ m[switchk2u] = p[tf] /\ m[switchk2u + 1] = MS!USER_DS
          /\ m[switchk2u + 3] = p[tf + 3] /\ m[switchk2u + 4] = MS!USER_CS
          /\ m[switchk2u + 5] = MS!FL_IOPL_MASK /\ m[switchk2u + 6] = tf + 6
          /\ m[switchk2u + 7] = MS!USER_DS
          /\ \A a \in MS!Address : a # tf - 1 /\ a < switchk2u => m[a] = p[a]
      BY ONLY <2>2, <3>1, ToUser, tf \in Int
    <3> QED  BY ONLY <1>1, <3>2 DEF MS!USER_CS, MS!USER_DS, MS!FL_IOPL_MASK
  <2>4. MS!trapret(m, k)
    BY <1>7, <2>3
  <2>5. /\ regs' = m[k] /\ ds' = m[k + 1]
        /\ eip' = m[k + 3] /\ cs' = m[k + 4] /\ eflags' = m[k + 5]
        /\ m[k + 4] = 27 => esp' = m[k + 6] /\ ss' = m[k + 7]
    BY <2>1, <2>4, Returned
  <2>6. \A a \in x .. t - 1 : m[a] = mem[a]
    <3> SUFFICES ASSUME NEW a \in x .. t - 1 PROVE m[a] = mem[a]
      OBVIOUS
    <3>1. a # tf - 1 /\ a < k
      BY <1>1, <1>2, <2>1
    <3> QED  BY <1>10, <2>3, <3>1
  <2> QED  BY <1>9, <1>13, <2>1, <2>3, <2>5, <2>6
<1>14. ASSUME m = MS!switch_to_kernel(p, tf), cs = 27, to = 8 PROVE Goal
  <2>1. PICK s \in Int : s = x - 6
    BY <1>2
  <2>2. s + 6 = x /\ 0 <= s /\ s + 6 < tf /\ tf < k /\ t < tf
    BY <1>1, <1>2, <1>5, <1>14, <2>1
  <2>3. p[tf + 4] # MS!KERNEL_CS /\ s + 6 = p[tf + 6] /\ tf < switchk2u
    BY <1>1, <1>9, <1>14, <2>2
  <2>4. /\ m \in [MS!Address -> Int] /\ m[tf - 1] = s
        /\ m[s] = p[tf] /\ m[s + 1] = 16
        /\ m[s + 3] = p[tf + 3] /\ m[s + 4] = 8 /\ m[s + 5] = 0
        /\ \A a \in MS!Address : s + 6 <= a /\ a < tf - 1 => m[a] = p[a]
    <3>1. p \in [MS!Address -> Int]
      BY <1>9
    <3>2. KernelFrame(MS!switch_to_kernel(p, tf), p, tf, s)
      BY ONLY <2>2, <2>3, <3>1, ToKernel, tf \in Int, s \in Int
    <3> QED  BY ONLY <1>14, <3>2 DEF KernelFrame, MS!KERNEL_CS, MS!KERNEL_DS
  <2>5. MS!trapret(m, s)
    BY <1>7, <2>4
  <2>6. /\ regs' = m[s] /\ ds' = m[s + 1]
        /\ eip' = m[s + 3] /\ cs' = m[s + 4] /\ eflags' = m[s + 5]
        /\ m[s + 4] # 27 => esp' = s + 6 /\ ss' = 16
    BY <2>1, <2>5, Returned
  <2>7. \A a \in x .. t - 1 : m[a] = mem[a]
    <3> SUFFICES ASSUME NEW a \in x .. t - 1 PROVE m[a] = mem[a]
      OBVIOUS
    <3>1. s + 6 <= a /\ a < tf - 1
      BY <1>2, <2>2
    <3> QED  BY <1>10, <2>4, <3>1
  <2> QED  BY <1>9, <1>14, <2>2, <2>4, <2>6, <2>7
<1>15. Goal
  BY <1>11, <1>12, <1>13, <1>14
<1> QED
  BY <1>1, <1>2, <1>7, <1>15 DEF Invisible, Segments

(* What the property says of one step. *)
Kept ==
    /\ MS!Program[eip] \in {"int T_SWITCH_TOU", "int T_SWITCH_TOK", "idle"} \/ eip' = eip =>
          /\ esp' = esp /\ regs' = regs
          /\ \A a \in esp .. stacktop - 1 : mem'[a] = mem[a]
    /\ eip' \in {2, 3} /\ eip' # eip => esp' = stacktop /\ regs' = stacktop

LEMMA ProgramText ==
  /\ MS!Program[1] = "call lab1_switch_to_user" /\ MS!Program[2] = "call lab1_switch_to_kernel"
  /\ MS!Program[3] = "idle" /\ MS!Program[4] = "sub 8" /\ MS!Program[5] = "int T_SWITCH_TOU"
  /\ MS!Program[6] = "leave" /\ MS!Program[7] = "int T_SWITCH_TOK" /\ MS!Program[8] = "leave"
BY DEF MS!Program

LEMMA RegistersKept ==
  ASSUME ModeInv
  PROVE  /\ eip \in {1, 2, 3, 4, 5, 6, 7, 8} /\ esp \in Int /\ regs \in Int
         /\ stacktop - 4 <= esp /\ esp <= stacktop
         /\ mem \in [MS!Address -> Int] /\ Segments(cs) /\ cs = asked
         /\ asked \in {MS!KERNEL_CS, MS!USER_CS}
<1>1. PICK t \in Nat : t = stacktop
  BY StackAssumption
<1>2. /\ eip \in {1, 2, 3, 4, 5, 6, 7, 8}
      /\ esp = t \/ esp = t - 2 \/ esp = t - 4
      /\ regs = t \/ regs = t - 2
  <2>1. CASE eip \in {1, 2, 3} /\ esp = stacktop /\ regs = stacktop
    BY <1>1, <2>1
  <2>2. CASE /\ eip \in {4, 5, 6, 7, 8} /\ regs = stacktop - 2
             /\ eip \in {4, 7, 8} => esp = stacktop - 2
             /\ eip \in {5, 6} => esp = stacktop - 4
    <3>1. eip \in {4, 7, 8} \/ eip \in {5, 6}
      BY <2>2
    <3> QED  BY <1>1, <2>2, <3>1
  <2> QED  BY <2>1, <2>2 DEF ModeInv, InTest
<1>3. esp \in Int /\ regs \in Int /\ t - 4 <= esp /\ esp <= t
  BY <1>1, <1>2
<1> QED
  BY <1>1, <1>2, <1>3 DEF ModeInv, Segments

(* A trap leaves the test where it was, or behind its int. *)
LEMMA AfterTrap ==
  ASSUME ModeInv, NEW next, NEW to, Invisible(next, to), asked' = to,
         \/ next = eip
         \/ eip = 5 /\ next = 6
         \/ eip = 7 /\ next = 8
  PROVE  ModeInv' /\ Kept
<1>1. PICK t \in Nat : t = stacktop /\ t >= 11
  BY StackAssumption
<1>2. /\ mem' \in [MS!Address -> Int] /\ Segments(asked)'
      /\ eip' = next /\ esp' = esp /\ regs' = regs
      /\ \A a \in esp .. stacktop - 1 : mem'[a] = mem[a]
  BY DEF Invisible, Segments
<1>3. InTest'
  <2>1. ASSUME eip \in {1, 2, 3}, esp = stacktop, regs = stacktop PROVE InTest'
    <3>1. next = eip
      BY <2>1
    <3> QED  BY <1>2, <2>1, <3>1 DEF InTest
  <2>2. ASSUME eip \in {4, 5, 6, 7, 8}, regs = stacktop - 2,
               eip \in {4, 7, 8} => esp = stacktop - 2, eip \in {5, 6} => esp = stacktop - 4,
               mem[stacktop - 2] = stacktop,
               mem[stacktop - 1] = (IF eip \in {7, 8} THEN 3 ELSE 2)
        PROVE  InTest'
    <3>1. mem'[t - 2] = mem[t - 2] /\ mem'[t - 1] = mem[t - 1]
      <4>1. CASE esp = t - 2
        BY <1>1, <1>2, <4>1
      <4>2. CASE esp = t - 4
        BY <1>1, <1>2, <4>2
      <4> QED  BY <1>1, <2>2, <4>1, <4>2
    <3>2. /\ next \in {4, 5, 6, 7, 8}
          /\ next \in {4, 7, 8} <=> eip \in {4, 7, 8}
          /\ next \in {5, 6} <=> eip \in {5, 6}
          /\ next \in {7, 8} <=> eip \in {7, 8}
      BY <2>2
    <3>3. mem'[stacktop - 1] = (IF next \in {7, 8} THEN 3 ELSE 2)
      BY <1>1, <2>2, <3>1, <3>2
    <3> QED
      BY <1>1, <1>2, <2>2, <3>1, <3>2, <3>3 DEF InTest
  <2> QED  BY <2>1, <2>2 DEF ModeInv, InTest
<1>4. eip' \in {2, 3} => esp' = stacktop /\ regs' = stacktop
  BY <1>3 DEF InTest
<1> QED
  BY <1>2, <1>3, <1>4 DEF ModeInv, Kept

LEMMA OtherSteps ==
  ASSUME ModeInv, MS!CallToUser \/ MS!CallToKernel \/ MS!Sub \/ MS!Leave
  PROVE  ModeInv' /\ Kept
<1>1. PICK t \in Nat : t = stacktop /\ t >= 11
  BY StackAssumption
<1>2. /\ t - 1 \in MS!Address /\ t - 2 \in MS!Address /\ MS!Address \subseteq Int
  BY <1>1, StackAssumption DEF MS!Address, MS!FrameSize
<1>3. /\ eip \in {1, 2, 3, 4, 5, 6, 7, 8} /\ mem \in [MS!Address -> Int]
      /\ cs = asked /\ Segments(asked)
  BY RegistersKept DEF ModeInv
<1>4. /\ eip \in {1, 2, 3} => esp = t /\ regs = t
      /\ eip \in {4, 5, 6, 7, 8} => /\ regs = t - 2 /\ mem[t - 2] = t
                                    /\ mem[t - 1] = (IF eip \in {7, 8} THEN 3 ELSE 2)
      /\ eip = 4 => esp = t - 2
  BY <1>1 DEF ModeInv, InTest
<1>5. ASSUME UNCHANGED <<cs, ds, ss, eflags, asked>> PROVE Segments(asked)'
  BY <1>3, <1>5 DEF Segments
<1>6. ASSUME NEW entry, MS!Call(entry), \/ eip = 1 /\ entry = 4
                                        \/ eip = 2 /\ entry = 7
      PROVE  ModeInv' /\ Kept
  <2>1. esp = t /\ regs = t
    BY <1>4, <1>6
  <2>2. /\ mem' = [mem EXCEPT ![t - 1] = eip + 1, ![t - 2] = t]
        /\ esp' = t - 2 /\ regs' = t - 2 /\ eip' = entry
        /\ UNCHANGED <<cs, ds, ss, eflags, asked>>
    BY <1>6, <2>1 DEF MS!Call
  <2>3. /\ mem' \in [MS!Address -> Int]
        /\ mem'[t - 2] = t /\ mem'[t - 1] = eip + 1
    <3>1. eip + 1 \in Int
      BY <1>6
    <3> QED  BY ONLY <1>2, <1>3, <2>2, <3>1, t \in Nat
  <2>4. InTest'
    <3>1. mem'[t - 1] = (IF entry \in {7, 8} THEN 3 ELSE 2)
      BY <1>6, <2>3
    <3> QED  BY <1>1, <1>6, <2>2, <2>3, <3>1 DEF InTest
  <2>5. Kept
    <3>1. MS!Program[eip] \notin {"int T_SWITCH_TOU", "int T_SWITCH_TOK", "idle"}
      BY <1>6, ProgramText
    <3>2. eip' # eip /\ eip' \notin {2, 3}
      BY <1>6, <2>2
    <3> QED  BY ONLY <3>1, <3>2 DEF Kept
  <2> QED  BY <1>5, <2>2, <2>3, <2>4, <2>5 DEF ModeInv
<1>7. CASE MS!CallToUser
  <2>1. eip = 1
    BY <1>3, <1>7, ProgramText DEF MS!CallToUser
  <2> QED  BY <1>6, <1>7, <2>1 DEF MS!CallToUser, MS!Entry
<1>8. CASE MS!CallToKernel
  <2>1. eip = 2
    BY <1>3, <1>8, ProgramText DEF MS!CallToKernel
  <2> QED  BY <1>6, <1>8, <2>1 DEF MS!CallToKernel, MS!Entry
<1>9. CASE MS!Sub
  <2>1. eip = 4
    BY <1>3, <1>9, ProgramText DEF MS!Sub
  <2>2. /\ esp' = t - 4 /\ eip' = 5 /\ mem' = mem /\ regs' = regs
        /\ UNCHANGED <<cs, ds, ss, eflags, asked>>
    <3>1. esp' = (t - 2) - 2 /\ eip' = 4 + 1
      BY <1>4, <1>9, <2>1 DEF MS!Sub
    <3>2. (t - 2) - 2 = t - 4 /\ 4 + 1 = 5
      OBVIOUS
    <3>3. esp' = t - 4 /\ eip' = 5
      BY ONLY <3>1, <3>2
    <3> QED  BY <1>9, <3>1, <3>3 DEF MS!Sub
  <2>3. InTest'
    BY <1>1, <1>4, <2>1, <2>2 DEF InTest
  <2>4. Kept
    <3>1. MS!Program[eip] \notin {"int T_SWITCH_TOU", "int T_SWITCH_TOK", "idle"}
      BY <2>1, ProgramText
    <3>2. eip' # eip /\ eip' \notin {2, 3}
      BY <2>1, <2>2
    <3> QED  BY ONLY <3>1, <3>2 DEF Kept
  <2> QED  BY <1>3, <1>5, <2>2, <2>3, <2>4 DEF ModeInv
<1>10. CASE MS!Leave
  <2>1. eip \in {6, 8}
    BY <1>3, <1>10, ProgramText DEF MS!Leave
  <2>2. /\ regs' = t /\ eip' \in {2, 3} /\ esp' = t /\ mem' = mem
        /\ UNCHANGED <<cs, ds, ss, eflags, asked>>
    <3>1. regs' = mem[t - 2] /\ eip' = mem[t - 2 + 1] /\ esp' = (t - 2) + 2
      BY <1>4, <1>10, <2>1 DEF MS!Leave
    <3>2. t - 2 + 1 = t - 1 /\ (t - 2) + 2 = t
      OBVIOUS
    <3>3. eip' \in {2, 3}
      BY <1>4, <2>1, <3>1, <3>2
    <3> QED  BY <1>4, <1>10, <2>1, <3>1, <3>2, <3>3 DEF MS!Leave
  <2>3. InTest'
    BY <1>1, <2>2 DEF InTest
  <2>4. Kept
    <3>1. MS!Program[eip] \notin {"int T_SWITCH_TOU", "int T_SWITCH_TOK", "idle"}
      BY <2>1, ProgramText
    <3>2. eip' # eip /\ esp' = stacktop /\ regs' = stacktop
      BY <1>1, <2>1, <2>2
    <3> QED  BY ONLY <3>1, <3>2 DEF Kept
  <2> QED  BY <1>3, <1>5, <2>2, <2>3, <2>4 DEF ModeInv
<1> QED  BY <1>7, <1>8, <1>9, <1>10

LEMMA Traps ==
  ASSUME ModeInv, MS!IntToUser \/ MS!IntToKernel \/ MS!Keys
  PROVE  ModeInv' /\ Kept
<1>1. /\ eip \in {1, 2, 3, 4, 5, 6, 7, 8} /\ esp \in Int /\ regs \in Int
      /\ stacktop - 4 <= esp /\ esp <= stacktop
      /\ mem \in [MS!Address -> Int] /\ Segments(cs) /\ cs = asked
      /\ asked \in {MS!KERNEL_CS, MS!USER_CS}
  BY RegistersKept
<1>2. ASSUME NEW trapno \in Int, NEW next \in Int, NEW c, NEW to, Aims(trapno, c, to),
             MS!Trap(trapno, next, c), asked' = to,
             \/ next = eip
             \/ eip = 5 /\ next = 6
             \/ eip = 7 /\ next = 8
      PROVE  ModeInv' /\ Kept
  <2>1. Invisible(next, to)
    BY ONLY <1>1, <1>2, TrapInvisible, trapno \in Int, next \in Int
  <2> QED  BY ONLY <1>2, <2>1, AfterTrap, ModeInv
<1>3. eip \in Int /\ MS!T_GPFLT \in Int /\ MS!T_SWITCH_TOU \in Int /\ MS!T_SWITCH_TOK \in Int /\ MS!IRQ_KBD \in Int
  BY <1>1 DEF MS!T_GPFLT, MS!T_SWITCH_TOU, MS!T_SWITCH_TOK, MS!IRQ_KBD
<1>4. ASSUME NEW trapno \in {MS!T_SWITCH_TOU, MS!T_SWITCH_TOK}, NEW to, Aims(trapno, "", to),
             MS!SoftInt(trapno, to), eip = 5 \/ eip = 7
      PROVE  ModeInv' /\ Kept
  <2>1. CASE MS!Trap(trapno, eip + 1, "") /\ asked' = to
    <3>1. trapno \in Int
      BY <1>3
    <3>2. CASE eip = 5
      <4>1. eip + 1 = 6
        BY <3>2
      <4>2. 6 \in Int
        OBVIOUS
      <4> QED  BY ONLY <1>2, <1>4, <2>1, <3>1, <3>2, <4>1, <4>2
    <3>3. CASE eip = 7
      <4>1. eip + 1 = 8
        BY <3>3
      <4>2. 8 \in Int
        OBVIOUS
      <4> QED  BY ONLY <1>2, <1>4, <2>1, <3>1, <3>3, <4>1, <4>2
    <3> QED  BY <1>4, <3>2, <3>3
  <2>2. CASE MS!Trap(MS!T_GPFLT, eip, "") /\ asked' = asked
    <3>1. Aims(MS!T_GPFLT, "", cs)
      BY DEF Aims
    <3> QED  BY ONLY <1>1, <1>2, <1>3, <2>2, <3>1
  <2> QED  BY <1>4, <2>1, <2>2 DEF MS!SoftInt
<1>5. CASE MS!IntToUser
  <2>1. eip = 5
    BY <1>1, <1>5, ProgramText DEF MS!IntToUser
  <2>2. Aims(MS!T_SWITCH_TOU, "", MS!USER_CS)
    BY DEF Aims
  <2> QED  BY <1>4, <1>5, <2>1, <2>2 DEF MS!IntToUser
<1>6. CASE MS!IntToKernel
  <2>1. eip = 7
    BY <1>1, <1>6, ProgramText DEF MS!IntToKernel
  <2>2. Aims(MS!T_SWITCH_TOK, "", MS!KERNEL_CS)
    BY DEF Aims
  <2> QED  BY <1>4, <1>6, <2>1, <2>2 DEF MS!IntToKernel
<1>7. CASE MS!Keys
  <2>1. PICK c \in {"0", "3", "a"} : MS!Key(c)
    BY <1>7 DEF MS!Keys
  <2>2. PICK to : to = (CASE c = "3" -> MS!USER_CS [] c = "0" -> MS!KERNEL_CS
                          [] c \notin {"0", "3"} -> cs)
    OBVIOUS
  <2>3. Aims(MS!IRQ_KBD, c, to)
    BY <2>2 DEF Aims
  <2>4. MS!Trap(MS!IRQ_KBD, eip, c) /\ asked' = to
    BY <1>1, <2>1, <2>2 DEF MS!Key
  <2> QED  BY ONLY <1>2, <1>3, <2>3, <2>4
<1> QED  BY <1>5, <1>6, <1>7

LEMMA ModeStep ==
  ASSUME ModeInv, MS!Next
  PROVE  ModeInv' /\ Kept
BY OtherSteps, Traps DEF MS!Next, MS!Main

LEMMA ModeRests ==
  ASSUME UNCHANGED mode
  PROVE  (ModeInv' <=> ModeInv) /\ Kept
BY DEF mode, ModeInv, Segments, InTest, Kept

LEMMA ModeStarts ==
  ASSUME MS!Init
  PROVE  ModeInv
<1>1. [a \in MS!Address |-> 0] \in [MS!Address -> Int]
  OBVIOUS
<1> QED
  BY <1>1 DEF MS!Init, ModeInv, Segments, InTest, MS!KERNEL_CS, MS!KERNEL_DS, MS!USER_CS

LEMMA ModeInvariance == MCSpec => []ModeInv
<1>1. MCInit => ModeInv
  BY ModeStarts DEF MCInit
<1>2. ModeInv /\ [MCNext]_allvars => ModeInv'
  BY ModeStep, ModeRests DEF MCNext, Switching, Interruptible, allvars
<1> QED  BY <1>1, <1>2, PTL DEF MCSpec

(* trap.c and init.c of lab 1: wherever the two stacks and the static frame *)
(* are, the processor is in the mode asked for last, with the segments of   *)
(* that mode, and I/O is allowed in user mode exactly.                      *)
THEOREM ModeTheorem == MCSpec => []ModeAsAsked
<1>1. ModeInv => ModeAsAsked
  BY DEF ModeInv, Segments, ModeAsAsked, MS!ModeAsAsked
<1> QED  BY <1>1, ModeInvariance, PTL

(* trap.c and trapentry.S of lab 1: wherever the two stacks and the static  *)
(* frame are, no trap disturbs what it interrupts, and the two calls of     *)
(* lab1_switch_test return to their caller with its stack.                  *)
THEOREM ContextTheorem == MCSpec => ContextKept
<1>1. ModeInv /\ [MCNext]_allvars => [Kept]_(MS!vars)
  BY ModeStep, ModeRests DEF MCNext, Switching, Interruptible, allvars
<1>2. ContextKept <=> [][Kept]_(MS!vars)
  BY DEF ContextKept, MS!ContextKept, Kept
<1> QED  BY <1>1, <1>2, ModeInvariance, PTL DEF MCSpec

-----------------------------------------------------------------------------
(* print_pgdir, for every directory                                        *)

Item == [perm : Nat, left : Nat, right : Nat]

(* s lists the entries of T in lo .. hi - 1: the runs with the same         *)
(* permissions, in order, each as long as it can be.                        *)
Listing(s, T, lo, hi) ==
    /\ s \in Seq(Item)
    /\ \A i \in 1 .. Len(s) :
          /\ lo <= s[i].left /\ s[i].left < s[i].right /\ s[i].right <= hi /\ s[i].perm # 0
          /\ \A p \in Nat : s[i].left <= p /\ p < s[i].right => T[p] = s[i].perm
    /\ \A i, j \in 1 .. Len(s) : j = i + 1 =>
          \/ s[i].right < s[j].left
          \/ s[i].right = s[j].left /\ s[i].perm # s[j].perm
    /\ \A p \in Nat : lo <= p /\ p < hi /\ T[p] # 0 =>
          \E i \in 1 .. Len(s) : s[i].left <= p /\ p < s[i].right

LEMMA ListingJoined ==
  ASSUME NEW T, NEW lo \in Nat, NEW m \in Nat, NEW k \in Nat, NEW hi \in Nat,
         lo <= m, m <= k, k <= hi,
         NEW s, Listing(s, T, lo, m), NEW t, Listing(t, T, k, hi),
         \A p \in Nat : m <= p /\ p < k => T[p] = 0,
         Len(s) > 0 /\ Len(t) > 0 =>
            \/ s[Len(s)].right < t[1].left
            \/ s[Len(s)].right = t[1].left /\ s[Len(s)].perm # t[1].perm
  PROVE  Listing(s \o t, T, lo, hi)
<1>1. s \in Seq(Item) /\ t \in Seq(Item)
  BY DEF Listing
<1>2. PICK a, b \in Nat : a = Len(s) /\ b = Len(t)
  BY <1>1
<1>3. PICK u \in Seq(Item) :
                             /\ u = s \o t /\ Len(u) = a + b
                             /\ \A i \in 1 .. a : u[i] = s[i]
                             /\ \A i \in 1 .. b : u[a + i] = t[i]
  <2>1. s \o t \in Seq(Item)
    BY <1>1
  <2>2. Len(s \o t) = a + b
    BY <1>1, <1>2
  <2>3. \A i \in 1 .. a : (s \o t)[i] = s[i]
    BY <1>1, <1>2
  <2>4. \A i \in 1 .. b : (s \o t)[a + i] = t[i]
    BY <1>1, <1>2
  <2> QED  BY <2>1, <2>2, <2>3, <2>4
<1>4. ASSUME NEW i \in 1 .. a + b
      PROVE  \/ i \in 1 .. a /\ u[i] = s[i]
             \/ \E j \in 1 .. b : i = a + j /\ u[i] = t[j]
  <2>1. ASSUME i <= a PROVE i \in 1 .. a /\ u[i] = s[i]
    <3>1. i \in 1 .. a
      BY <2>1
    <3> QED  BY <1>3, <3>1
  <2>2. ASSUME ~(i <= a) PROVE \E j \in 1 .. b : i = a + j /\ u[i] = t[j]
    <3>1. PICK j \in 1 .. b : i = a + j
      <4>1. i - a \in 1 .. b /\ i = a + (i - a)
        BY <2>2
      <4> QED  BY <4>1
    <3> QED  BY <1>3, <3>1
  <2> QED  BY <2>1, <2>2
<1>5. ASSUME NEW i \in 1 .. a
      PROVE  /\ s[i] \in Item /\ lo <= s[i].left /\ s[i].left < s[i].right /\ s[i].right <= m /\ s[i].perm # 0
             /\ \A p \in Nat : s[i].left <= p /\ p < s[i].right => T[p] = s[i].perm
  BY <1>1, <1>2 DEF Listing
<1>6. ASSUME NEW i \in 1 .. b
      PROVE  /\ t[i] \in Item /\ k <= t[i].left /\ t[i].left < t[i].right /\ t[i].right <= hi /\ t[i].perm # 0
             /\ \A p \in Nat : t[i].left <= p /\ p < t[i].right => T[p] = t[i].perm
  BY <1>1, <1>2 DEF Listing
<1>7. \A e \in Item : e.left \in Nat /\ e.right \in Nat /\ e.perm \in Nat
  BY DEF Item
<1>8. ASSUME NEW i \in 1 .. a + b
      PROVE  /\ lo <= u[i].left /\ u[i].left < u[i].right /\ u[i].right <= hi /\ u[i].perm # 0
             /\ \A p \in Nat : u[i].left <= p /\ p < u[i].right => T[p] = u[i].perm
  <2>1. CASE i \in 1 .. a /\ u[i] = s[i]
    <3>1. PICK l, r \in Nat : l = s[i].left /\ r = s[i].right
      BY <1>5, <1>7, <2>1
    <3>2. lo <= l /\ l < r /\ r <= hi
      <4>1. lo <= l /\ l < r /\ r <= m
        BY ONLY <1>5, <2>1, <3>1
      <4>2. m <= hi
        BY <1>1
      <4> QED  BY ONLY <4>1, <4>2, l \in Nat, r \in Nat, lo \in Nat, m \in Nat, hi \in Nat
    <3> QED  BY ONLY <1>5, <2>1, <3>1, <3>2
  <2>2. ASSUME NEW j \in 1 .. b, i = a + j, u[i] = t[j]
        PROVE  /\ lo <= u[i].left /\ u[i].left < u[i].right /\ u[i].right <= hi /\ u[i].perm # 0
               /\ \A p \in Nat : u[i].left <= p /\ p < u[i].right => T[p] = u[i].perm
    <3>1. PICK l, r \in Nat : l = t[j].left /\ r = t[j].right
      BY <1>6, <1>7
    <3>2. lo <= l /\ l < r /\ r <= hi
      <4>1. k <= l /\ l < r /\ r <= hi
        BY ONLY <1>6, <3>1
      <4>2. lo <= k
        BY <1>1
      <4> QED  BY ONLY <4>1, <4>2, l \in Nat, r \in Nat, lo \in Nat, k \in Nat, hi \in Nat
    <3> QED  BY ONLY <1>6, <2>2, <3>1, <3>2
  <2> QED  BY ONLY <1>4, <2>1, <2>2
<1>9. ASSUME NEW i \in 1 .. a + b, NEW j \in 1 .. a + b, j = i + 1
      PROVE  \/ u[i].right < u[j].left
             \/ u[i].right = u[j].left /\ u[i].perm # u[j].perm
  <2>1. CASE j <= a
    <3>1. i \in 1 .. a /\ j \in 1 .. a
      BY <1>9, <2>1
    <3> QED  BY <1>2, <1>3, <1>9, <3>1 DEF Listing
  <2>2. CASE i = a
    <3>1. a \in 1 .. a /\ 1 \in 1 .. b /\ j = a + 1
      BY <1>9, <2>2
    <3> QED  BY <1>2, <1>3, <2>2, <3>1
  <2>3. CASE i > a
    <3>1. PICK x \in 1 .. b, y \in 1 .. b : i = a + x /\ j = a + y /\ y = x + 1
      <4>1. /\ i - a \in 1 .. b /\ j - a \in 1 .. b /\ i = a + (i - a) /\ j = a + (j - a)
            /\ j - a = (i - a) + 1
        BY <1>9, <2>3
      <4> QED  BY <4>1
    <3> QED  BY <1>2, <1>3, <3>1 DEF Listing
  <2> QED  BY <1>9, <2>1, <2>2, <2>3
<1>10. ASSUME NEW p \in Nat, lo <= p, p < hi, T[p] # 0
       PROVE  \E i \in 1 .. a + b : u[i].left <= p /\ p < u[i].right
  <2>1. CASE p < m
    <3>1. PICK i \in 1 .. a : s[i].left <= p /\ p < s[i].right
      BY <1>2, <1>10, <2>1 DEF Listing
    <3>2. i \in 1 .. a + b
      BY ONLY i \in 1 .. a, a \in Nat, b \in Nat
    <3>3. u[i] = s[i]
      BY <1>3
    <3> QED  BY <3>1, <3>2, <3>3
  <2>2. CASE ~(p < m)
    <3>1. k <= p
      BY <1>10, <2>2
    <3>2. PICK i \in 1 .. b : t[i].left <= p /\ p < t[i].right
      BY <1>2, <1>10, <3>1 DEF Listing
    <3>3. a + i \in 1 .. a + b
      BY ONLY i \in 1 .. b, a \in Nat, b \in Nat
    <3>4. u[a + i] = t[i]
      BY <1>3
    <3> QED  BY <3>2, <3>3, <3>4
  <2> QED  BY <2>1, <2>2
<1>11. Listing(u, T, lo, hi)
  <2>1. 1 .. Len(u) = 1 .. a + b
    BY <1>3
  <2>2. \A i \in 1 .. Len(u) :
          /\ lo <= u[i].left /\ u[i].left < u[i].right /\ u[i].right <= hi /\ u[i].perm # 0
          /\ \A p \in Nat : u[i].left <= p /\ p < u[i].right => T[p] = u[i].perm
    BY ONLY <1>8, <2>1
  <2>3. \A i, j \in 1 .. Len(u) : j = i + 1 =>
          \/ u[i].right < u[j].left
          \/ u[i].right = u[j].left /\ u[i].perm # u[j].perm
    BY ONLY <1>9, <2>1
  <2>4. \A p \in Nat : lo <= p /\ p < hi /\ T[p] # 0 =>
          \E i \in 1 .. Len(u) : u[i].left <= p /\ p < u[i].right
    BY ONLY <1>10, <2>1
  <2> QED  BY ONLY <2>2, <2>3, <2>4, u \in Seq(Item) DEF Listing
<1> QED  BY <1>3, <1>11

(* The items are in order. *)
LEMMA ListingSorted ==
  ASSUME NEW s, NEW T, NEW lo \in Nat, NEW hi \in Nat, Listing(s, T, lo, hi)
  PROVE  \A i, j \in 1 .. Len(s) : i < j => s[i].right <= s[j].left
<1>1. PICK n \in Nat : n = Len(s) /\ s \in Seq(Item)
  BY DEF Listing
<1>2. \A i \in 1 .. n : s[i].left \in Nat /\ s[i].right \in Nat /\ s[i].left < s[i].right
  <2> SUFFICES ASSUME NEW i \in 1 .. n PROVE s[i].left \in Nat /\ s[i].right \in Nat /\ s[i].left < s[i].right
    OBVIOUS
  <2>1. s[i] \in Item
    BY <1>1
  <2>2. s[i].left < s[i].right
    BY <1>1 DEF Listing
  <2> QED  BY <2>1, <2>2 DEF Item
<1>3. \A i, j \in 1 .. n : j = i + 1 => s[i].right <= s[j].left
  <2> SUFFICES ASSUME NEW i \in 1 .. n, NEW j \in 1 .. n, j = i + 1 PROVE s[i].right <= s[j].left
    OBVIOUS
  <2>1. s[i].right < s[j].left \/ s[i].right = s[j].left
    BY <1>1 DEF Listing
  <2> QED  BY <1>2, <2>1
<1> SUFFICES ASSUME NEW i \in 1 .. n PROVE \A j \in 1 .. n : i < j => s[i].right <= s[j].left
  BY <1>1
<1> DEFINE Bad == {j \in Nat : j \in 1 .. n /\ i < j /\ ~(s[i].right <= s[j].left)}
<1> SUFFICES ASSUME Bad # {} PROVE FALSE
  OBVIOUS
<1>4. PICK j \in Bad : \A k \in Bad : j <= k
  BY LeastNatural
<1>5. j \in Nat /\ j \in 1 .. n /\ i < j /\ ~(s[i].right <= s[j].left)
  BY <1>4
<1>6. PICK k \in 1 .. n : j = k + 1 /\ i <= k /\ k < j
  <2>1. j - 1 \in 1 .. n /\ j = (j - 1) + 1 /\ i <= j - 1 /\ j - 1 < j
    BY <1>5
  <2> QED  BY <2>1
<1>7. s[k].right <= s[j].left
  BY <1>3, <1>5, <1>6
<1>8. CASE i = k
  BY <1>5, <1>7, <1>8
<1>9. CASE i < k
  <2>1. k \notin Bad
    BY <1>4, <1>5, <1>6
  <2>2. s[i].right <= s[k].left
    BY <1>9, <2>1
  <2>3. PICK w, x, y, z \in Nat : /\ w = s[i].right /\ x = s[k].left /\ y = s[k].right /\ z = s[j].left
                                  /\ w <= x /\ x < y /\ y <= z
    BY <1>2, <1>5, <1>7, <2>2
  <2> QED  BY <1>5, <2>3
<1> QED  BY <1>6, <1>8, <1>9

(* get_pgtable_items *)
LEMMA NextItem ==
  ASSUME NEW T, NEW lo \in Nat, NEW hi \in Nat, lo <= hi,
         \A p \in Nat : lo <= p /\ p < hi => T[p] \in Nat,
         NEW item, item = get_pgtable_items(hi, lo, T)
  PROVE  \/ item.perm = 0 /\ \A p \in Nat : lo <= p /\ p < hi => T[p] = 0
         \/ /\ item \in Item /\ item.perm # 0
            /\ lo <= item.left /\ item.left < item.right /\ item.right <= hi
            /\ \A p \in Nat : lo <= p /\ p < item.left => T[p] = 0
            /\ \A p \in Nat : item.left <= p /\ p < item.right => T[p] = item.perm
            /\ item.right < hi => T[item.right] # item.perm
<1>1. ASSUME NEW S \in SUBSET Nat, S # {}
      PROVE  Min(S) \in S /\ \A y \in S : Min(S) <= y
  BY <1>1, LeastNatural DEF Min
<1> DEFINE S == {hi} \cup {i \in lo .. hi - 1 : T[i] # 0}
<1>2. PICK left \in S : left = Min(S) /\ \A y \in S : left <= y
  <2>1. S \in SUBSET Nat /\ S # {}
    OBVIOUS
  <2> HIDE DEF S
  <2> QED  BY <1>1, <2>1
<1>3. left \in Nat /\ lo <= left /\ left <= hi
  OBVIOUS
<1>4. ASSUME NEW p \in Nat, lo <= p, p < left PROVE T[p] = 0
  <2>1. p \notin S
    BY <1>2, <1>3, <1>4
  <2>2. p \in lo .. hi - 1
    BY <1>3, <1>4
  <2> QED  BY <2>1, <2>2
<1>5. item = IF left = hi THEN [perm |-> 0, left |-> lo, right |-> lo]
             ELSE [perm |-> T[left], left |-> left, right |-> RunEnd(hi, left, T)]
  BY <1>2 DEF get_pgtable_items
<1>6. CASE left = hi
  BY <1>4, <1>5, <1>6
<1>7. CASE left # hi
  <2>1. left < hi /\ T[left] # 0 /\ T[left] \in Nat
    BY <1>3, <1>7
  <2> DEFINE R == {hi} \cup {i \in left .. hi - 1 : T[i] # T[left]}
  <2>2. PICK right \in R : right = Min(R) /\ \A y \in R : right <= y
    <3>1. R \in SUBSET Nat /\ R # {}
      BY <1>3
    <3> HIDE DEF R
    <3> QED  BY <1>1, <3>1
  <2>3. right = RunEnd(hi, left, T)
    BY <2>2 DEF RunEnd
  <2>4. right \in Nat /\ left < right /\ right <= hi /\ (right < hi => T[right] # T[left])
    <3>1. right = hi \/ (right \in left .. hi - 1 /\ T[right] # T[left])
      OBVIOUS
    <3>2. right # left
      BY <2>1, <3>1
    <3> QED  BY <1>3, <2>1, <3>1, <3>2
  <2>5. ASSUME NEW p \in Nat, left <= p, p < right PROVE T[p] = T[left]
    <3>1. p \notin R
      BY <2>2, <2>4, <2>5
    <3>2. p \in left .. hi - 1
      BY <1>3, <2>4, <2>5
    <3> QED  BY <3>1, <3>2
  <2> HIDE DEF R, S
  <2>6. item = [perm |-> T[left], left |-> left, right |-> right]
    BY <1>5, <1>7, <2>3
  <2>7. item \in Item /\ item.perm = T[left] /\ item.left = left /\ item.right = right
    BY <1>3, <2>1, <2>4, <2>6 DEF Item
  <2> QED  BY <1>3, <1>4, <2>1, <2>4, <2>5, <2>7
<1> QED  BY <1>6, <1>7

(* The items from every entry on, as Items finds them. *)
From(f, T, hi, i) ==
    IF get_pgtable_items(hi, i, T).perm = 0 THEN <<>>
    ELSE <<get_pgtable_items(hi, i, T)>> \o f[get_pgtable_items(hi, i, T).right]

Filled(f, T, lo, hi) == f = [i \in lo .. hi |-> From(f, T, hi, i)]

LEMMA FilledExists ==
  ASSUME NEW T, NEW lo \in Nat, NEW hi \in Nat, lo <= hi,
         \A p \in Nat : lo <= p /\ p < hi => T[p] \in Nat
  PROVE  \E f : Filled(f, T, lo, hi)
<1> DEFINE Bad == {k \in Nat : k <= hi - lo /\ ~ \E f : Filled(f, T, hi - k, hi)}
<1>1. ASSUME Bad # {} PROVE FALSE
  <2>1. PICK k \in Bad : \A j \in Bad : k <= j
    BY <1>1, LeastNatural
  <2>2. PICK l \in Nat : l = hi - k /\ lo <= l /\ l <= hi /\ k \in Nat /\ ~ \E f : Filled(f, T, l, hi)
    <3>1. k \in Nat /\ k <= hi - lo /\ ~ \E f : Filled(f, T, hi - k, hi)
      OBVIOUS
    <3>2. hi - k \in Nat /\ lo <= hi - k /\ hi - k <= hi
      BY <3>1
    <3> QED  BY <3>1, <3>2
  <2>3. PICK item : item = get_pgtable_items(hi, l, T)
    OBVIOUS
  <2>4. item.perm # 0 => item.right \in Nat /\ l < item.right /\ item.right <= hi
    <3>1. \A p \in Nat : l <= p /\ p < hi => T[p] \in Nat
      BY <2>2
    <3>2. \/ item.perm = 0
          \/ item \in Item /\ l <= item.left /\ item.left < item.right /\ item.right <= hi
      BY <2>2, <2>3, <3>1, NextItem
    <3>3. \A e \in Item : e.left \in Nat /\ e.right \in Nat
      BY DEF Item
    <3> QED  BY <2>2, <3>2, <3>3
  <2>5. PICK g : l < hi => Filled(g, T, l + 1, hi)
    <3>1. CASE l < hi
      <4>1. k - 1 \in Nat /\ hi - (k - 1) = l + 1 /\ k - 1 <= hi - lo /\ ~(k <= k - 1)
        BY <2>2, <3>1
      <4>2. k - 1 \notin Bad
        BY <2>1, <4>1
      <4> QED  BY <4>1, <4>2
    <3> QED  BY <3>1
  <2> DEFINE Here == From(g, T, hi, l)
  <2> DEFINE f == [i \in l .. hi |-> IF i = l THEN Here ELSE g[i]]
  <2>6. ASSUME NEW i \in l .. hi PROVE f[i] = From(f, T, hi, i)
    <3>1. CASE i = l
      <4>1. f[i] = From(g, T, hi, l)
        BY <3>1
      <4>2. item.perm # 0 => g[item.right] = f[item.right]
        <5>1. item.perm # 0 => item.right \in l .. hi /\ item.right # l
          BY <2>2, <2>4
        <5> QED  BY <5>1
      <4> HIDE DEF f, Here
      <4>3. From(g, T, hi, l) = From(f, T, hi, l)
        BY <2>3, <4>2 DEF From
      <4> QED  BY <3>1, <4>1, <4>3
    <3>2. CASE i # l
      <4>1. i \in l + 1 .. hi /\ l < hi /\ f[i] = g[i] /\ i \in Nat /\ lo <= i /\ i <= hi
        BY <2>2, <3>2
      <4>2. g[i] = From(g, T, hi, i)
        BY <2>5, <4>1 DEF Filled
      <4>3. PICK e : e = get_pgtable_items(hi, i, T)
        OBVIOUS
      <4>4. e.perm # 0 => e.right \in Nat /\ i < e.right /\ e.right <= hi
        <5>1. \A p \in Nat : i <= p /\ p < hi => T[p] \in Nat
          BY <4>1
        <5>2. \/ e.perm = 0
              \/ e \in Item /\ i <= e.left /\ e.left < e.right /\ e.right <= hi
          BY <4>1, <4>3, <5>1, NextItem
        <5>3. \A x \in Item : x.left \in Nat /\ x.right \in Nat
          BY DEF Item
        <5> QED  BY <4>1, <5>2, <5>3
      <4>5. e.perm # 0 => g[e.right] = f[e.right]
        <5>1. e.perm # 0 => e.right \in l .. hi /\ e.right # l
          BY <2>2, <4>1, <4>4
        <5> QED  BY <5>1
      <4> HIDE DEF f, Here
      <4>6. From(g, T, hi, i) = From(f, T, hi, i)
        BY <4>3, <4>5 DEF From
      <4> QED  BY <4>1, <4>2, <4>6
    <3> QED  BY <3>1, <3>2
  <2>7. f = [i \in l .. hi |-> f[i]]
    OBVIOUS
  <2> HIDE DEF f
  <2>8. Filled(f, T, l, hi)
    BY <2>6, <2>7 DEF Filled
  <2> QED  BY <2>2, <2>8
<1>2. PICK k \in Nat : k = hi - lo /\ hi - k = lo /\ k <= hi - lo
  <2>1. hi - lo \in Nat /\ hi - (hi - lo) = lo
    OBVIOUS
  <2> QED  BY <2>1
<1> QED  BY <1>1, <1>2

LEMMA ItemsListing ==
  ASSUME NEW T, NEW lo \in Nat, NEW hi \in Nat, lo <= hi,
         \A p \in Nat : lo <= p /\ p < hi => T[p] \in Nat
  PROVE  Listing(Items(hi, lo, T), T, lo, hi)
<1> DEFINE f == CHOOSE g : Filled(g, T, lo, hi)
<1>1. Filled(f, T, lo, hi)
  BY FilledExists
<1>2. Items(hi, lo, T) = f[lo]
  BY DEF Items, Filled, From
<1> HIDE DEF f
<1> DEFINE Bad == {k \in Nat : k <= hi - lo /\ ~Listing(f[hi - k], T, hi - k, hi)}
<1>3. ASSUME Bad # {} PROVE FALSE
  <2>1. PICK k \in Bad : \A j \in Bad : k <= j
    BY <1>3, LeastNatural
  <2>2. PICK l \in Nat : l = hi - k /\ lo <= l /\ l <= hi /\ k \in Nat /\ ~Listing(f[l], T, l, hi)
    <3>1. k \in Nat /\ k <= hi - lo /\ ~Listing(f[hi - k], T, hi - k, hi)
      OBVIOUS
    <3>2. hi - k \in Nat /\ lo <= hi - k /\ hi - k <= hi
      BY <3>1
    <3> QED  BY <3>1, <3>2
  <2>3. PICK item : item = get_pgtable_items(hi, l, T)
    OBVIOUS
  <2>4. f[l] = IF item.perm = 0 THEN <<>> ELSE <<item>> \o f[item.right]
    <3>1. l \in lo .. hi
      BY <2>2
    <3>2. f[l] = From(f, T, hi, l)
      BY <1>1, <3>1 DEF Filled
    <3> QED  BY ONLY <2>3, <3>2 DEF From
  <2>5. \/ item.perm = 0 /\ \A p \in Nat : l <= p /\ p < hi => T[p] = 0
        \/ /\ item \in Item /\ item.perm # 0
           /\ l <= item.left /\ item.left < item.right /\ item.right <= hi
           /\ \A p \in Nat : l <= p /\ p < item.left => T[p] = 0
           /\ \A p \in Nat : item.left <= p /\ p < item.right => T[p] = item.perm
           /\ item.right < hi => T[item.right] # item.perm
    <3>1. \A p \in Nat : l <= p /\ p < hi => T[p] \in Nat
      BY <2>2
    <3> QED  BY <2>2, <2>3, <3>1, NextItem
  <2>6. CASE item.perm = 0
    <3>1. \A p \in Nat : l <= p /\ p < hi => T[p] = 0
      BY <2>5, <2>6
    <3>2. f[l] = <<>>
      BY <2>4, <2>6
    <3>3. <<>> \in Seq(Item) /\ 1 .. Len(<<>>) = {}
      OBVIOUS
    <3>4. Listing(<<>>, T, l, hi)
      BY <3>1, <3>3 DEF Listing
    <3> QED  BY <2>2, <3>2, <3>4
  <2>7. CASE item.perm # 0
    <3>1. PICK a, r \in Nat : a = item.left /\ r = item.right /\ l <= a /\ a < r /\ r <= hi
      <4>1. item.left \in Nat /\ item.right \in Nat
        BY <2>5, <2>7 DEF Item
      <4> QED  BY <2>5, <2>7, <4>1
    <3>2. PICK j \in Nat : j = hi - r /\ hi - j = r /\ j <= hi - lo /\ ~(k <= j)
      <4>1. hi - r \in Nat /\ hi - (hi - r) = r /\ hi - r <= hi - lo /\ ~(k <= hi - r)
        BY <2>2, <3>1
      <4> QED  BY <4>1
    <3>3. PICK t : t = f[r] /\ Listing(t, T, r, hi)
      <4>1. j \notin Bad
        BY <2>1, <3>2
      <4> QED  BY <3>2, <4>1
    <3>4. f[l] = <<item>> \o t
      BY <2>4, <2>7, <3>1, <3>3
    <3>5. PICK s : s = <<item>> /\ s \in Seq(Item) /\ Len(s) = 1 /\ s[1] = item
      <4>1. item \in Item
        BY <2>5, <2>7
      <4>2. <<item>> \in Seq(Item) /\ Len(<<item>>) = 1 /\ <<item>>[1] = item
        BY ONLY <4>1
      <4> QED  BY ONLY <4>2
    <3>6. Listing(s, T, l, r)
      <4>1. \A i \in 1 .. Len(s) : i = 1
        BY <3>5
      <4>2. \A i \in 1 .. Len(s) :
               /\ l <= s[i].left /\ s[i].left < s[i].right /\ s[i].right <= r /\ s[i].perm # 0
               /\ \A p \in Nat : s[i].left <= p /\ p < s[i].right => T[p] = s[i].perm
        BY <2>5, <2>7, <3>1, <3>5, <4>1
      <4>3. \A i, x \in 1 .. Len(s) : x # i + 1
        BY <3>5
      <4>4. \A p \in Nat : l <= p /\ p < r /\ T[p] # 0 => \E i \in 1 .. Len(s) : s[i].left <= p /\ p < s[i].right
        <5> SUFFICES ASSUME NEW p \in Nat, l <= p, p < r, T[p] # 0 PROVE s[1].left <= p /\ p < s[1].right
          BY <3>5
        <5>1. ~(p < a)
          BY <2>5, <2>7, <3>1
        <5> QED  BY <3>1, <3>5, <5>1
      <4>5. s \in Seq(Item) /\ \A i, x \in 1 .. Len(s) : x = i + 1 =>
               s[i].right < s[x].left \/ (s[i].right = s[x].left /\ s[i].perm # s[x].perm)
        BY ONLY <3>5, <4>3
      <4> QED  BY ONLY <4>2, <4>4, <4>5 DEF Listing
    <3>7. ASSUME Len(t) > 0
          PROVE  r < t[1].left \/ (r = t[1].left /\ item.perm # t[1].perm)
      <4>1. t \in Seq(Item) /\ 1 \in 1 .. Len(t)
        <5>1. t \in Seq(Item)
          BY ONLY <3>3 DEF Listing
        <5> QED  BY ONLY <3>7, <5>1
      <4>2. t[1] \in Item
        BY <4>1
      <4>3. PICK b, c \in Nat : b = t[1].left /\ c = t[1].right
        BY <4>2 DEF Item
      <4>4. r <= b /\ b < c /\ c <= hi /\ \A p \in Nat : b <= p /\ p < c => T[p] = t[1].perm
        <5>1. /\ r <= t[1].left /\ t[1].left < t[1].right /\ t[1].right <= hi
              /\ \A p \in Nat : t[1].left <= p /\ p < t[1].right => T[p] = t[1].perm
          BY ONLY <3>3, <4>1 DEF Listing
        <5> QED  BY ONLY <4>3, <5>1
      <4>5. CASE r < b
        BY <4>3, <4>5
      <4>6. CASE r = b
        <5>1. r < hi /\ T[r] = t[1].perm
          BY <4>4, <4>6
        <5>2. T[r] # item.perm
          BY <2>5, <2>7, <3>1, <5>1
        <5> QED  BY <4>3, <4>6, <5>1, <5>2
      <4> QED  BY <4>4, <4>5, <4>6
    <3>8. Len(s) > 0 /\ Len(t) > 0 =>
            \/ s[Len(s)].right < t[1].left
            \/ s[Len(s)].right = t[1].left /\ s[Len(s)].perm # t[1].perm
      BY <3>1, <3>5, <3>7
    <3>9. l <= r /\ r <= r /\ r <= hi /\ \A p \in Nat : r <= p /\ p < r => T[p] = 0
      BY <3>1
    <3>10. Listing(s \o t, T, l, hi)
      BY ONLY <3>3, <3>6, <3>8, <3>9, ListingJoined, l \in Nat, r \in Nat, hi \in Nat
    <3> QED  BY <2>2, <3>4, <3>5, <3>10
  <2> QED  BY <2>6, <2>7
<1>4. PICK k \in Nat : k = hi - lo /\ hi - k = lo /\ k <= hi - lo
  <2>1. hi - lo \in Nat /\ hi - (hi - lo) = lo
    OBVIOUS
  <2> QED  BY <2>1
<1> QED  BY <1>2, <1>3, <1>4

(* Division without remainder. *)
LEMMA Floor ==
  ASSUME NEW a \in Nat, NEW p \in Nat \ {0}
  PROVE  \E q \in Nat : /\ a \div p = q /\ a % p = a - q * p
                        /\ q * p <= a /\ a < q * p + p
<1>1. PICK q \in Int, r \in 0 .. p - 1 : q = a \div p /\ r = a % p /\ a = p * q + r
  BY SMT
<1>2. PICK x \in Int : x = q * p /\ a = x + r
  BY <1>1
<1>3. x <= a /\ a < x + p /\ r = a - x
  <2>1. 0 <= r /\ r < p /\ r \in Int
    OBVIOUS
  <2> QED  BY ONLY <1>2, <2>1, x \in Int, p \in Nat, a \in Nat
<1>4. q >= 0
  <2>1. ASSUME q < 0 PROVE FALSE
    <3>1. q * p + p <= 0 * p
      BY <2>1, Multiples
    <3>2. x + p <= 0
      BY <1>2, <3>1
    <3> QED  BY <1>3, <3>2
  <2> QED  BY <1>1, <2>1
<1>5. q \in Nat /\ a \div p = q /\ a % p = a - q * p /\ q * p <= a /\ a < q * p + p
  <2>1. q \in Nat
    BY <1>4
  <2>2. a % p = a - q * p
    BY ONLY <1>1, <1>2, <1>3
  <2>3. q * p <= a /\ a < q * p + p
    BY ONLY <1>2, <1>3
  <2> QED  BY <1>1, <2>1, <2>2, <2>3
<1> QED  BY <1>5

(* What the self-map shows of the directory and of the tables. *)
Vpd(pgdir) ==
    [d \in 0 .. Dirs - 1 |->
        IF \E e \in 0 .. Entries - 1 : pgdir[d * Entries + e] # Absent
        THEN PTE_P + PTE_W + PTE_U ELSE 0]

Vpt(pgdir) == [p \in LinearPage |-> pgdir[p].perm]

(* The listing of the tables under the first directory entries. *)
Under(u, dirs, vpt, m) ==
    u = [i \in 0 .. m |->
            IF i = 0 THEN <<>>
            ELSE u[i - 1] \o Items(dirs[i].right * Entries, dirs[i].left * Entries, vpt)]

LEMMA UnderExists ==
  ASSUME NEW dirs, NEW vpt, NEW m \in Nat
  PROVE  \E u : Under(u, dirs, vpt, m)
<1> DEFINE Bad == {k \in Nat : ~ \E u : Under(u, dirs, vpt, k)}
<1> SUFFICES ASSUME Bad # {} PROVE FALSE
  OBVIOUS
<1>1. PICK k \in Bad : \A j \in Bad : k <= j
  BY LeastNatural
<1> DEFINE Piece(i) == Items(dirs[i].right * Entries, dirs[i].left * Entries, vpt)
<1>2. k # 0
  <2> DEFINE u == [i \in 0 .. 0 |-> <<>>]
  <2>1. u = [i \in 0 .. 0 |-> IF i = 0 THEN <<>> ELSE u[i - 1] \o Piece(i)]
    OBVIOUS
  <2>2. Under(u, dirs, vpt, 0)
    BY <2>1 DEF Under
  <2> QED  BY <2>2
<1>3. k - 1 \in Nat /\ k - 1 \notin Bad /\ k \in Nat
  BY <1>1, <1>2
<1>4. PICK y : Under(y, dirs, vpt, k - 1)
  BY <1>3
<1> DEFINE Newest == y[k - 1] \o Piece(k)
<1> DEFINE u == [i \in 0 .. k |-> IF i = k THEN Newest ELSE y[i]]
<1>5. ASSUME NEW i \in 0 .. k
      PROVE  u[i] = IF i = 0 THEN <<>> ELSE u[i - 1] \o Piece(i)
  <2>1. CASE i = k
    <3>1. u[i] = Newest /\ u[k - 1] = y[k - 1]
      BY <2>1, <1>2, <1>3
    <3> QED  BY <3>1, <2>1, <1>2
  <2>2. CASE i # k
    <3>1. i \in 0 .. (k - 1) /\ u[i] = y[i]
      BY <2>2, <1>3
    <3>2. y[i] = IF i = 0 THEN <<>> ELSE y[i - 1] \o Piece(i)
      BY <3>1, <1>4 DEF Under
    <3>3. i # 0 => u[i - 1] = y[i - 1]
      BY <3>1, <1>3
    <3> QED  BY <3>1, <3>2, <3>3
  <2> QED  BY <2>1, <2>2
<1> HIDE DEF Newest
<1>6. Under(u, dirs, vpt, k)
  BY <1>5 DEF Under
<1> HIDE DEF u
<1> QED  BY <1>1, <1>6

LEMMA PrintIs ==
  ASSUME NEW pgdir, NEW dirs, dirs = Items(Dirs, 0, Vpd(pgdir)), Len(dirs) \in Nat
  PROVE  \E u : /\ Under(u, dirs, Vpt(pgdir), Len(dirs))
                /\ print_pgdir(pgdir) = u[Len(dirs)]
<1> DEFINE u == CHOOSE y : Under(y, dirs, Vpt(pgdir), Len(dirs))
<1>1. Under(u, dirs, Vpt(pgdir), Len(dirs))
  BY UnderExists
<1>2. print_pgdir(pgdir) = u[Len(dirs)]
  BY DEF print_pgdir, Under, Vpd, Vpt
<1> QED  BY <1>1, <1>2

(* A directory: an absent entry has no permissions, and only such a one. *)
Directory ==
    {pgdir \in [LinearPage -> [pa : Int, perm : Nat]] :
        \A p \in LinearPage : pgdir[p] = Absent <=> pgdir[p].perm = 0}

(* No table, no entry. *)
LEMMA NoTable ==
  ASSUME NEW pgdir \in Directory, NEW a \in Nat, NEW b \in Nat, a <= b, b <= Dirs,
         \A d \in Nat : a <= d /\ d < b => Vpd(pgdir)[d] = 0
  PROVE  \A p \in Nat : a * Entries <= p /\ p < b * Entries => Vpt(pgdir)[p] = 0
<1> SUFFICES ASSUME NEW p \in Nat, a * Entries <= p, p < b * Entries PROVE Vpt(pgdir)[p] = 0
  OBVIOUS
<1>1. PICK n \in Nat \ {0} : n = Entries
  BY MapAssumption
<1>2. PICK k \in Nat \ {0} : k = Dirs
  BY MapAssumption
<1>3. PICK q \in Nat : q * n <= p /\ p < q * n + n
  BY Floor
<1>4. a <= q /\ q < b
  <2>1. PICK x, y, z \in Int : x = a * n /\ y = b * n /\ z = q * n
    OBVIOUS
  <2>2. x <= p /\ p < y /\ z <= p /\ p < z + n
    BY <1>1, <1>3, <2>1
  <2>3. ASSUME q < a PROVE FALSE
    <3>1. z + n <= x
      BY <2>1, <2>3, Multiples
    <3> QED  BY <2>2, <3>1
  <2>4. z < y => q < b
    BY <2>1, Multiples
  <2> QED  BY <2>2, <2>3, <2>4
<1>5. PICK e \in 0 .. n - 1 : p = q * n + e
  <2>1. PICK z \in Int : z = q * n
    OBVIOUS
  <2>2. p - z \in 0 .. n - 1 /\ p = z + (p - z)
    BY <1>3, <2>1
  <2> QED  BY <2>1, <2>2
<1>6. p \in LinearPage
  <2>1. q * n + n <= k * n
    BY <1>2, <1>4, Multiples
  <2>2. PICK x, y \in Int : x = q * n /\ y = k * n
    OBVIOUS
  <2>3. p < y
    BY <1>3, <2>1, <2>2
  <2>4. p \in 0 .. y - 1
    BY <2>3
  <2> QED  BY <1>1, <1>2, <2>2, <2>4 DEF LinearPage
<1>7. q \in 0 .. Dirs - 1 /\ Vpd(pgdir)[q] = 0
  BY <1>2, <1>4
<1>8. pgdir[p] = Absent
  <2>1. ~(\E x \in 0 .. Entries - 1 : pgdir[q * Entries + x] # Absent)
    <3>1. PTE_P + PTE_W + PTE_U # 0
      BY DEF PTE_P, PTE_W, PTE_U
    <3> QED  BY <1>7, <3>1 DEF Vpd
  <2> QED  BY <1>1, <1>5, <2>1
<1> QED  BY <1>6, <1>8 DEF Vpt, Directory

LEMMA Printed ==
  ASSUME NEW pgdir \in Directory
  PROVE  Listing(print_pgdir(pgdir), Vpt(pgdir), 0, Dirs * Entries)
<1> DEFINE T == Vpt(pgdir)
<1> DEFINE V == Vpd(pgdir)
<1>1. PICK n \in Nat \ {0} : n = Entries
  BY MapAssumption
<1>2. PICK k \in Nat \ {0} : k = Dirs
  BY MapAssumption
<1>3. \A d \in Nat : d < k => V[d] \in {0, 7}
  <2>1. PTE_P + PTE_W + PTE_U = 7
    BY DEF PTE_P, PTE_W, PTE_U
  <2>2. \A d \in Nat : d < k => d \in 0 .. Dirs - 1
    BY <1>2
  <2> QED  BY <2>1, <2>2 DEF Vpd
<1>4. PICK dirs : dirs = Items(Dirs, 0, V) /\ Listing(dirs, V, 0, k)
  <2>1. \A p \in Nat : 0 <= p /\ p < k => V[p] \in Nat
    BY <1>3
  <2>2. Listing(Items(k, 0, V), V, 0, k)
    BY <2>1, ItemsListing
  <2> QED  BY <1>2, <2>2
<1>5. PICK m \in Nat : m = Len(dirs) /\ dirs \in Seq(Item)
  BY <1>4 DEF Listing
<1>6. PICK u : Under(u, dirs, T, m) /\ print_pgdir(pgdir) = u[m]
  BY <1>4, <1>5, PrintIs
<1> DEFINE Below(i) == IF i = 0 THEN 0 ELSE dirs[i].right
<1>7. ASSUME NEW i \in 1 .. m
      PROVE  /\ dirs[i].left \in Nat /\ dirs[i].right \in Nat
             /\ dirs[i].left < dirs[i].right /\ dirs[i].right <= k /\ dirs[i].perm = 7
  <2>1. dirs[i] \in Item
    BY <1>5
  <2>2. PICK l, r \in Nat : l = dirs[i].left /\ r = dirs[i].right
    BY <2>1 DEF Item
  <2>3. l < r /\ r <= k /\ dirs[i].perm # 0 /\ \A p \in Nat : l <= p /\ p < r => V[p] = dirs[i].perm
    <3>1. i \in 1 .. Len(dirs)
      BY <1>5
    <3>2. /\ dirs[i].left < dirs[i].right /\ dirs[i].right <= k /\ dirs[i].perm # 0
          /\ \A p \in Nat : dirs[i].left <= p /\ p < dirs[i].right => V[p] = dirs[i].perm
      BY ONLY <1>4, <3>1 DEF Listing
    <3> QED  BY ONLY <2>2, <3>2
  <2>4. V[l] = dirs[i].perm /\ V[l] \in {0, 7}
    <3>1. l < k
      BY <2>3
    <3> QED  BY <1>3, <2>3, <3>1
  <2> QED  BY <2>2, <2>3, <2>4
<1>8. \A i, j \in 1 .. m : i < j => dirs[i].right <= dirs[j].left
  <2>1. 0 \in Nat /\ k \in Nat
    OBVIOUS
  <2> QED  BY ONLY <1>4, <1>5, <2>1, ListingSorted
<1>9. ASSUME NEW i \in 1 .. m
      PROVE  /\ Below(i - 1) \in Nat /\ Below(i - 1) <= dirs[i].left
             /\ i > 1 => Below(i - 1) < dirs[i].left
  <2>1. CASE i = 1
    BY <1>7, <2>1
  <2>2. CASE i # 1
    <3>1. PICK j \in 1 .. m : i = j + 1 /\ j = i - 1 /\ j # 0
      <4>1. i - 1 \in 1 .. m /\ i = (i - 1) + 1 /\ i - 1 # 0
        BY <2>2
      <4> QED  BY <4>1
    <3>2. dirs[j].right < dirs[i].left
      <4>1. \/ dirs[j].right < dirs[i].left
            \/ dirs[j].right = dirs[i].left /\ dirs[j].perm # dirs[i].perm
        BY <1>4, <1>5, <3>1 DEF Listing
      <4> QED  BY <1>7, <4>1
    <3>3. Below(i - 1) = dirs[j].right
      BY <3>1
    <3> QED  BY <1>7, <3>2, <3>3
  <2> QED  BY <2>1, <2>2
<1>10. ASSUME NEW i \in 0 .. m, NEW hi \in Nat, hi <= k, i < m => hi <= dirs[i + 1].left
       PROVE  \A d \in Nat : Below(i) <= d /\ d < hi => V[d] = 0
  <2> SUFFICES ASSUME NEW d \in Nat, Below(i) <= d, d < hi, V[d] # 0 PROVE FALSE
    OBVIOUS
  <2>1. PICK j \in 1 .. m : dirs[j].left <= d /\ d < dirs[j].right
    <3>1. 0 <= d /\ d < k
      BY <1>10
    <3> QED  BY <1>4, <1>5, <3>1 DEF Listing
  <2>2. CASE j <= i
    <3>1. i \in 1 .. m /\ Below(i) = dirs[i].right
      BY <2>2
    <3>2. dirs[j].right <= dirs[i].right
      <4>1. CASE j = i
        BY <1>7, <4>1
      <4>2. CASE j < i
        <5>1. dirs[j].right <= dirs[i].left
          BY <1>8, <3>1, <4>2
        <5> QED  BY <1>7, <3>1, <5>1
      <4> QED  BY <2>2, <4>1, <4>2
    <3> QED  BY <1>7, <2>1, <3>1, <3>2
  <2>3. CASE i < j
    <3>1. i + 1 \in 1 .. m /\ i < m /\ (i + 1 = j \/ i + 1 < j)
      BY <2>3
    <3>2. dirs[i + 1].left <= dirs[j].left
      <4>1. CASE i + 1 = j
        BY <1>7, <4>1
      <4>2. CASE i + 1 < j
        <5>1. dirs[i + 1].right <= dirs[j].left
          BY <1>8, <3>1, <4>2
        <5> QED  BY <1>7, <3>1, <5>1
      <4> QED  BY <3>1, <4>1, <4>2
    <3>3. hi <= dirs[i + 1].left
      BY <1>10, <3>1
    <3> QED  BY <1>7, <2>1, <3>1, <3>2, <3>3
  <2> QED  BY <2>2, <2>3
<1>11. ASSUME NEW p \in Nat, p < k * n PROVE T[p] \in Nat
  <2>1. p \in LinearPage
    BY <1>1, <1>2, <1>11 DEF LinearPage
  <2>2. pgdir[p] \in [pa : Int, perm : Nat]
    BY <2>1 DEF Directory
  <2> QED  BY <2>1, <2>2 DEF Vpt
<1> HIDE DEF T, V
<1>12. ASSUME NEW j \in 0 .. m, NEW i \in 1 .. m, i = j + 1, Listing(u[j], T, 0, Below(j) * n)
       PROVE  Listing(u[i], T, 0, Below(i) * n)
  <2>1. PICK a, l, r \in Nat : a = Below(j) /\ l = dirs[i].left /\ r = dirs[i].right /\ Below(i) = r
    <3>1. i - 1 = j /\ i # 0
      BY <1>12
    <3> QED  BY <1>7, <1>9, <3>1
  <2>2. a <= l /\ l < r /\ r <= k /\ (j >= 1 => a < l)
    <3>1. i - 1 = j /\ (j >= 1 => i > 1)
      BY <1>12
    <3> QED  BY <1>7, <1>9, <2>1, <3>1
  <2>3. PICK x, y, z \in Nat : x = a * n /\ y = l * n /\ z = r * n /\ x <= y /\ y <= z /\ z <= k * n
                                /\ (j >= 1 => x < y)
    <3>1. a * n \in Nat /\ l * n \in Nat /\ r * n \in Nat /\ k * n \in Nat
      OBVIOUS
    <3>2. \A b, c \in Nat : b < c => b * n < c * n
      <4> SUFFICES ASSUME NEW b \in Nat, NEW c \in Nat, b < c PROVE b * n < c * n
        OBVIOUS
      <4>1. PICK v, w \in Int : v = b * n /\ w = c * n
        OBVIOUS
      <4>2. v + n <= w
        BY <4>1, Multiples
      <4> QED  BY <4>1, <4>2
    <3>3. \A b, c \in Nat : b <= c => b * n <= c * n
      <4> SUFFICES ASSUME NEW b \in Nat, NEW c \in Nat, b <= c PROVE b * n <= c * n
        OBVIOUS
      <4>1. PICK v, w \in Int : v = b * n /\ w = c * n
        OBVIOUS
      <4>2. b = c \/ b < c
        OBVIOUS
      <4> QED  BY <3>2, <4>1, <4>2
    <3>4. a * n <= l * n /\ l * n <= r * n /\ r * n <= k * n /\ (j >= 1 => a * n < l * n)
      BY <2>2, <3>2, <3>3
    <3> QED  BY <3>1, <3>4
  <2>4. PICK t : t = Items(dirs[i].right * Entries, dirs[i].left * Entries, T) /\ Listing(t, T, y, z)
    <3>1. \A p \in Nat : y <= p /\ p < z => T[p] \in Nat
      <4> SUFFICES ASSUME NEW p \in Nat, p < z PROVE p < k * n
        BY <1>11
      <4>1. PICK w \in Nat : w = k * n
        OBVIOUS
      <4> QED  BY <2>3, <4>1
    <3>2. Listing(Items(z, y, T), T, y, z)
      BY ONLY <2>3, <3>1, ItemsListing, y \in Nat, z \in Nat
    <3> QED  BY <1>1, <2>1, <2>3, <3>2
  <2>5. PICK s : s = u[j] /\ Listing(s, T, 0, x)
    BY <1>12, <2>1, <2>3
  <2>6. u[i] = s \o t
    <3>1. i \in 0 .. m /\ i # 0 /\ i - 1 = j
      BY <1>12
    <3> QED  BY <1>6, <2>4, <2>5, <3>1 DEF Under
  <2>7. \A p \in Nat : x <= p /\ p < y => T[p] = 0
    <3>1. \A d \in Nat : a <= d /\ d < l => V[d] = 0
      <4>1. l <= k /\ (j < m => l <= dirs[j + 1].left)
        BY <1>7, <1>12, <2>1, <2>2
      <4> QED  BY <1>10, <2>1, <4>1
    <3>2. l <= Dirs
      BY <1>2, <2>2
    <3> QED  BY <1>1, <2>2, <2>3, <3>1, <3>2, NoTable DEF T, V
  <2>8. ASSUME Len(s) > 0, Len(t) > 0 PROVE s[Len(s)].right < t[1].left
    <3>1. j # 0
      <4>1. ASSUME j = 0 PROVE u[j] = <<>>
        BY <1>6, <4>1 DEF Under
      <4>2. Len(<<>>) = 0
        OBVIOUS
      <4> QED  BY <2>5, <2>8, <4>1, <4>2
    <3>2. s \in Seq(Item) /\ t \in Seq(Item) /\ Len(s) \in 1 .. Len(s) /\ 1 \in 1 .. Len(t)
      <4>1. s \in Seq(Item) /\ t \in Seq(Item)
        BY ONLY <2>4, <2>5 DEF Listing
      <4> QED  BY ONLY <2>8, <4>1
    <3>3. s[Len(s)] \in Item /\ t[1] \in Item
      BY <3>2
    <3>4. PICK b, c \in Nat : b = s[Len(s)].right /\ c = t[1].left
      BY <3>3 DEF Item
    <3>5. b <= x
      BY <2>5, <3>2, <3>4 DEF Listing
    <3>6. y <= c
      BY <2>4, <3>2, <3>4 DEF Listing
    <3>7. x < y
      BY <2>3, <3>1
    <3> QED  BY <3>4, <3>5, <3>6, <3>7
  <2>9. 0 \in Nat /\ 0 <= x
    OBVIOUS
  <2>10. Listing(s \o t, T, 0, z)
    BY ONLY <2>3, <2>4, <2>5, <2>7, <2>8, <2>9, ListingJoined, x \in Nat, y \in Nat, z \in Nat
  <2> QED  BY <2>1, <2>3, <2>6, <2>10
<1>13. \A a \in Nat, hi \in Nat : a = hi => Listing(<<>>, T, a, hi)
  <2>1. <<>> \in Seq(Item) /\ 1 .. Len(<<>>) = {}
    OBVIOUS
  <2> QED  BY <2>1 DEF Listing
<1> DEFINE Bad == {i \in Nat : i <= m /\ ~Listing(u[i], T, 0, Below(i) * n)}
<1>14. ASSUME Bad # {} PROVE FALSE
  <2>1. PICK i \in Bad : \A j \in Bad : i <= j
    BY <1>14, LeastNatural
  <2>2. i \in Nat /\ i <= m /\ ~Listing(u[i], T, 0, Below(i) * n)
    BY <2>1
  <2>3. i # 0
    <3>1. u[0] = <<>>
      BY <1>6 DEF Under
    <3>2. Below(0) * n = 0
      OBVIOUS
    <3>3. Listing(<<>>, T, 0, 0)
      BY <1>13
    <3> QED  BY <2>2, <3>1, <3>2, <3>3
  <2>4. PICK j \in 0 .. m : i = j + 1 /\ ~(i <= j) /\ j <= m
    <3>1. i - 1 \in 0 .. m /\ i = (i - 1) + 1 /\ ~(i <= i - 1) /\ i - 1 <= m
      BY <2>2, <2>3
    <3> QED  BY <3>1
  <2>5. j \in Nat /\ j \notin Bad
    BY <2>1, <2>4
  <2>6. Listing(u[j], T, 0, Below(j) * n)
    BY <2>4, <2>5
  <2>7. i \in 1 .. m
    BY <2>2, <2>3
  <2> QED  BY <1>12, <2>2, <2>4, <2>6, <2>7
<1>15. PICK a \in Nat : /\ a = Below(m) /\ a <= k
                        /\ Listing(u[m], T, 0, a * n)
  <2>1. m \notin Bad
    BY <1>14
  <2>2. Listing(u[m], T, 0, Below(m) * n)
    BY <2>1
  <2>3. Below(m) \in Nat /\ Below(m) <= k
    <3>1. CASE m = 0
      BY <3>1
    <3>2. CASE m # 0
      <4>1. m \in 1 .. m
        BY <3>2
      <4> QED  BY <1>7, <3>2, <4>1
    <3> QED  BY <3>1, <3>2
  <2> QED  BY <2>2, <2>3
<1>16. PICK x, z \in Nat : x = a * n /\ z = k * n /\ x <= z
  <2>1. a * n \in Nat /\ k * n \in Nat
    OBVIOUS
  <2>2. PICK v, w \in Int : v = a * n /\ w = k * n
    OBVIOUS
  <2>3. a < k => v + n <= w
    BY <2>2, Multiples
  <2>4. a = k => v = w
    BY <2>2
  <2>5. v <= w
    BY <1>15, <2>3, <2>4
  <2> QED  BY <2>1, <2>2, <2>5
<1>17. \A p \in Nat : x <= p /\ p < z => T[p] = 0
  <2>1. \A d \in Nat : a <= d /\ d < k => V[d] = 0
    <3>1. m \in 0 .. m /\ k <= k /\ k \in Nat /\ ~(m < m)
      OBVIOUS
    <3> QED  BY <1>10, <1>15, <3>1
  <2>2. k <= Dirs /\ \A d \in Nat : a <= d /\ d < k => Vpd(pgdir)[d] = 0
    BY <1>2, <2>1 DEF V
  <2>3. \A p \in Nat : a * Entries <= p /\ p < k * Entries => T[p] = 0
    BY ONLY <1>15, <2>2, NoTable, pgdir \in Directory, a \in Nat, k \in Nat DEF T
  <2> QED  BY ONLY <1>1, <1>16, <2>3
<1>18. Listing(u[m] \o <<>>, T, 0, z)
  <2>1. Listing(u[m], T, 0, x) /\ Listing(<<>>, T, z, z)
    BY <1>13, <1>15, <1>16
  <2>2. 0 \in Nat /\ 0 <= x /\ z <= z /\ ~(Len(<<>>) > 0)
    OBVIOUS
  <2> QED  BY ONLY <1>16, <1>17, <2>1, <2>2, ListingJoined, x \in Nat, z \in Nat
<1>19. u[m] \o <<>> = u[m]
  <2>1. u[m] \in Seq(Item)
    BY <1>15 DEF Listing
  <2> QED  BY <2>1
<1>20. z = Dirs * Entries
  BY <1>1, <1>2, <1>16
<1> QED  BY <1>6, <1>18, <1>19, <1>20 DEF T

(* An entry of the directory is in one item exactly, another in none. *)
LEMMA CountOnce ==
  ASSUME NEW s, NEW T, NEW hi \in Nat, Listing(s, T, 0, hi), NEW p \in Nat, p < hi
  PROVE  Cardinality({i \in DOMAIN s : p \in s[i].left .. s[i].right - 1}) =
            (IF T[p] = 0 THEN 0 ELSE 1)
<1>1. PICK n \in Nat : n = Len(s) /\ s \in Seq(Item) /\ DOMAIN s = 1 .. n
  BY DEF Listing
<1>2. ASSUME NEW i \in 1 .. n
      PROVE  /\ s[i].left \in Nat /\ s[i].right \in Nat /\ s[i].perm # 0
             /\ s[i].left <= p /\ p < s[i].right => T[p] = s[i].perm
             /\ p \in s[i].left .. s[i].right - 1 <=> s[i].left <= p /\ p < s[i].right
  <2>1. s[i] \in Item
    BY <1>1
  <2>2. PICK l, r \in Nat : l = s[i].left /\ r = s[i].right
    BY <2>1 DEF Item
  <2>3. p \in l .. r - 1 <=> l <= p /\ p < r
    OBVIOUS
  <2>4. s[i].perm # 0 /\ (l <= p /\ p < r => T[p] = s[i].perm)
    BY <1>1, <2>2 DEF Listing
  <2> QED  BY <2>2, <2>3, <2>4
<1>3. \A i, j \in 1 .. n : i < j => s[i].right <= s[j].left
  <2>1. 0 \in Nat
    OBVIOUS
  <2> QED  BY ONLY <1>1, <2>1, ListingSorted, Listing(s, T, 0, hi), hi \in Nat
<1> DEFINE C == {i \in DOMAIN s : p \in s[i].left .. s[i].right - 1}
<1>4. \A i, j \in C : i = j
  <2>1. ASSUME NEW i \in C, NEW j \in C, i < j PROVE FALSE
    <3>1. i \in 1 .. n /\ j \in 1 .. n
      BY <1>1
    <3>2. p < s[i].right /\ s[j].left <= p
      BY <1>2, <3>1
    <3>3. PICK x, y \in Nat : x = s[i].right /\ y = s[j].left
      BY <1>2, <3>1
    <3>4. x <= y
      BY <1>3, <2>1, <3>1, <3>3
    <3> QED  BY <3>2, <3>3, <3>4
  <2>2. C \subseteq Int
    BY <1>1
  <2>3. \A i, j \in C : ~(i < j)
    BY <2>1
  <2> HIDE DEF C
  <2> QED  BY <2>2, <2>3
<1>5. CASE T[p] = 0
  <2>1. C = {}
    <3> SUFFICES ASSUME NEW i \in C PROVE FALSE
      OBVIOUS
    <3>1. i \in 1 .. n
      BY <1>1
    <3> QED  BY <1>2, <1>5, <3>1
  <2> QED  BY <1>5, <2>1, FS_EmptySet
<1>6. CASE T[p] # 0
  <2>1. PICK i \in 1 .. n : s[i].left <= p /\ p < s[i].right
    <3>1. 0 <= p
      OBVIOUS
    <3> QED  BY <1>1, <1>6, <3>1 DEF Listing
  <2>2. i \in C
    BY <1>1, <1>2, <2>1
  <2>3. C = {i}
    BY <1>4, <2>2
  <2> QED  BY <1>6, <2>3, FS_Singleton
<1> QED  BY <1>5, <1>6

(* The pages that boot_map_segment maps are those that the segment touches. *)
LEMMA Touched ==
  ASSUME NEW la \in Nat, NEW size \in Nat \ {0}
  PROVE  \E f, n \in Nat :
            /\ la \div PageSize = f
            /\ (size + PGOFF(la) + PageSize - 1) \div PageSize = n
            /\ PGOFF(la) = la - f * PageSize
            /\ \A p \in Nat : (f <= p /\ p < f + n) <=>
                  \E o \in 0 .. size - 1 : (la + o) \div PageSize = p
<1>1. PICK b \in Nat \ {0} : b = PageSize
  BY MapAssumption
<1>2. PICK f \in Nat : la \div b = f /\ la % b = la - f * b /\ f * b <= la /\ la < f * b + b
  BY Floor
<1>3. PICK F \in Nat : F = f * b
  <2>1. f * b \in Nat
    OBVIOUS
  <2> QED  BY <2>1
<1>4. PICK r \in Nat : r = la % b /\ r = la - F /\ F <= la /\ la < F + b
  <2>1. la - F \in Nat
    BY <1>2, <1>3
  <2> QED  BY <1>2, <1>3, <2>1
<1>5. PICK n \in Nat : /\ (size + r + b - 1) \div b = n /\ n * b <= size + r + b - 1
                       /\ size + r + b - 1 < n * b + b
  <2>1. size + r + b - 1 \in Nat
    OBVIOUS
  <2> QED  BY <2>1, Floor
<1>6. PICK N \in Nat : N = n * b
  <2>1. n * b \in Nat
    OBVIOUS
  <2> QED  BY <2>1
<1>7. ASSUME NEW p \in Nat
      PROVE  (f <= p /\ p < f + n) <=> \E o \in 0 .. size - 1 : (la + o) \div PageSize = p
  <2>1. PICK Q \in Nat : Q = p * b
    <3>1. p * b \in Nat
      OBVIOUS
    <3> QED  BY <3>1
  <2>2. /\ p < f => Q + b <= F
        /\ f < p => F + b <= Q
    BY <1>3, <2>1, Multiples
  <2>3. /\ p < f + n => Q + b <= F + N
        /\ Q < F + N => p < f + n
    <3>1. (f + n) * b = f * b + n * b /\ f + n \in Int
      OBVIOUS
    <3>2. PICK w \in Int : w = (f + n) * b /\ w = F + N
      BY <1>3, <1>6, <3>1
    <3>3. /\ p < f + n => p * b + b <= (f + n) * b
          /\ p * b < (f + n) * b => p < f + n
      BY <3>1, Multiples
    <3> QED  BY <2>1, <3>2, <3>3
  <2>4. ASSUME f <= p, p < f + n PROVE \E o \in 0 .. size - 1 : (la + o) \div b = p
    <3>1. CASE p = f
      <4>1. 0 \in 0 .. size - 1 /\ la + 0 = la
        OBVIOUS
      <4> QED  BY <1>2, <3>1, <4>1
    <3>2. CASE p # f
      <4>1. F + b <= Q
        BY <2>2, <2>4, <3>2
      <4>2. PICK o \in 0 .. size - 1 : la + o = Q
        <5>1. Q + b <= F + N /\ N <= size + r + b - 1
          BY <1>5, <1>6, <2>3, <2>4
        <5>2. Q - la \in 0 .. size - 1 /\ la + (Q - la) = Q
          BY <1>4, <4>1, <5>1
        <5> QED  BY <5>2
      <4>3. (p * b) \div b = p
        BY Quotient
      <4> QED  BY <2>1, <4>2, <4>3
    <3> QED  BY <3>1, <3>2
  <2>5. ASSUME NEW o \in 0 .. size - 1, (la + o) \div b = p PROVE f <= p /\ p < f + n
    <3>1. Q <= la + o /\ la + o < Q + b
      <4>1. la + o \in Nat
        OBVIOUS
      <4>2. PICK q \in Nat : (la + o) \div b = q /\ q * b <= la + o /\ la + o < q * b + b
        BY <4>1, Floor
      <4>3. q = p
        BY <2>5, <4>2
      <4> QED  BY <2>1, <4>2, <4>3
    <3>2. ~(p < f)
      BY <1>4, <2>2, <3>1
    <3>3. size + r + b - 1 < N + b
      BY <1>5, <1>6
    <3>4. Q < F + N
      BY <1>4, <3>1, <3>3
    <3> QED  BY <2>3, <3>2, <3>4
  <2> QED  BY ONLY <1>1, <2>4, <2>5
<1>8. /\ la \div PageSize = f
      /\ (size + PGOFF(la) + PageSize - 1) \div PageSize = n
      /\ PGOFF(la) = la - f * PageSize
  BY ONLY <1>1, <1>2, <1>4, <1>5 DEF PGOFF
<1> QED  BY ONLY <1>7, <1>8, f \in Nat, n \in Nat

LEMMA OnePage ==
  ASSUME NEW page \in Nat
  PROVE  /\ (page * PageSize) \div PageSize = page
         /\ (1 + PGOFF(page * PageSize) + PageSize - 1) \div PageSize = 1
<1>1. PICK b \in Nat \ {0} : b = PageSize
  BY MapAssumption
<1>2. (page * b) % b = 0 /\ (page * b) \div b = page
  BY Quotient
<1>3. (1 * b) \div b = 1 /\ 1 + 0 + b - 1 = 1 * b
  BY Quotient
<1> QED  BY ONLY <1>1, <1>2, <1>3 DEF PGOFF

(* Every segment, with another page mapped after it. *)
LEMMA MappedSegment ==
  ASSUME NEW la \in Nat, NEW size \in Nat \ {0}, NEW pa \in Nat, NEW perm \in Nat,
         NEW page \in LinearPage, Mappable(la, size, pa)
  PROVE  SegmentMapped(la, size, pa, perm, page)
<1> DEFINE segment == boot_map_segment(Empty, la, size, pa, perm)
<1> DEFINE pgdir == boot_map_segment(segment, page * PageSize, 1, 0, PTE_U)
<1> DEFINE Touches(p) == \E o \in 0 .. size - 1 : (la + o) \div PageSize = p
<1>1. PICK b \in Nat \ {0} : b = PageSize
  BY MapAssumption
<1>2. PICK k \in Nat \ {0}, N \in Nat : k = Dirs * Entries /\ N = k * b
  <2>1. PICK d, e \in Nat \ {0} : d = Dirs /\ e = Entries
    BY MapAssumption
  <2>2. d * e \in Nat \ {0} /\ (d * e) * b \in Nat
    OBVIOUS
  <2> QED  BY <2>1, <2>2
<1>3. LinearPage = 0 .. k - 1 /\ page \in Nat
  BY <1>2 DEF LinearPage
<1>4. la + size <= N
  BY <1>1, <1>2 DEF Mappable
<1>5. PICK f, n \in Nat :
        /\ la \div b = f /\ (size + PGOFF(la) + b - 1) \div b = n
        /\ PGOFF(la) = la - f * b
        /\ \A p \in Nat : (f <= p /\ p < f + n) <=> Touches(p)
  <2>1. PICK f, n \in Nat :
          /\ la \div PageSize = f
          /\ (size + PGOFF(la) + PageSize - 1) \div PageSize = n
          /\ PGOFF(la) = la - f * PageSize
          /\ \A p \in Nat : (f <= p /\ p < f + n) <=>
                \E o \in 0 .. size - 1 : (la + o) \div PageSize = p
    BY ONLY Touched, la \in Nat, size \in Nat \ {0}
  <2>2. \A p \in Nat : (f <= p /\ p < f + n) <=> Touches(p)
    BY ONLY <2>1 DEF Touches
  <2> HIDE DEF Touches
  <2> QED  BY ONLY <1>1, <2>1, <2>2, f \in Nat, n \in Nat
<1>6. ASSUME NEW p \in LinearPage
      PROVE  segment[p] = IF Touches(p) THEN [pa |-> pa - PGOFF(pa) + (p - f) * b, perm |-> perm + 1]
                          ELSE Absent
  <2>1. segment[p] = IF p \in f .. f + n - 1
                     THEN [pa |-> pa - PGOFF(pa) + (p - f) * b, perm |-> perm + 1] ELSE Absent
    BY <1>1, <1>5 DEF boot_map_segment, Empty, PTE_P
  <2>2. p \in Nat /\ (p \in f .. f + n - 1 <=> f <= p /\ p < f + n)
    BY <1>3
  <2> HIDE DEF segment, Touches
  <2>3. p \in f .. f + n - 1 <=> Touches(p)
    BY <1>5, <2>2
  <2> QED  BY <2>1, <2>3
<1>7. ASSUME NEW p \in LinearPage
      PROVE  pgdir[p] = IF p = page THEN [pa |-> 0 - PGOFF(0) + (p - page) * b, perm |-> 5]
                        ELSE segment[p]
  <2>1. (page * PageSize) \div PageSize = page /\ (1 + PGOFF(page * PageSize) + PageSize - 1) \div PageSize = 1
    BY <1>3, OnePage
  <2>2. p \in page .. page + 1 - 1 <=> p = page
    BY <1>3
  <2>3. PTE_U + PTE_P = 5
    BY DEF PTE_U, PTE_P
  <2> HIDE DEF segment
  <2> QED  BY <1>1, <2>1, <2>2, <2>3 DEF boot_map_segment
<1>8. PGOFF(0) = 0 /\ PGOFF(pa) \in Int
  <2>1. (0 * b) % b = 0 /\ 0 * b = 0
    BY Quotient
  <2>2. pa % b \in Int
    OBVIOUS
  <2> QED  BY ONLY <1>1, <2>1, <2>2 DEF PGOFF
<1> DEFINE entry == [pa : Int, perm : Nat]
<1>9. ASSUME NEW p \in LinearPage
      PROVE  /\ pgdir[p] \in entry
             /\ pgdir[p] = Absent <=> pgdir[p].perm = 0
             /\ pgdir[p] = Absent <=> p # page /\ ~Touches(p)
  <2> HIDE DEF pgdir, segment, Touches
  <2>1. CASE p = page
    <3>1. PICK x \in Int : x = 0 - PGOFF(0) + (p - page) * b
      <4>1. 0 - PGOFF(0) + (p - page) * b \in Int
        BY <1>3, <1>8
      <4> QED  BY <4>1
    <3>2. pgdir[p] = [pa |-> x, perm |-> 5]
      BY <1>7, <2>1, <3>1
    <3> QED  BY <2>1, <3>2 DEF Absent
  <2>2. CASE p # page /\ Touches(p)
    <3>1. PICK x \in Int : x = pa - PGOFF(pa) + (p - f) * b
      <4>1. pa - PGOFF(pa) + (p - f) * b \in Int
        BY <1>3, <1>8
      <4> QED  BY <4>1
    <3>2. pgdir[p] = [pa |-> x, perm |-> perm + 1]
      BY <1>6, <1>7, <2>2, <3>1
    <3>3. perm + 1 \in Nat /\ perm + 1 # 0
      OBVIOUS
    <3> QED  BY <2>2, <3>2, <3>3 DEF Absent
  <2>3. CASE p # page /\ ~Touches(p)
    <3>1. pgdir[p] = [pa |-> 0, perm |-> 0]
      BY <1>6, <1>7, <2>3 DEF Absent
    <3> QED  BY <2>3, <3>1 DEF Absent
  <2> QED  BY <2>1, <2>2, <2>3
<1>10. pgdir \in Directory
  <2>1. pgdir = [p \in LinearPage |-> pgdir[p]]
    BY DEF boot_map_segment
  <2> HIDE DEF pgdir
  <2>2. pgdir \in [LinearPage -> entry]
    BY <1>9, <2>1
  <2> QED  BY <1>9, <2>2 DEF Directory
<1>11. ASSUME NEW o \in 0 .. size - 1, (la + o) \div PageSize # page
       PROVE  Reaches(pgdir, la + o) = pa + o
  <2>1. la + o \in Nat
    OBVIOUS
  <2>2. PICK q \in Nat : /\ (la + o) \div b = q /\ (la + o) % b = la + o - q * b
                         /\ q * b <= la + o /\ la + o < q * b + b
    <3>1. PICK x \in Nat : x = la + o
      BY <2>1
    <3>2. PICK q \in Nat : /\ x \div b = q /\ x % b = x - q * b
                           /\ q * b <= x /\ x < q * b + b
      BY ONLY x \in Nat, b \in Nat \ {0}, Floor
    <3> QED  BY ONLY <3>1, <3>2, q \in Nat
  <2>3. q \in LinearPage
    <3>1. q * b < k * b => q < k
      BY Multiples
    <3>2. PICK w \in Nat : w = q * b
      <4>1. q * b \in Nat
        OBVIOUS
      <4> QED  BY <4>1
    <3>3. w < N
      BY <1>4, <2>2, <3>2
    <3> QED  BY <1>2, <1>3, <3>1, <3>2, <3>3
  <2>4. Touches(q)
    BY <1>1, <2>2
  <2>5. pgdir[q] = [pa |-> pa - PGOFF(pa) + (q - f) * b, perm |-> perm + 1]
    <3> HIDE DEF pgdir, segment, Touches
    <3>1. q # page
      BY <1>1, <1>11, <2>2
    <3> QED  BY <1>6, <1>7, <2>3, <2>4, <3>1
  <2>6. PGOFF(pa) = la - f * b
    BY <1>5 DEF Mappable
  <2>7. Reaches(pgdir, la + o) = (pa - (la - f * b) + (q - f) * b) + (la + o - q * b)
    <3> HIDE DEF pgdir
    <3>1. Reaches(pgdir, la + o) = pgdir[q].pa + ((la + o) % b)
      BY <1>1, <2>2 DEF Reaches, PGOFF
    <3> QED  BY <2>2, <2>5, <2>6, <3>1
  <2>8. (q - f) * b = q * b - f * b
    OBVIOUS
  <2>9. PICK v, w \in Int : v = q * b /\ w = f * b
    OBVIOUS
  <2>10. (pa - (la - w) + (v - w)) + (la + o - v) = pa + o
    BY ONLY o \in 0 .. size - 1, size \in Nat, la \in Nat, pa \in Nat, v \in Int, w \in Int
  <2> QED  BY ONLY <2>7, <2>8, <2>9, <2>10
<1>12. PICK printed : printed = print_pgdir(pgdir) /\ Listing(printed, Vpt(pgdir), 0, k)
  BY <1>2, <1>10, Printed
<1>13. PICK m \in Nat : m = Len(printed) /\ printed \in Seq(Item) /\ DOMAIN printed = 1 .. m
  BY <1>12 DEF Listing
<1> HIDE DEF pgdir
<1>14. ASSUME NEW p \in LinearPage
       PROVE  Cardinality({i \in DOMAIN printed : p \in printed[i].left .. printed[i].right - 1}) =
                 (IF pgdir[p] = Absent THEN 0 ELSE 1)
  <2>1. p \in Nat /\ p < k
    BY <1>3
  <2>2. Vpt(pgdir)[p] = 0 <=> pgdir[p] = Absent
    BY <1>9 DEF Vpt
  <2>3. Cardinality({i \in DOMAIN printed : p \in printed[i].left .. printed[i].right - 1}) =
            (IF Vpt(pgdir)[p] = 0 THEN 0 ELSE 1)
    BY ONLY <1>12, <2>1, CountOnce, k \in Nat \ {0}
  <2> QED  BY ONLY <2>2, <2>3
<1>15. ASSUME NEW i \in DOMAIN printed, NEW p \in printed[i].left .. printed[i].right - 1
       PROVE  pgdir[p].perm = printed[i].perm
  <2>1. printed[i] \in Item
    BY <1>13
  <2>2. PICK l, r \in Nat : l = printed[i].left /\ r = printed[i].right
    BY <2>1 DEF Item
  <2>3. r <= k /\ \A q \in Nat : l <= q /\ q < r => Vpt(pgdir)[q] = printed[i].perm
    BY <1>12, <1>13, <2>2 DEF Listing
  <2>4. p \in Nat /\ l <= p /\ p < r
    BY <2>2
  <2>5. p \in LinearPage
    BY <1>3, <2>3, <2>4
  <2> QED  BY <2>3, <2>4, <2>5 DEF Vpt
<1>16. ASSUME NEW i \in DOMAIN printed, i < Len(printed)
       PROVE  \/ printed[i].right < printed[i + 1].left
              \/ printed[i].right = printed[i + 1].left /\ printed[i].perm # printed[i + 1].perm
  <2>1. i \in 1 .. m /\ i + 1 \in 1 .. m
    BY <1>13, <1>16
  <2> QED  BY <1>12, <1>13, <2>1 DEF Listing
<1>17. \A p \in LinearPage : pgdir[p] = Absent <=>
          p # page /\ \A o \in 0 .. size - 1 : (la + o) \div PageSize # p
  BY <1>9
<1>18. pgdir = boot_map_segment(boot_map_segment(Empty, la, size, pa, perm), page * PageSize, 1, 0, PTE_U)
  BY DEF pgdir
<1>19. printed = print_pgdir(pgdir)
  BY <1>12
<1> HIDE DEF Touches
<1> QED
  BY ONLY <1>11, <1>14, <1>15, <1>16, <1>17, <1>18, <1>19 DEF SegmentMapped

(* boot_map_segment and print_pgdir of kern/mm/pmm.c, for every size of a  *)
(* page and of the two tables and every segment that fits: each address    *)
(* leads where it should, no other page is mapped, and the listing shows   *)
(* every mapping once, in ranges that cannot be extended.                  *)
THEOREM SegmentsTheorem ==
  /\ \A la, pa, perm \in Nat, size \in Nat \ {0}, page \in LinearPage :
        Mappable(la, size, pa) => SegmentMapped(la, size, pa, perm, page)
  /\ MCSpec => []SegmentsMapped
<1>1. \A la, pa, perm \in Nat, size \in Nat \ {0}, page \in LinearPage :
        Mappable(la, size, pa) => SegmentMapped(la, size, pa, perm, page)
  BY MappedSegment
<1> DEFINE AskedMap == in[1] = "map" => in[2] \in Nat /\ in[3] \in Nat
<1>2. MCInit => AskedMap
  BY DEF MCInit
<1>3. AskedMap /\ [MCNext]_allvars => AskedMap'
  <2> SUFFICES ASSUME AskedMap, [MCNext]_allvars PROVE AskedMap'
    OBVIOUS
  <2>1. CASE UNCHANGED in
    BY <2>1
  <2>2. CASE Boot
    <3>1. CASE \E q \in Programs, text \in Text : in' = <<"load", q, text>>
      BY <3>1
    <3>2. CASE \E e \in MemEntries, end \in {0, 3, 5} : in' = <<"memory", e, end>>
      BY <3>2
    <3>3. CASE \E la \in 0 .. 11, pa \in 0 .. 7 : in' = <<"map", la, pa>>
      BY <3>3
    <3> QED  BY <2>2, <3>1, <3>2, <3>3 DEF Boot
  <2>3. CASE Answered
    BY <2>3 DEF Answered
  <2> QED  BY <2>1, <2>2, <2>3 DEF MCNext, Interruptible, Switching, allvars
<1>4. AskedMap => SegmentsMapped
  <2>1. PTE_W \in Nat /\ 1 .. 14 \subseteq Nat \ {0}
    BY DEF PTE_W
  <2> QED  BY <1>1, <2>1 DEF SegmentsMapped
<1>5. MCSpec => []SegmentsMapped
  BY <1>2, <1>3, <1>4, PTL DEF MCSpec
<1> QED  BY <1>1, <1>5

-----------------------------------------------------------------------------
(* The boot loader.                                                        *)

LEMMA DivIs ==
  ASSUME NEW a \in Nat, NEW p \in Nat \ {0}, NEW q \in Nat, q * p <= a, a < q * p + p
  PROVE  a \div p = q /\ a % p = a - q * p
<1>1. PICK e \in Nat : a \div p = e /\ a % p = a - e * p /\ e * p <= a /\ a < e * p + p
  BY Floor
<1>2. PICK x, y \in Int : x = q * p /\ y = e * p
  OBVIOUS
<1>3. ~(e < q)
  <2>1. e < q => y + p <= x
    BY <1>2, Multiples
  <2> QED  BY <1>1, <1>2, <2>1
<1>4. ~(q < e)
  <2>1. q < e => x + p <= y
    BY <1>2, Multiples
  <2> QED  BY <1>1, <1>2, <2>1
<1>5. e = q
  BY <1>3, <1>4
<1> QED  BY <1>1, <1>5

LEMMA DivDiv ==
  ASSUME NEW a \in Nat, NEW b \in Nat \ {0}, NEW c \in Nat \ {0}
  PROVE  (a \div b) \div c = a \div (b * c)
<1>1. PICK u \in Nat : a \div b = u /\ u * b <= a /\ a < u * b + b
  BY Floor
<1>2. PICK v \in Nat : u \div c = v /\ v * c <= u /\ u < v * c + c
  BY Floor
<1>3. PICK w \in Nat : w = v * c /\ w <= u /\ u < w + c
  <2>1. v * c \in Nat
    OBVIOUS
  <2> QED  BY <1>2, <2>1
<1>4. w * b <= u * b /\ u * b + b <= (w + c) * b
  <2>1. PICK x, y \in Int : x = w * b /\ y = u * b
    OBVIOUS
  <2>2. w < u => x + b <= y
    BY <2>1, Multiples
  <2>3. w = u => x = y
    BY <2>1
  <2>4. x <= y
    BY <1>3, <2>2, <2>3
  <2>5. u * b + b <= (w + c) * b
    <3>1. w + c \in Int /\ u < w + c
      BY <1>3
    <3> QED  BY <3>1, Multiples
  <2> QED  BY <2>1, <2>4, <2>5
<1>5. PICK d \in Nat \ {0} : d = b * c
  <2>1. b * c \in Nat \ {0}
    OBVIOUS
  <2> QED  BY <2>1
<1>6. w * b = v * d /\ (w + c) * b = v * d + d
  <2>1. (v * c) * b = v * (b * c) /\ (w + c) * b = w * b + c * b /\ c * b = b * c
    OBVIOUS
  <2> QED  BY <1>3, <1>5, <2>1
<1>7. v * d <= a /\ a < v * d + d
  <2>1. PICK x, y, z \in Int : x = w * b /\ y = u * b /\ z = v * d
    OBVIOUS
  <2>2. x <= y /\ y + b <= z + d /\ x = z /\ y <= a /\ a < y + b
    BY <1>1, <1>4, <1>6, <2>1
  <2>3. z <= a /\ a < z + d
    BY ONLY <2>2, x \in Int, y \in Int, z \in Int, a \in Nat, b \in Nat \ {0}, d \in Nat \ {0}
  <2> QED  BY <2>1, <2>3
<1>8. a \div d = v
  BY <1>7, DivIs
<1> QED  BY <1>1, <1>2, <1>5, <1>8

(* The controller's registers keep the whole number of a sector. *)
LEMMA SectorAddressed ==
  ASSUME NEW s \in Nat, s < Sectors
  PROVE  Addressed(Registers(s)) = s
<1>1. PICK b, n \in Nat \ {0} : b = Byte /\ n = Nibble
  BY LoadAssumption
<1>2. PICK p \in Nat : s \div b = p /\ s % b = s - p * b
  BY Floor
<1>3. PICK q \in Nat : p \div b = q /\ p % b = p - q * b
  BY Floor
<1>4. PICK r \in Nat : /\ q \div b = r /\ q % b = q - r * b
                       /\ r * b <= q /\ q < r * b + b
  BY Floor
<1>5. b * b \in Nat \ {0} /\ b * b * b \in Nat \ {0}
  OBVIOUS
<1>6. s \div (b * b) = q
  BY <1>2, <1>3, DivDiv
<1>7. s \div (b * b * b) = r
  <2>1. (s \div (b * b)) \div b = s \div ((b * b) * b)
    BY <1>5, DivDiv
  <2> QED  BY <1>4, <1>6, <2>1
<1>8. r < n
  <2>1. PICK d \in Nat \ {0} : d = b * b * b
    BY <1>5
  <2>2. r * d <= s
    <3>1. PICK e \in Nat : s \div d = e /\ e * d <= s
      BY Floor
    <3> QED  BY <1>7, <2>1, <3>1
  <2>3. s < n * d
    <3>1. d * n = n * d
      OBVIOUS
    <3> QED  BY <1>1, <2>1, <3>1 DEF Sectors
  <2>4. r * d < n * d
    <3>1. PICK x, y \in Int : x = r * d /\ y = n * d
      OBVIOUS
    <3> QED  BY <2>2, <2>3, <3>1
  <2> QED  BY <2>4, Multiples
<1>9. r % n = r
  <2>1. 0 * n = 0
    OBVIOUS
  <2> QED  BY <1>8, <2>1, DivIs
<1>10. (r + n) % n = r
  <2>1. 1 * n = n /\ r + n \in Nat
    OBVIOUS
  <2>2. (r + n) % n = r + n - n
    BY <1>8, <2>1, DivIs
  <2> QED  BY <2>2
<1>11. /\ (s % b) + b * p = s /\ (p % b) + b * q = p /\ (q % b) + b * r = q
  <2>1. b * p = p * b /\ b * q = q * b /\ b * r = r * b
    OBVIOUS
  <2>2. PICK x, y, z \in Int : x = p * b /\ y = q * b /\ z = r * b
    OBVIOUS
  <2> QED  BY <1>2, <1>3, <1>4, <2>1, <2>2
<1>12. Registers(s) = <<s % b, p % b, q % b, (r % n) + n>>
  BY <1>1, <1>2, <1>6, <1>7 DEF Registers
<1> HIDE DEF Registers
<1>13. Addressed(Registers(s)) = (s % b) + b * ((p % b) + b * ((q % b) + b * (((r % n) + n) % n)))
  BY <1>1, <1>12 DEF Addressed
<1> QED  BY <1>9, <1>10, <1>11, <1>13

(* A memory: a function on the addresses. *)
Memory(M) == M = [a \in Address |-> M[a]]

(* Sectors read one after the other. *)
Fetched(disk, from, secno) ==
    disk[Addressed(Registers(secno + (from \div SECTSIZE))) * SECTSIZE + (from % SECTSIZE)]

LEMMA AddressedInt ==
  ASSUME NEW s \in Nat
  PROVE  Addressed(Registers(s)) \in Int
<1>1. PICK b, n \in Nat \ {0} : b = Byte /\ n = Nibble
  BY LoadAssumption
<1>2. PICK x, y, z, w \in Int : Registers(s) = <<x, y, z, w>>
  <2>1. /\ s % b \in Int /\ (s \div b) % b \in Int /\ (s \div (b * b)) % b \in Int
        /\ ((s \div (b * b * b)) % n) + n \in Int
    <3>1. b * b \in Nat \ {0} /\ b * b * b \in Nat \ {0}
      OBVIOUS
    <3>2. s \div b \in Int /\ s \div (b * b) \in Int /\ s \div (b * b * b) \in Int
      BY <3>1
    <3> QED  BY <3>2
  <2> QED  BY <1>1, <2>1 DEF Registers
<1>3. w % n \in Int
  OBVIOUS
<1>4. PICK v \in Int : v = w % n
  BY <1>3
<1>5. Addressed(Registers(s)) = x + b * (y + b * (z + b * v))
  BY <1>1, <1>2, <1>4 DEF Addressed
<1> QED  BY <1>5

LEMMA OneSector ==
  ASSUME NEW M, DOMAIN M \subseteq Int, NEW disk, NEW va \in Nat, NEW secno \in Nat, NEW k \in Nat,
         NEW a \in DOMAIN M
  PROVE  readsect(M, disk, va + k * SECTSIZE, secno + k)[a] =
            (IF va + k * SECTSIZE <= a /\ a < va + (k + 1) * SECTSIZE
             THEN Fetched(disk, a - va, secno) ELSE M[a])
<1>1. PICK b \in Nat \ {0} : b = SECTSIZE
  BY LoadAssumption
<1>2. PICK x \in Nat : x = k * b /\ (k + 1) * b = x + b
  <2>1. k * b \in Nat /\ (k + 1) * b = k * b + b
    OBVIOUS
  <2> QED  BY <2>1
<1>3. PICK f \in Int : f = Addressed(Registers(secno + k)) * b
  <2>1. secno + k \in Nat
    OBVIOUS
  <2>2. PICK y \in Int : y = Addressed(Registers(secno + k))
    BY <2>1, AddressedInt
  <2>3. y * b \in Int
    OBVIOUS
  <2> QED  BY <2>2, <2>3
<1>4. a \in Int
  OBVIOUS
<1>5. a \in va + x .. va + x + b - 1 <=> va + x <= a /\ a < va + (x + b)
  BY <1>4
<1>6. readsect(M, disk, va + x, secno + k)[a] =
         (IF a \in va + x .. va + x + b - 1 THEN disk[f + a - (va + x)] ELSE M[a])
  BY <1>1, <1>3 DEF readsect
<1>7. ASSUME va + x <= a, a < va + (x + b)
      PROVE  disk[f + a - (va + x)] = Fetched(disk, a - va, secno)
  <2>1. PICK d \in Nat : d = a - va /\ x <= d /\ d < x + b
    <3>1. a - va \in Nat /\ x <= a - va /\ a - va < x + b
      BY <1>4, <1>7
    <3> QED  BY <3>1
  <2>2. d \div b = k /\ d % b = d - x
    BY <1>2, <2>1, DivIs
  <2>3. f + a - (va + x) = f + (d - x)
    BY <1>4, <2>1
  <2>4. Fetched(disk, d, secno) = disk[f + (d - x)]
    BY ONLY <1>1, <1>3, <2>2 DEF Fetched
  <2> QED  BY ONLY <2>1, <2>3, <2>4
<1> QED  BY <1>1, <1>2, <1>5, <1>6, <1>7

(* After the first n of them. *)
WithSectors(M, disk, va, secno, n) ==
    [a \in Address |->
        IF va <= a /\ a < va + n * SECTSIZE THEN Fetched(disk, a - va, secno) ELSE M[a]]

LEMMA SectorsRead ==
  ASSUME NEW M, Memory(M), NEW disk, NEW va \in Nat, NEW end \in Nat, NEW secno \in Nat
  PROVE  \E n \in Nat :
            /\ end <= va + n * SECTSIZE
            /\ va >= end => n = 0
            /\ ReadSectors(M, disk, va, end, secno) = WithSectors(M, disk, va, secno, n)
<1>0. DOMAIN M = Address /\ DOMAIN M \subseteq Int /\ M = [a \in DOMAIN M |-> M[a]]
  <2>1. DOMAIN M = Address
    BY DEF Memory
  <2>2. Address \subseteq Int
    BY LoadAssumption DEF Address
  <2> QED  BY <2>1, <2>2 DEF Memory
<1>1. PICK b \in Nat \ {0} : b = SECTSIZE
  BY LoadAssumption
<1>2. CASE va >= end
  <2>1. 0 * b = 0 /\ end <= va + 0 * b
    BY <1>2
  <2>2. \A a \in DOMAIN M : ~(va <= a /\ a < va + 0)
    BY <1>0
  <2>3. ASSUME NEW f, f = ReadSectors(M, disk, va, end, secno) PROVE f = M
    BY <1>2, <2>3 DEF ReadSectors
  <2>4. WithSectors(M, disk, va, secno, 0) = M
    BY <1>0, <1>1, <2>1, <2>2 DEF WithSectors
  <2> QED  BY <1>1, <1>2, <2>1, <2>3, <2>4
<1>3. CASE va < end
  <2>1. PICK n \in Nat : (end - va + b - 1) \div b = n /\ end - va + b - 1 < n * b + b
    <3>1. end - va + b - 1 \in Nat
      BY <1>3
    <3> QED  BY <3>1, Floor
  <2> DEFINE Upto(k) == WithSectors(M, disk, va, secno, k)
  <2> DEFINE Read(y) == y = [k \in 0 .. n |->
                IF k = 0 THEN M ELSE readsect(y[k - 1], disk, va + (k - 1) * SECTSIZE, secno + k - 1)]
  <2>2. ASSUME NEW k \in 1 .. n
        PROVE  readsect(Upto(k - 1), disk, va + (k - 1) * SECTSIZE, secno + k - 1) = Upto(k)
    <3>1. PICK j \in Nat : j = k - 1 /\ k = j + 1
      BY <2>2
    <3>2. secno + k - 1 = secno + j
      BY <3>1
    <3> DEFINE U == Upto(j)
    <3>3. DOMAIN U = DOMAIN M
      BY <1>0 DEF WithSectors
    <3>4. ASSUME NEW a \in DOMAIN M
          PROVE  readsect(U, disk, va + j * SECTSIZE, secno + j)[a] = Upto(k)[a]
      <4>1. readsect(U, disk, va + j * SECTSIZE, secno + j)[a] =
              (IF va + j * SECTSIZE <= a /\ a < va + (j + 1) * SECTSIZE
               THEN Fetched(disk, a - va, secno) ELSE U[a])
        <5> HIDE DEF U
        <5> QED  BY <1>0, <3>3, OneSector
      <4>2. U[a] = IF va <= a /\ a < va + j * SECTSIZE THEN Fetched(disk, a - va, secno) ELSE M[a]
        BY <1>0 DEF WithSectors
      <4>3. Upto(k)[a] = IF va <= a /\ a < va + k * SECTSIZE THEN Fetched(disk, a - va, secno) ELSE M[a]
        BY <1>0 DEF WithSectors
      <4>4. PICK x, y \in Nat : /\ x = j * SECTSIZE /\ y = k * SECTSIZE /\ y = x + b
                               /\ y = (j + 1) * SECTSIZE
        <5>1. j * b \in Nat /\ (j + 1) * b = j * b + b
          OBVIOUS
        <5> QED  BY <1>1, <3>1, <5>1
      <4>5. a \in Int
        BY <1>0
      <4> HIDE DEF U, Upto
      <4>6. CASE va + x <= a /\ a < va + y
        <5>1. va <= a
          BY <4>4, <4>5, <4>6
        <5> QED  BY ONLY <4>1, <4>3, <4>4, <4>6, <5>1
      <4>7. CASE ~(va + x <= a /\ a < va + y)
        <5>1. va <= a /\ a < va + x <=> va <= a /\ a < va + y
          BY <4>4, <4>5, <4>7
        <5> QED  BY ONLY <4>1, <4>2, <4>3, <4>4, <4>7, <5>1
      <4> QED  BY <4>6, <4>7
    <3>5. readsect(U, disk, va + j * SECTSIZE, secno + j) =
            [a \in DOMAIN M |-> readsect(U, disk, va + j * SECTSIZE, secno + j)[a]]
      BY <3>3 DEF readsect
    <3>6. Upto(k) = [a \in DOMAIN M |-> Upto(k)[a]]
      BY <1>0 DEF WithSectors
    <3> HIDE DEF Upto
    <3>7. readsect(U, disk, va + j * SECTSIZE, secno + j) = Upto(k)
      <4> HIDE DEF U
      <4> QED  BY ONLY <3>4, <3>5, <3>6
    <3> QED  BY <3>1, <3>2, <3>7 DEF U
  <2>3. Upto(0) = M
    <3>1. 0 * b = 0
      OBVIOUS
    <3>2. \A a \in DOMAIN M : ~(va <= a /\ a < va + 0)
      BY <1>0
    <3>3. Upto(0) = [a \in DOMAIN M |-> M[a]]
      BY <1>0, <1>1, <3>1, <3>2 DEF WithSectors
    <3> HIDE DEF Upto
    <3> QED  BY <1>0, <3>3
  <2> HIDE DEF Upto
  <2>4. Read([k \in 0 .. n |-> Upto(k)])
    <3> DEFINE y == [k \in 0 .. n |-> Upto(k)]
    <3>1. ASSUME NEW k \in 0 .. n
          PROVE  y[k] = IF k = 0 THEN M
                        ELSE readsect(y[k - 1], disk, va + (k - 1) * SECTSIZE, secno + k - 1)
      <4>1. CASE k = 0
        BY <2>3, <4>1
      <4>2. CASE k # 0
        <5>1. k \in 1 .. n /\ k - 1 \in 0 .. n
          BY <4>2
        <5> QED  BY <2>2, <4>2, <5>1
      <4> QED  BY <4>1, <4>2
    <3>2. y = [k \in 0 .. n |-> y[k]]
      OBVIOUS
    <3> HIDE DEF y
    <3>3. Read(y)
      BY <3>1, <3>2
    <3> QED  BY <3>3 DEF y
  <2> DEFINE after == CHOOSE y : Read(y)
  <2>5. Read(after)
    <3> HIDE DEF Read
    <3> QED  BY <2>4
  <2>6. ReadSectors(M, disk, va, end, secno) = after[n]
    <3>1. ~(va >= end)
      BY <1>3
    <3> QED  BY <1>1, <2>1, <3>1 DEF ReadSectors
  <2> HIDE DEF after
  <2>7. after[n] = Upto(n)
    <3> DEFINE Bad == {k \in Nat : k <= n /\ after[k] # Upto(k)}
    <3> SUFFICES ASSUME Bad # {} PROVE FALSE
      OBVIOUS
    <3>1. PICK k \in Bad : \A j \in Bad : k <= j
      BY LeastNatural
    <3>2. k # 0
      BY <2>3, <2>5
    <3>3. k - 1 \in Nat /\ k \in 1 .. n /\ k \in 0 .. n /\ after[k - 1] = Upto(k - 1)
      BY <3>1, <3>2
    <3>4. after[k] = readsect(after[k - 1], disk, va + (k - 1) * SECTSIZE, secno + k - 1)
      BY <2>5, <3>2, <3>3
    <3> QED  BY <2>2, <3>1, <3>3, <3>4
  <2>8. end <= va + n * SECTSIZE
    <3>1. PICK x \in Nat : x = n * b
      <4>1. n * b \in Nat
        OBVIOUS
      <4> QED  BY <4>1
    <3> QED  BY <1>1, <2>1, <3>1
  <2> QED  BY <1>3, <2>6, <2>7, <2>8 DEF Upto
<1> QED  BY <1>2, <1>3

(* readseg: from start, the segment's place rounded down to a sector, on   *)
(* and at least to its end the memory holds what the disk has there.       *)
ReadTo(R, past, M, disk, va, count, offset, start) ==
    /\ R = readseg(M, disk, va, count, offset) /\ Memory(R)
    /\ va + count <= past
    /\ start = va /\ count = 0 => past = start
    /\ \A a \in Address :
         /\ ~(start <= a /\ a < past) => R[a] = M[a]
         /\ start <= a /\ a < past /\ SECTSIZE + (offset + a - va) < SECTSIZE * Sectors =>
               R[a] = disk[SECTSIZE + (offset + a - va)]

LEMMA SegmentRead ==
  ASSUME NEW M, Memory(M), NEW disk, NEW va \in Nat, NEW count \in Nat, NEW offset \in Nat,
         NEW start \in Nat, start = va - (offset % SECTSIZE)
  PROVE  \E R : \E past \in Nat : ReadTo(R, past, M, disk, va, count, offset, start)
<1>1. PICK b \in Nat \ {0} : b = SECTSIZE
  BY LoadAssumption
<1>2. PICK o \in Nat : offset \div b = o /\ offset % b = offset - o * b
  BY Floor
<1>3. PICK y \in Nat : y = o * b /\ start = va - (offset - y)
  <2>1. o * b \in Nat
    OBVIOUS
  <2> QED  BY <1>1, <1>2, <2>1
<1>4. PICK top \in Nat \ {0} : top = Sectors
  <2>1. \A x, z \in Nat \ {0} : x * z \in Nat \ {0}
    OBVIOUS
  <2> QED  BY <2>1, LoadAssumption DEF Sectors
<1>6. PICK n \in Nat :
        /\ va + count <= start + n * SECTSIZE
        /\ start >= va + count => n = 0
        /\ ReadSectors(M, disk, start, va + count, o + 1) = WithSectors(M, disk, start, o + 1, n)
  <2>1. va + count \in Nat /\ o + 1 \in Nat
    OBVIOUS
  <2> QED  BY <2>1, SectorsRead
<1>7. PICK past \in Nat : past = start + n * SECTSIZE
  <2>1. n * b \in Nat
    OBVIOUS
  <2>2. PICK x \in Nat : x = n * b
    BY <2>1
  <2> QED  BY <1>1, <2>2
<1> DEFINE R == [a \in Address |->
        IF start <= a /\ a < past THEN Fetched(disk, a - start, o + 1) ELSE M[a]]
<1>8. readseg(M, disk, va, count, offset) = R
  BY <1>1, <1>2, <1>6, <1>7 DEF readseg, Sector, WithSectors
<1>9. Memory(R)
  BY DEF Memory
<1>10. start = va /\ count = 0 => past = start
  <2>1. ASSUME start = va, count = 0 PROVE past = start
    <3>1. n = 0 /\ 0 * b = 0
      BY <1>6, <2>1
    <3> QED  BY <1>1, <1>7, <3>1
  <2> QED  BY <2>1
<1>11. ASSUME NEW a \in Address, start <= a, a < past,
              SECTSIZE + (offset + a - va) < SECTSIZE * Sectors
       PROVE  R[a] = disk[SECTSIZE + (offset + a - va)]
  <2>1. PICK d \in Nat : d = a - start
    <3>1. a \in Int
      BY LoadAssumption DEF Address
    <3> QED  BY <1>11, <3>1
  <2>2. PICK j \in Nat : d \div b = j /\ d % b = d - j * b /\ j * b <= d /\ d < j * b + b
    BY Floor
  <2>3. PICK z \in Nat : z = j * b
    <3>1. j * b \in Nat
      OBVIOUS
    <3> QED  BY <3>1
  <2>4. a \in Int /\ offset + a - va = y + d
    <3>1. a \in Int
      BY LoadAssumption DEF Address
    <3> QED  BY <1>3, <2>1, <3>1
  <2>5. PICK s \in Nat : s = o + 1 + j /\ s * b = y + b + z
    <3>1. (o + 1 + j) * b = o * b + b + j * b
      OBVIOUS
    <3> QED  BY <1>3, <2>3, <3>1
  <2>6. s < top
    <3>1. b + (y + d) < top * b
      <4>1. b * top = top * b
        OBVIOUS
      <4> QED  BY <1>1, <1>4, <1>11, <2>4, <4>1
    <3>2. PICK x \in Int : x = top * b
      OBVIOUS
    <3>3. s * b < top * b
      BY <2>2, <2>3, <2>5, <3>1, <3>2
    <3> QED  BY <3>3, Multiples
  <2>7. Addressed(Registers(s)) = s
    BY <1>4, <2>6, SectorAddressed
  <2>8. Fetched(disk, d, o + 1) = disk[s * b + (d - j * b)]
    <3>1. Fetched(disk, d, o + 1) = disk[Addressed(Registers(s)) * b + (d - j * b)]
      BY ONLY <1>1, <2>2, <2>5 DEF Fetched
    <3> QED  BY ONLY <2>7, <3>1
  <2>9. s * b + (d - j * b) = b + (y + d)
    BY <2>3, <2>5
  <2> QED  BY <1>1, <1>11, <2>1, <2>4, <2>8, <2>9
<1>12. \A a \in Address : ~(start <= a /\ a < past) => R[a] = M[a]
  OBVIOUS
<1> HIDE DEF R
<1>13. va + count <= past
  BY <1>6, <1>7
<1>14. ReadTo(R, past, M, disk, va, count, offset, start)
  BY <1>8, <1>9, <1>10, <1>11, <1>12, <1>13 DEF ReadTo
<1> QED  BY <1>14

-----------------------------------------------------------------------------
(* The segments, in the order of the program headers.                      *)

ProgHdr == [p_va : Nat, p_offset : Nat, p_filesz : Nat, p_memsz : Nat]
Elf == [e_magic : BOOLEAN, size : Nat, ph : Seq(ProgHdr)]

(* The header and the first n segments are in their places. *)
InPlace(M, program, elf, n) ==
    /\ Memory(M)
    /\ \A o \in 0 .. PageBytes - 1 : M[ELFHDR + o] = Disk(program, elf.size)[SECTSIZE + o]
    /\ \A i \in 1 .. n : \A k \in 0 .. elf.ph[i].p_filesz - 1 :
          M[Start(elf.ph[i]) + k] = elf.ph[i].p_offset + k

LEMMA ImageByte ==
  ASSUME NEW program, NEW size \in Nat, NEW o \in Nat, o < size, SECTSIZE + size <= SECTSIZE * Sectors
  PROVE  Disk(program, size)[SECTSIZE + o] = o /\ SECTSIZE + o < SECTSIZE * Sectors
<1>1. PICK b \in Nat \ {0} : b = SECTSIZE
  BY LoadAssumption
<1>2. PICK top \in Int : top = b * Sectors
  <2>1. Sectors \in Int
    BY LoadAssumption DEF Sectors
  <2>2. b * Sectors \in Int
    BY <2>1
  <2> QED  BY <2>2
<1>3. b + o < top /\ b + o \in 0 .. top - 1 /\ ~(b + o < b) /\ b + o < b + size /\ b + o - b = o
  BY <1>1, <1>2
<1> QED  BY ONLY <1>1, <1>2, <1>3 DEF Disk

(* Where a segment is, in sectors, and how its pages lie. *)
LEMMA SegmentPlace ==
  ASSUME NEW size \in Nat, NEW p \in ProgHdr, Placed(p, size)
  PROVE  \E start \in Nat :
            /\ start = Start(p) - (p.p_offset % SECTSIZE)
            /\ ELFHDR + PageBytes <= start /\ start <= Start(p) /\ Start(p) \in Nat
            /\ \A x \in Nat : start <= x => ~(Page(x) < Page(Start(p)))
<1>1. PICK b, h \in Nat \ {0} : b = SECTSIZE /\ h = HeaderSectors
  BY LoadAssumption
<1>2. PICK c \in Nat \ {0} : c = h * b /\ c = PageBytes
  <2>1. h * b \in Nat \ {0}
    OBVIOUS
  <2> QED  BY <1>1, <2>1 DEF PageBytes
<1>3. PICK S, off \in Nat : S = Start(p) /\ off = p.p_offset
  <2>1. p.p_va % AddrSpace \in Nat
    BY LoadAssumption DEF ProgHdr
  <2> QED  BY <2>1 DEF Start, Physical, ProgHdr
<1>4. PICK q \in Int : S - off = q * c
  <2>1. PICK q \in Int, r \in 0 .. c - 1 : r = (S - off) % c /\ S - off = c * q + r
    <3>1. S - off \in Int
      OBVIOUS
    <3> QED  BY <3>1, SMT
  <2>2. r = 0
    BY <1>2, <1>3, <2>1 DEF Placed
  <2>3. c * q = q * c
    OBVIOUS
  <2> QED  BY <2>1, <2>2, <2>3
<1>5. PICK o \in Nat, r \in Nat : o = off \div b /\ r = off % b /\ off = o * b + r /\ r < b
  <2>1. PICK o \in Nat : off \div b = o /\ off % b = off - o * b /\ o * b <= off /\ off < o * b + b
    BY Floor
  <2>2. PICK x \in Int : x = o * b
    OBVIOUS
  <2>3. off - x \in Nat /\ off - x < b
    BY <2>1, <2>2
  <2> QED  BY <2>1, <2>2, <2>3
<1>6. PICK t \in Int : t * b = S - r
  <2>1. (q * h + o) * b = q * (h * b) + o * b /\ q * h + o \in Int
    OBVIOUS
  <2>2. PICK x, y, z \in Int : x = (q * h + o) * b /\ y = q * (h * b) /\ z = o * b
    OBVIOUS
  <2>3. S - off = y /\ off = z + r
    BY ONLY <1>2, <1>4, <1>5, <2>2
  <2>4. x = y + z
    BY ONLY <2>1, <2>2
  <2>5. x = S - r
    BY <2>3, <2>4
  <2> QED  BY <2>1, <2>2, <2>5
<1>7. PICK start \in Int : start = t * b /\ start = S - r
  BY <1>6
<1>8. PICK e \in Nat : ELFHDR = e * b
  <2>1. PICK v \in Nat : v = ELFHDR /\ v % b = 0
    BY <1>1, LoadAssumption
  <2>2. PICK e \in Nat : v % b = v - e * b
    BY Floor
  <2>3. PICK x \in Int : x = e * b
    OBVIOUS
  <2> QED  BY <2>1, <2>2, <2>3
<1>9. ELFHDR + PageBytes <= start
  <2>1. (e + h) * b = e * b + h * b /\ e + h \in Int
    OBVIOUS
  <2>2. PICK x \in Int : x = (e + h) * b /\ x = ELFHDR + PageBytes
    BY <1>2, <1>8, <2>1
  <2>3. x <= S
    BY <1>3, <2>2 DEF Placed
  <2>4. ASSUME t < e + h PROVE FALSE
    <3>1. t * b + b <= (e + h) * b
      BY <2>1, <2>4, Multiples
    <3>2. start + b <= x
      BY <1>7, <2>2, <3>1
    <3> QED  BY <1>5, <1>7, <2>3, <3>2
  <2>5. t = e + h => x = start
    BY <1>7, <2>2
  <2>6. e + h < t => x + b <= start
    <3>1. e + h < t => (e + h) * b + b <= t * b
      BY <2>1, Multiples
    <3> QED  BY <1>7, <2>2, <3>1
  <2>7. x <= start
    BY <2>1, <2>4, <2>5, <2>6
  <2> QED  BY <2>2, <2>7
<1>10. start \in Nat /\ start <= S
  <2>1. ELFHDR \in Nat
    BY LoadAssumption
  <2>2. ELFHDR + c <= start
    BY <1>2, <1>9
  <2> QED  BY <1>5, <1>7, <2>1, <2>2
<1>11. ASSUME NEW x \in Nat, start <= x PROVE ~(Page(x) < Page(S))
  <2>1. PICK g \in Nat : S \div c = g /\ g * c <= S
    BY Floor
  <2>2. PICK f \in Nat : x \div c = f /\ x < f * c + c
    BY Floor
  <2>3. PICK u, w \in Int : u = g * c /\ w = f * c
    OBVIOUS
  <2>4. u <= start
    <3>1. g * c = (g * h) * b /\ g * h \in Int
      BY <1>2
    <3>2. PICK m \in Int : m = g * h /\ m * b = u
      BY <2>3, <3>1
    <3>3. ASSUME t < m PROVE FALSE
      <4>1. t * b + b <= m * b
        BY <3>3, Multiples
      <4>2. start + b <= u
        BY <1>7, <3>2, <4>1
      <4> QED  BY <1>5, <1>7, <2>1, <2>3, <4>2
    <3>4. m < t => u + b <= start
      <4>1. m < t => m * b + b <= t * b
        BY Multiples
      <4> QED  BY <1>7, <3>2, <4>1
    <3>5. m = t => u = start
      BY <1>7, <3>2
    <3> QED  BY <3>3, <3>4, <3>5
  <2>5. ASSUME f < g PROVE FALSE
    <3>1. f * c + c <= g * c
      BY <2>5, Multiples
    <3>2. w + c <= u
      BY <2>3, <3>1
    <3> QED  BY <1>11, <2>2, <2>3, <2>4, <3>2
  <2> QED  BY <1>2, <2>1, <2>2, <2>5 DEF Page
<1> QED  BY <1>1, <1>3, <1>5, <1>7, <1>9, <1>10, <1>11

LEMMA HeaderRead ==
  ASSUME NEW program, NEW elf \in Elf, NEW M, Memory(M)
  PROVE  InPlace(readseg(M, Disk(program, elf.size), ELFHDR, SECTSIZE * HeaderSectors, 0), program, elf, 0)
<1> DEFINE disk == Disk(program, elf.size)
<1>1. PICK b, h, e, top \in Nat :
        /\ b = SECTSIZE /\ h = HeaderSectors /\ e = ELFHDR /\ top = Sectors
        /\ b # 0 /\ h < top
  <2>1. PICK x, n \in Nat \ {0} : x = Byte /\ n = Nibble
    BY LoadAssumption
  <2>2. x * x * x * n \in Nat
    OBVIOUS
  <2>3. PICK top \in Nat : top = Sectors /\ HeaderSectors < top
    BY <2>1, <2>2, LoadAssumption DEF Sectors
  <2> QED  BY <2>3, LoadAssumption
<1>2. PICK c \in Nat : c = b * h /\ c = PageBytes /\ e + c <= AddrSpace /\ c + b <= b * top
  <2>1. b * h = h * b /\ b * h \in Nat /\ b * top = top * b
    OBVIOUS
  <2>2. h * b + b <= top * b
    BY <1>1, Multiples
  <2> QED  BY <1>1, <2>1, <2>2, LoadAssumption DEF PageBytes
<1>3. 0 % b = 0
  <2>1. (0 * b) % b = 0 /\ 0 * b = 0
    BY <1>1, Quotient
  <2> QED  BY <2>1
<1>4. PICK R : \E past \in Nat :
        /\ R = readseg(M, disk, e, c, 0) /\ Memory(R)
        /\ e + c <= past
        /\ \A a \in Address :
             e <= a /\ a < past /\ SECTSIZE + (0 + a - e) < SECTSIZE * Sectors =>
                   R[a] = disk[SECTSIZE + (0 + a - e)]
  <2>1. e = e - (0 % SECTSIZE) /\ 0 \in Nat
    BY <1>1, <1>3
  <2> HIDE DEF disk
  <2>2. PICK R : \E past \in Nat : ReadTo(R, past, M, disk, e, c, 0, e)
    BY ONLY <2>1, SegmentRead, Memory(M), e \in Nat, c \in Nat
  <2> QED  BY <2>2 DEF ReadTo
<1>5. ASSUME NEW o \in 0 .. PageBytes - 1 PROVE R[ELFHDR + o] = disk[SECTSIZE + o]
  <2>1. o \in Nat /\ o < c
    BY <1>2
  <2>2. e + o \in Address
    <3>1. AddrSpace \in Nat
      BY LoadAssumption
    <3> QED  BY <1>2, <2>1, <3>1 DEF Address
  <2>3. 0 + (e + o) - e = o /\ e <= e + o /\ e + o < e + c
    BY <2>1
  <2>4. b + o < b * top
    <3>1. PICK x \in Int : x = b * top
      OBVIOUS
    <3> QED  BY <1>2, <2>1, <3>1
  <2> HIDE DEF disk
  <2> QED  BY <1>1, <1>4, <2>1, <2>2, <2>3, <2>4
<1>6. R = readseg(M, disk, ELFHDR, SECTSIZE * HeaderSectors, 0)
  BY <1>1, <1>2, <1>4
<1>7. \A i \in 1 .. 0 : \A k \in 0 .. elf.ph[i].p_filesz - 1 : R[Start(elf.ph[i]) + k] = elf.ph[i].p_offset + k
  OBVIOUS
<1> QED  BY <1>4, <1>5, <1>6, <1>7 DEF InPlace

LEMMA PagesApart ==
  ASSUME NEW p, NEW q, Before(q, p)
  PROVE  Start(q) - q.p_offset # Start(p) - p.p_offset => Page((Start(q) + q.p_memsz) - 1) < Page(Start(p))
BY DEF Before, Past

(* One segment more: what it overwrites of those before it is the same.    *)
LEMMA OneSegment ==
  ASSUME NEW program, NEW elf \in Elf, IsLayout(elf), NEW n \in Nat, n < Len(elf.ph),
         NEW M, InPlace(M, program, elf, n)
  PROVE  InPlace(readseg(M, Disk(program, elf.size), Start(elf.ph[n + 1]), elf.ph[n + 1].p_memsz,
                         elf.ph[n + 1].p_offset), program, elf, n + 1)
<1> DEFINE disk == Disk(program, elf.size)
<1> DEFINE p == elf.ph[n + 1]
<1>1. PICK size \in Nat : size = elf.size /\ SECTSIZE + size <= SECTSIZE * Sectors
  BY DEF IsLayout, Elf
<1>2. Len(elf.ph) \in Nat /\ n + 1 \in 1 .. Len(elf.ph)
  BY DEF Elf
<1>3. p \in ProgHdr
  BY <1>2 DEF Elf
<1>4. PICK va, count, offset \in Nat, filesz \in Nat :
        va = Start(p) /\ count = p.p_memsz /\ offset = p.p_offset /\ filesz = p.p_filesz
  <2>1. p.p_va % AddrSpace \in Nat
    BY <1>3, LoadAssumption DEF ProgHdr
  <2> QED  BY <1>3, <2>1 DEF ProgHdr, Start, Physical
<1>5. PICK e, c, top \in Nat : e = ELFHDR /\ c = PageBytes /\ top = AddrSpace
  <2>1. PICK b, h \in Nat : b = SECTSIZE /\ h = HeaderSectors
    BY LoadAssumption
  <2>2. h * b \in Nat
    OBVIOUS
  <2> QED  BY <2>1, <2>2, LoadAssumption DEF PageBytes
<1>6. Memory(M) /\ \A o \in 0 .. c - 1 : M[e + o] = disk[SECTSIZE + o]
  BY <1>5 DEF InPlace
<1> HIDE DEF p
<1>7. CASE count = 0
  <2>1. offset = 0 /\ filesz = 0
    BY <1>2, <1>4, <1>7 DEF IsLayout, p
  <2>2. va = va - (offset % SECTSIZE)
    <3>1. PICK b \in Nat \ {0} : b = SECTSIZE
      BY LoadAssumption
    <3>2. (0 * b) % b = 0 /\ 0 * b = 0
      BY Quotient
    <3> QED  BY <2>1, <3>1, <3>2
  <2>3. PICK R : \E past \in Nat :
          /\ R = readseg(M, disk, va, count, offset) /\ Memory(R)
          /\ past = va
          /\ \A a \in Address : ~(va <= a /\ a < past) => R[a] = M[a]
    <3> HIDE DEF disk
    <3>1. PICK R : \E past \in Nat : ReadTo(R, past, M, disk, va, count, offset, va)
      BY ONLY <1>6, <2>2, SegmentRead, va \in Nat, count \in Nat, offset \in Nat
    <3> QED  BY <1>7, <3>1 DEF ReadTo
  <2>4. R = M
    <3>1. \A a \in Address : R[a] = M[a]
      <4>1. \A a \in Address : ~(va <= a /\ a < va)
        BY LoadAssumption DEF Address
      <4> QED  BY <2>3, <4>1
    <3> QED  BY <1>6, <2>3, <3>1 DEF Memory
  <2>5. ASSUME NEW i \in 1 .. n + 1, NEW k \in 0 .. elf.ph[i].p_filesz - 1
        PROVE  M[Start(elf.ph[i]) + k] = elf.ph[i].p_offset + k
    <3>1. CASE i = n + 1
      <4>1. elf.ph[i].p_filesz = 0
        BY <1>4, <2>1, <3>1 DEF p
      <4> QED  BY <4>1
    <3>2. CASE i # n + 1
      <4>1. i \in 1 .. n
        BY <3>2
      <4> QED  BY <4>1 DEF InPlace
    <3> QED  BY <3>1, <3>2
  <2>6. InPlace(M, program, elf, n + 1)
    BY <2>5 DEF InPlace
  <2> QED  BY <1>4, <2>3, <2>4, <2>6 DEF p
<1>8. CASE count # 0
  <2>1. Placed(p, size) /\ e + c <= va /\ va + count <= top /\ filesz <= count /\ offset + filesz <= size
    <3>1. Placed(p, size)
      BY <1>1, <1>2, <1>4, <1>8 DEF IsLayout, p
    <3> QED  BY <1>4, <1>5, <3>1 DEF Placed, Past
  <2>2. PICK start \in Nat :
          /\ start = va - (offset % SECTSIZE) /\ e + c <= start /\ start <= va
          /\ \A x \in Nat : start <= x => ~(Page(x) < Page(va))
    BY <1>3, <1>4, <1>5, <2>1, SegmentPlace
  <2>3. PICK R : \E past \in Nat :
          /\ R = readseg(M, disk, va, count, offset) /\ Memory(R)
          /\ va + count <= past
          /\ \A a \in Address :
               /\ ~(start <= a /\ a < past) => R[a] = M[a]
               /\ start <= a /\ a < past /\ SECTSIZE + (offset + a - va) < SECTSIZE * Sectors =>
                     R[a] = disk[SECTSIZE + (offset + a - va)]
    <3> HIDE DEF disk
    <3>1. PICK R : \E past \in Nat : ReadTo(R, past, M, disk, va, count, offset, start)
      BY ONLY <1>6, <2>2, SegmentRead, va \in Nat, count \in Nat, offset \in Nat, start \in Nat
    <3> QED  BY <3>1 DEF ReadTo
  <2>4. PICK past \in Nat :
          /\ va + count <= past
          /\ \A a \in Address :
               /\ ~(start <= a /\ a < past) => R[a] = M[a]
               /\ start <= a /\ a < past /\ SECTSIZE + (offset + a - va) < SECTSIZE * Sectors =>
                     R[a] = disk[SECTSIZE + (offset + a - va)]
    BY <2>3
  <2>5. ASSUME NEW o \in 0 .. PageBytes - 1 PROVE R[ELFHDR + o] = disk[SECTSIZE + o]
    <3>1. o \in 0 .. c - 1 /\ e + o \in Nat /\ e + o < start /\ e + o < top
      BY <1>5, <2>1, <2>2
    <3>2. e + o \in Address
      BY <1>5, <3>1 DEF Address
    <3>3. R[e + o] = M[e + o]
      BY <2>2, <2>4, <3>1, <3>2
    <3> HIDE DEF disk
    <3> QED  BY <1>5, <1>6, <3>1, <3>3
  <2>6. ASSUME NEW x \in Nat, start <= x, x < past, x < top, offset + x - va \in 0 .. size - 1
        PROVE  R[x] = offset + x - va
    <3>1. PICK o \in Nat : o = offset + x - va /\ o < size
      BY <2>6
    <3>2. disk[SECTSIZE + o] = o /\ SECTSIZE + o < SECTSIZE * Sectors
      BY <1>1, <3>1, ImageByte
    <3>3. x \in Address
      BY <1>5, <2>6 DEF Address
    <3> HIDE DEF disk
    <3> QED  BY <2>4, <2>6, <3>1, <3>2, <3>3
  <2>7. ASSUME NEW k \in 0 .. filesz - 1 PROVE R[va + k] = offset + k
    <3>1. /\ va + k \in Nat /\ start <= va + k /\ va + k < past /\ va + k < top
          /\ offset + (va + k) - va = offset + k /\ offset + k \in 0 .. size - 1
      BY <2>1, <2>2, <2>4
    <3> QED  BY <2>6, <3>1
  <2>8. ASSUME NEW i \in 1 .. n, NEW k \in 0 .. elf.ph[i].p_filesz - 1
        PROVE  R[Start(elf.ph[i]) + k] = elf.ph[i].p_offset + k
    <3> DEFINE q == elf.ph[i]
    <3>1. i \in 1 .. Len(elf.ph) /\ i < n + 1 /\ q \in ProgHdr
      BY <1>2 DEF Elf
    <3>2. PICK S, m, o \in Nat, f \in Nat :
            S = Start(q) /\ m = q.p_memsz /\ o = q.p_offset /\ f = q.p_filesz /\ k < f
      <4>1. q.p_va % AddrSpace \in Nat
        BY <3>1, LoadAssumption DEF ProgHdr
      <4> QED  BY <3>1, <4>1 DEF ProgHdr, Start, Physical
    <3>3. k \in Nat
      BY <3>2
    <3>4. m # 0
      BY <3>1, <3>2, <3>3 DEF IsLayout
    <3>5. Placed(q, size) /\ Before(q, p)
      BY <1>1, <1>2, <1>4, <1>8, <3>1, <3>2, <3>4 DEF IsLayout, p
    <3> HIDE DEF q
    <3>6. f <= m /\ o + f <= size /\ S + m <= va /\ S + m <= top
      <4>1. /\ Start(q) + q.p_memsz <= AddrSpace /\ q.p_filesz <= q.p_memsz /\ q.p_offset + q.p_filesz <= size
            /\ Start(q) + q.p_memsz <= Start(p)
        BY ONLY <3>5 DEF Placed, Before, Past
      <4> QED  BY ONLY <1>4, <1>5, <3>2, <4>1
    <3>7. S - o # va - offset => Page(S + m - 1) < Page(va)
      <4>1. Start(q) - q.p_offset # Start(p) - p.p_offset => Page((Start(q) + q.p_memsz) - 1) < Page(Start(p))
        BY ONLY <3>5, PagesApart
      <4>2. (S + m) - 1 = S + m - 1
        BY ONLY S \in Nat, m \in Nat
      <4> QED  BY ONLY <1>4, <3>2, <4>1, <4>2
    <3>8. M[S + k] = o + k
      BY <3>2 DEF InPlace, q
    <3>9. PICK x \in Nat : x = S + k /\ x < top
      <4>1. S + k \in Nat /\ S + k < top
        BY ONLY <3>2, <3>3, <3>6, S \in Nat, m \in Nat, f \in Nat, top \in Nat
      <4> QED  BY <4>1
    <3>10. CASE start <= x /\ x < past
      <4>1. S + m - 1 \in Nat /\ start <= S + m - 1
        BY ONLY <3>2, <3>3, <3>6, <3>9, <3>10, S \in Nat, m \in Nat, f \in Nat, x \in Nat, start \in Nat
      <4>2. S - o = va - offset
        BY <2>2, <3>7, <4>1
      <4>3. offset + x - va = o + k /\ o + k \in 0 .. size - 1
        BY ONLY <3>2, <3>3, <3>6, <3>9, <4>2, S \in Nat, m \in Nat, f \in Nat, o \in Nat, x \in Nat,
                va \in Nat, offset \in Nat, size \in Nat
      <4> QED  BY <2>6, <3>2, <3>9, <3>10, <4>3 DEF q
    <3>11. CASE ~(start <= x /\ x < past)
      <4>1. x \in Address
        BY ONLY <1>5, <3>9, x \in Nat, top \in Nat DEF Address
      <4>2. R[x] = M[x]
        BY ONLY <2>4, <3>11, <4>1
      <4> QED  BY ONLY <3>2, <3>8, <3>9, <4>2 DEF q
    <3> QED  BY <3>10, <3>11
  <2>9. ASSUME NEW i \in 1 .. n + 1, NEW k \in 0 .. elf.ph[i].p_filesz - 1
        PROVE  R[Start(elf.ph[i]) + k] = elf.ph[i].p_offset + k
    <3>1. CASE i = n + 1
      BY <1>4, <2>7, <3>1 DEF p
    <3>2. CASE i # n + 1
      <4>1. i \in 1 .. n
        BY <3>2
      <4> QED  BY <2>8, <4>1
    <3> QED  BY <3>1, <3>2
  <2>10. InPlace(R, program, elf, n + 1)
    BY <2>3, <2>5, <2>9 DEF InPlace
  <2> QED  BY <1>4, <2>3, <2>10 DEF p
<1> QED  BY <1>7, <1>8

(* bootmain's loop over the program headers. *)
Loading(y, disk, ph, header, n) ==
    y = [i \in 0 .. n |->
            IF i = 0 THEN header
            ELSE readseg(y[i - 1], disk, Physical(ph[i].p_va), ph[i].p_memsz, ph[i].p_offset)]

LEMMA LoadingExists ==
  ASSUME NEW disk, NEW ph, NEW header, NEW m \in Nat
  PROVE  \E y : Loading(y, disk, ph, header, m)
<1> DEFINE Bad == {k \in Nat : ~ \E y : Loading(y, disk, ph, header, k)}
<1> SUFFICES ASSUME Bad # {} PROVE FALSE
  OBVIOUS
<1>1. PICK k \in Bad : \A j \in Bad : k <= j
  BY LeastNatural
<1> DEFINE Next_(M, i) == readseg(M, disk, Physical(ph[i].p_va), ph[i].p_memsz, ph[i].p_offset)
<1>2. k # 0
  <2> DEFINE y == [i \in 0 .. 0 |-> header]
  <2>1. y = [i \in 0 .. 0 |-> IF i = 0 THEN header ELSE Next_(y[i - 1], i)]
    OBVIOUS
  <2>2. Loading(y, disk, ph, header, 0)
    BY <2>1 DEF Loading
  <2> QED  BY <2>2
<1>3. k - 1 \in Nat /\ k - 1 \notin Bad /\ k \in Nat
  BY <1>1, <1>2
<1>4. PICK z : Loading(z, disk, ph, header, k - 1)
  BY <1>3
<1> DEFINE Newest == Next_(z[k - 1], k)
<1> DEFINE y == [i \in 0 .. k |-> IF i = k THEN Newest ELSE z[i]]
<1>5. ASSUME NEW i \in 0 .. k
      PROVE  y[i] = IF i = 0 THEN header ELSE Next_(y[i - 1], i)
  <2>1. CASE i = k
    <3>1. y[i] = Newest /\ y[k - 1] = z[k - 1]
      BY <2>1, <1>2, <1>3
    <3> QED  BY <3>1, <2>1, <1>2
  <2>2. CASE i # k
    <3>1. i \in 0 .. (k - 1) /\ y[i] = z[i]
      BY <2>2, <1>3
    <3>2. z[i] = IF i = 0 THEN header ELSE Next_(z[i - 1], i)
      BY <3>1, <1>4 DEF Loading
    <3>3. i # 0 => y[i - 1] = z[i - 1]
      BY <3>1, <1>3
    <3> QED  BY <3>1, <3>2, <3>3
  <2> QED  BY <2>1, <2>2
<1> HIDE DEF Newest
<1>6. Loading(y, disk, ph, header, k)
  BY <1>5 DEF Loading
<1> HIDE DEF y
<1> QED  BY <1>1, <1>6

LEMMA Booted ==
  ASSUME NEW program, NEW elf \in Elf, IsLayout(elf), elf.e_magic, NEW M, Memory(M)
  PROVE  InPlace(bootmain(M, Disk(program, elf.size), elf), program, elf, Len(elf.ph))
<1> DEFINE disk == Disk(program, elf.size)
<1> DEFINE header == readseg(M, disk, ELFHDR, SECTSIZE * HeaderSectors, 0)
<1>1. PICK n \in Nat : n = Len(elf.ph)
  BY DEF Elf
<1> DEFINE load == CHOOSE y : Loading(y, disk, elf.ph, header, n)
<1>2. Loading(load, disk, elf.ph, header, n)
  BY LoadingExists
<1>3. bootmain(M, disk, elf) = load[n]
  BY <1>1 DEF bootmain, Loading
<1>4. InPlace(header, program, elf, 0)
  BY HeaderRead
<1> HIDE DEF disk, header, load
<1> DEFINE Bad == {k \in Nat : k <= n /\ ~InPlace(load[k], program, elf, k)}
<1>5. ASSUME Bad # {} PROVE FALSE
  <2>1. PICK k \in Bad : \A j \in Bad : k <= j
    BY <1>5, LeastNatural
  <2>2. k # 0
    BY <1>2, <1>4 DEF Loading
  <2>3. PICK j \in Nat : k = j + 1 /\ j < n /\ InPlace(load[j], program, elf, j)
    <3>1. k - 1 \in Nat /\ k = (k - 1) + 1 /\ k - 1 < n /\ ~(k <= k - 1)
      BY <2>1, <2>2
    <3> QED  BY <2>1, <3>1
  <2>4. load[j + 1] = readseg(load[j], disk, Start(elf.ph[j + 1]), elf.ph[j + 1].p_memsz,
                              elf.ph[j + 1].p_offset)
    <3>1. j + 1 \in 0 .. n /\ j + 1 # 0 /\ (j + 1) - 1 = j
      BY <2>3
    <3> QED  BY <1>2, <3>1 DEF Loading, Start
  <2>5. InPlace(load[j + 1], program, elf, j + 1)
    BY <1>1, <2>3, <2>4, OneSegment DEF disk
  <2> QED  BY <2>1, <2>3, <2>5
<1> QED  BY <1>1, <1>3, <1>5 DEF disk

LEMMA Signed ==
  ASSUME NEW P, NEW program \in Seq(P)
  PROVE  IF Len(program) > SECTSIZE - 2 THEN sign(program) = <<>>
         ELSE /\ \A i \in 1 .. Len(program) : sign(program)[i - 1] = program[i]
              /\ sign(program)[SECTSIZE - 2] = "55" /\ sign(program)[SECTSIZE - 1] = "AA"
<1>1. PICK n, b \in Nat : n = Len(program) /\ b = SECTSIZE /\ b >= 2
  BY LoadAssumption
<1>2. CASE n > b - 2
  BY <1>1, <1>2 DEF sign
<1>3. CASE ~(n > b - 2)
  <2> DEFINE buf == [Bytes(b, "zero") EXCEPT ![b - 2] = "55", ![b - 1] = "AA"]
  <2>1. DOMAIN buf = 0 .. b - 1 /\ buf[b - 2] = "55" /\ buf[b - 1] = "AA"
    BY <1>1 DEF Bytes
  <2>2. sign(program) = [i \in 0 .. b - 1 |-> IF i < n THEN program[i + 1] ELSE buf[i]]
    BY <1>1, <1>3, <2>1 DEF sign
  <2> HIDE DEF buf
  <2>3. ASSUME NEW i \in 1 .. n PROVE sign(program)[i - 1] = program[i]
    <3>1. i - 1 \in 0 .. b - 1 /\ i - 1 < n /\ (i - 1) + 1 = i
      BY <1>3
    <3> QED  BY <2>2, <3>1
  <2>4. b - 2 \in 0 .. b - 1 /\ b - 1 \in 0 .. b - 1 /\ ~(b - 2 < n) /\ ~(b - 1 < n)
    BY <1>1, <1>3
  <2> QED  BY <1>1, <1>3, <2>1, <2>2, <2>3, <2>4
<1> QED  BY <1>1, <1>2, <1>3

LEMMA Kernel ==
  ASSUME NEW P, NEW program \in Seq(P), NEW elf \in Elf
  PROVE  KernelLoaded(program, elf)
<1> DEFINE old == [a \in Address |-> "old"]
<1> DEFINE loaded == bootmain(old, Disk(program, elf.size), elf)
<1>1. Memory(old)
  BY DEF Memory
<1>2. ASSUME elf.e_magic, IsLayout(elf)
      PROVE  /\ \A o \in 0 .. PageBytes - 1 : loaded[ELFHDR + o] = Disk(program, elf.size)[SECTSIZE + o]
             /\ \A i \in 1 .. Len(elf.ph) : \A k \in 0 .. elf.ph[i].p_filesz - 1 :
                   loaded[Start(elf.ph[i]) + k] = elf.ph[i].p_offset + k
  <2> HIDE DEF old
  <2>1. InPlace(loaded, program, elf, Len(elf.ph))
    BY <1>1, <1>2, Booted
  <2> HIDE DEF loaded
  <2> QED  BY <2>1 DEF InPlace
<1> QED  BY <1>2, Signed DEF KernelLoaded

(* sign.c and bootmain.c, for every size of a sector, every width of the   *)
(* controller's registers, every program and every image whose segments    *)
(* lie as the linker script says: the boot sector is right, and when the   *)
(* kernel is entered every byte of its header and segments is in place.    *)
THEOREM LoadTheorem ==
  /\ \A P : \A program \in Seq(P), elf \in Elf : KernelLoaded(program, elf)
  /\ MCSpec => []SegmentsLoaded
<1>1. \A P : \A program \in Seq(P), elf \in Elf : KernelLoaded(program, elf)
  BY Kernel
<1> DEFINE Loads == in[1] = "load" => in[2] \in Seq({"a", "b", "c"}) /\ in[3] \in ProgHdr
<1>2. Programs \subseteq Seq({"a", "b", "c"}) /\ Text \subseteq ProgHdr /\ Data \subseteq ProgHdr
  <2>1. PICK m \in Nat : m = 3 * AddrSpace
    BY LoadAssumption
  <2>2. ASSUME NEW pa \in Nat, NEW o \in Nat, NEW n \in Nat, NEW bss \in Nat
        PROVE  Segment(pa, o, n, n + bss) \in ProgHdr
    BY <2>1 DEF Segment, ProgHdr
  <2> HIDE DEF ProgHdr
  <2>3. ASSUME NEW pa \in 8 .. 16, NEW o \in {0, 2, 3, 5, 8}, NEW n \in 0 .. 6, NEW bss \in 0 .. 1
        PROVE  Segment(pa, o, n, n + bss) \in ProgHdr
    <3>1. pa \in Nat /\ o \in Nat /\ n \in Nat /\ bss \in Nat
      OBVIOUS
    <3> QED  BY ONLY <2>2, <3>1
  <2>4. ASSUME NEW pa \in 12 .. 26, NEW o \in 6 .. 17, NEW n \in 1 .. 4, NEW bss \in 0 .. 2
        PROVE  Segment(pa, o, n, n + bss) \in ProgHdr
    <3>1. pa \in Nat /\ o \in Nat /\ n \in Nat /\ bss \in Nat
      OBVIOUS
    <3> QED  BY ONLY <2>2, <3>1
  <2>5. Text \subseteq ProgHdr
    BY ONLY <2>3 DEF Text
  <2>6. Data \subseteq ProgHdr
    <3> SUFFICES ASSUME NEW d \in Data PROVE d \in ProgHdr
      OBVIOUS
    <3>1. PICK pa \in 12 .. 26, o \in 6 .. 17, n \in 1 .. 4, bss \in 0 .. 2 : d = Segment(pa, o, n, n + bss)
      BY ONLY d \in Data DEF Data
    <3> QED  BY ONLY <2>4, <3>1
  <2>7. <<>> \in Seq({"a", "b", "c"}) /\ <<"a", "b">> \in Seq({"a", "b", "c"}) /\ <<"a", "b", "c">> \in Seq({"a", "b", "c"})
    OBVIOUS
  <2>8. Programs \subseteq Seq({"a", "b", "c"})
    BY ONLY <2>7 DEF Programs
  <2> QED  BY <2>5, <2>6, <2>8
<1>3. MCInit => Loads
  BY DEF MCInit
<1>4. Loads /\ [MCNext]_allvars => Loads'
  <2> SUFFICES ASSUME Loads, [MCNext]_allvars PROVE Loads'
    OBVIOUS
  <2>1. CASE UNCHANGED in
    BY <2>1
  <2>2. CASE Boot
    <3>1. CASE \E q \in Programs, text \in Text : in' = <<"load", q, text>>
      BY <1>2, <3>1
    <3>2. CASE \E e \in MemEntries, end \in {0, 3, 5} : in' = <<"memory", e, end>>
      BY <3>2
    <3>3. CASE \E la \in 0 .. 11, pa \in 0 .. 7 : in' = <<"map", la, pa>>
      BY <3>3
    <3> QED  BY <2>2, <3>1, <3>2, <3>3 DEF Boot
  <2>3. CASE Answered
    BY <2>3 DEF Answered
  <2> QED  BY <2>1, <2>2, <2>3 DEF MCNext, Interruptible, Switching, allvars
<1>5. Loads => SegmentsLoaded
  <2> SUFFICES ASSUME Loads, in[1] = "load", NEW data \in Data
               PROVE  KernelLoaded(in[2], [e_magic |-> TRUE, size |-> 24, ph |-> <<in[3], data>>])
    BY DEF SegmentsLoaded
  <2>1. <<in[3], data>> \in Seq(ProgHdr)
    BY <1>2
  <2>2. [e_magic |-> TRUE, size |-> 24, ph |-> <<in[3], data>>] \in Elf
    BY <2>1 DEF Elf
  <2> QED  BY <1>1, <2>2
<1>6. MCSpec => []SegmentsLoaded
  BY <1>3, <1>4, <1>5, PTL DEF MCSpec
<1> QED  BY <1>1, <1>6
=============================================================================

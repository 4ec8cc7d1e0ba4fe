--------------------------- MODULE ConsoleInputProof ---------------------------
(***************************************************************************)
(* Proofs about what is typed: ConsoleInput, for every size of the ring    *)
(* and of the keyboard's store and every bound on typing ahead below the   *)
(* ring's size; Keyboard, for any keys; Monitor, for lines and commands of *)
(* any length; and about the library below: Stab, which the monitor's      *)
(* backtrace prints from, for every table of debug entries, chain of       *)
(* frames and depth; Memory, for every memory and all ranges, and Strings, *)
(* for every memory without gaps and every text strtol may read.           *)
(***************************************************************************)
EXTENDS ConsoleInput, Keyboard, Monitor, MCStrings, SeqLemmas, FiniteSetTheorems, TLAPS

(* The k-th slot from rpos on. *)
Slot(k) == IF rpos + k < CONSBUFSIZE THEN rpos + k ELSE rpos + k - CONSBUFSIZE

TypeInv ==
    /\ stage \in {"boot", "booted", "up", "monitor"}
    /\ serial_exists \in BOOLEAN
    /\ data \in [Device -> Seq(Datum)]
    /\ Len(data[Kbd]) <= KeyQueue /\ Len(data[Com1]) <= 1
    /\ irr \in SUBSET Device /\ forgotten \in SUBSET Device
    /\ buf \in [Index -> Datum] /\ rpos \in Index /\ wpos \in Index
    /\ waiting \in Seq(Char)

(* What is on its way fits into the ring. *)
BoundInv == Len(data[Kbd]) + Len(data[Com1]) + Len(waiting) <= TypeAhead

RingInv ==
    /\ wpos = Slot(Len(waiting))
    /\ \A k \in 0 .. Len(waiting) - 1 : buf[Slot(k)] = waiting[k + 1]

Inv == TypeInv /\ BoundInv /\ RingInv

-----------------------------------------------------------------------------
(* The remainder by the ring's size, for indices at most one turn away. *)
LEMMA Remainder ==
    ASSUME NEW n \in Nat \ {0}, NEW x \in Int, NEW q \in Int, NEW r \in 0 .. n - 1,
           x = n * q + r
    PROVE  x % n = r
<1> DEFINE p == x \div n
<1>1. p \in Int /\ x % n \in 0 .. n - 1 /\ x = n * p + (x % n)
  BY SMT
<1> HIDE DEF p
<1>2. ASSUME q > p PROVE FALSE
  <2>1. n * (q - p) >= n /\ n * (q - p) = n * q - n * p
    BY <1>1, <1>2, SMT
  <2> QED
    BY <1>1, <2>1, SMT
<1>3. ASSUME p > q PROVE FALSE
  <2>1. n * (p - q) >= n /\ n * (p - q) = n * p - n * q
    BY <1>1, <1>3, SMT
  <2> QED
    BY <1>1, <2>1, SMT
<1> QED
  BY <1>1, <1>2, <1>3, SMT

LEMMA TurnBack ==
    ASSUME NEW n \in Nat \ {0}, NEW x \in Int
    PROVE  /\ 0 <= x /\ x < n => x % n = x
           /\ n <= x /\ x < 2 * n => x % n = x - n
           /\ -n <= x /\ x < 0 => x % n = x + n
<1>1. ASSUME 0 <= x, x < n PROVE x % n = x
  <2>1. x = n * 0 + x /\ x \in 0 .. n - 1
    BY <1>1
  <2> QED
    BY <2>1, Remainder
<1>2. ASSUME n <= x, x < 2 * n PROVE x % n = x - n
  <2>1. x = n * 1 + (x - n) /\ x - n \in 0 .. n - 1
    BY <1>2
  <2> QED
    BY <2>1, Remainder
<1>3. ASSUME -n <= x, x < 0 PROVE x % n = x + n
  <2>1. x = n * (-1) + (x + n) /\ x + n \in 0 .. n - 1
    BY <1>3
  <2> QED
    BY <2>1, Remainder
<1> QED
  BY <1>1, <1>2, <1>3

(* The same for the ring's size. *)
LEMMA TurnRing ==
    ASSUME NEW x \in Int
    PROVE  /\ 0 <= x /\ x < CONSBUFSIZE => x % CONSBUFSIZE = x
           /\ CONSBUFSIZE <= x /\ x < 2 * CONSBUFSIZE
                  => x % CONSBUFSIZE = x - CONSBUFSIZE
           /\ -CONSBUFSIZE <= x /\ x < 0 => x % CONSBUFSIZE = x + CONSBUFSIZE
<1>1. CONSBUFSIZE \in Nat \ {0}
  BY SizeAssumption
<1> QED
  BY <1>1, TurnBack, Zenon

-----------------------------------------------------------------------------
LEMMA Initially == InputInit => Inv
<1> SUFFICES ASSUME InputInit PROVE Inv
  OBVIOUS
<1>1. data \in [Device -> Seq(Datum)] /\ Len(data[Kbd]) = 0 /\ Len(data[Com1]) = 0
  BY DEF InputInit, Device, Kbd, Com1, Datum
<1>2. waiting \in Seq(Char) /\ Len(waiting) = 0
  BY DEF InputInit
<1>3. 0 \in Index
  BY SizeAssumption DEF Index
<1>4. TypeInv
  BY <1>1, <1>2, <1>3, SizeAssumption DEF TypeInv, InputInit, Datum
<1>5. BoundInv
  BY <1>1, <1>2, TypeAheadAssumption DEF BoundInv
<1>6. RingInv
  BY <1>2, SizeAssumption DEF RingInv, Slot, InputInit
<1> QED
  BY <1>4, <1>5, <1>6 DEF Inv

(* Storing a character keeps the ring a queue, while there is room. *)
LEMMA StoreKeeps ==
    ASSUME TypeInv, RingInv, NEW x \in Datum, Len(waiting) < TypeAhead, Store(x)
    PROVE  /\ buf' \in [Index -> Datum] /\ rpos' \in Index /\ wpos' \in Index
           /\ waiting' \in Seq(Char)
           /\ Len(waiting') <= Len(waiting) + 1
           /\ RingInv'
<1> USE SizeAssumption, TypeAheadAssumption DEF TypeInv, Index
<1>1. CASE x = None
  <2>1. UNCHANGED <<ring, waiting>>
    BY <1>1 DEF Store
  <2> QED
    BY <2>1 DEF RingInv, Slot, ring
<1>2. CASE x # None
  <2>0. PICK n \in Nat : n = Len(waiting)
    OBVIOUS
  <2>1. /\ buf' = [buf EXCEPT ![wpos] = x] /\ rpos' = rpos
        /\ wpos' = Next1(wpos) /\ waiting' = Append(waiting, x)
    BY <1>2 DEF Store
  <2>2. x \in Char
    BY <1>2 DEF Datum
  <2>3. n < TypeAhead /\ n + 1 < CONSBUFSIZE
    BY <2>0
  <2>4. /\ waiting' \in Seq(Char) /\ Len(waiting') = n + 1
        /\ waiting'[n + 1] = x
        /\ \A k \in 0 .. n - 1 : waiting'[k + 1] = waiting[k + 1]
    BY <2>0, <2>1, <2>2, <2>3
  <2>a. wpos = Slot(n)
    BY <2>0 DEF RingInv
  <2>b. \A k \in 0 .. n - 1 : buf[Slot(k)] = waiting[k + 1]
    BY <2>0 DEF RingInv
  <2>5. wpos' \in Index /\ wpos' = (Slot(n + 1))'
    BY <2>1, <2>3, <2>a DEF Slot, Next1
  <2>6. \A k \in 0 .. n - 1 : Slot(k) \in Index /\ Slot(k) # wpos
    BY <2>3, <2>a DEF Slot
  <2>7. \A k \in Nat : (Slot(k))' = Slot(k)
    BY <2>1 DEF Slot
  <2>8. \A k \in 0 .. n : buf'[Slot(k)] = waiting'[k + 1]
    <3> TAKE k \in 0 .. n
    <3>1. CASE k = n
      BY <3>1, <2>1, <2>4, <2>a
    <3>2. CASE k # n
      <4>1. k \in 0 .. n - 1
        BY <3>2, <2>3
      <4>2. buf'[Slot(k)] = buf[Slot(k)]
        BY <4>1, <2>1, <2>6
      <4>3. buf[Slot(k)] = waiting[k + 1]
        BY <4>1, <2>b
      <4> QED
        BY <4>1, <4>2, <4>3, <2>4
    <3> QED
      BY <3>1, <3>2
  <2>9. (\A k \in 0 .. Len(waiting) - 1 : buf[Slot(k)] = waiting[k + 1])'
    <3>1. Len(waiting') - 1 = n
      BY <2>3, <2>4
    <3>2. \A k \in 0 .. n : k \in Nat
      BY <2>3
    <3>3. \A k \in 0 .. n : buf'[(Slot(k))'] = waiting'[k + 1]
      BY <2>7, <2>8, <3>2
    <3> QED
      BY <3>1, <3>3
  <2>10. wpos' = (Slot(Len(waiting)))'
    BY <2>4, <2>5 DEF Slot
  <2>11. RingInv'
    BY <2>9, <2>10 DEF RingInv
  <2> QED
    BY <2>0, <2>1, <2>3, <2>4, <2>5, <2>11
<1> QED
  BY <1>1, <1>2

(* Taking one, too. *)
LEMMA TakeKeeps ==
    ASSUME TypeInv, BoundInv, RingInv, Take
    PROVE  /\ rpos' \in Index
           /\ waiting' \in Seq(Char) /\ Len(waiting') <= Len(waiting)
           /\ RingInv'
<1> USE SizeAssumption, TypeAheadAssumption DEF TypeInv, Index
<1>0. PICK n \in Nat : n = Len(waiting)
  OBVIOUS
<1>1. CASE rpos = wpos
  <2>1. UNCHANGED <<ring, waiting>>
    BY <1>1 DEF Take, ring
  <2> QED
    BY <2>1 DEF RingInv, Slot, ring
<1>2. CASE rpos # wpos
  <2>1. /\ rpos' = Next1(rpos) /\ waiting' = Tail(waiting)
        /\ buf' = buf /\ wpos' = wpos
    BY <1>2 DEF Take
  <2>2. n < CONSBUFSIZE
    BY <1>0 DEF BoundInv, Device, Kbd, Com1
  <2>a. wpos = Slot(n)
    BY <1>0 DEF RingInv
  <2>b. \A k \in 0 .. n - 1 : buf[Slot(k)] = waiting[k + 1]
    BY <1>0 DEF RingInv
  <2>3. n # 0
    BY <1>2, <2>a DEF Slot
  <2>c. waiting # <<>>
    BY <1>0, <2>3
  <2>4. /\ waiting' \in Seq(Char) /\ Len(waiting') = n - 1
        /\ \A k \in 0 .. n - 2 : waiting'[k + 1] = waiting[k + 2]
    <3>1. /\ Tail(waiting) \in Seq(Char) /\ Len(Tail(waiting)) = n - 1
          /\ \A i \in 1 .. n - 1 : Tail(waiting)[i] = waiting[i + 1]
      BY <1>0, <2>c
    <3>2. \A k \in 0 .. n - 2 : k + 1 \in 1 .. n - 1 /\ (k + 1) + 1 = k + 2
      OBVIOUS
    <3> QED
      BY <2>1, <3>1, <3>2
  <2>5. rpos' \in Index
    BY <2>1 DEF Next1
  <2>6. \A k \in 0 .. n - 1 : (Slot(k))' = Slot(k + 1)
    BY <2>1, <2>2 DEF Slot, Next1
  <2>7. wpos' = (Slot(Len(waiting)))'
    <3>1. n - 1 \in 0 .. n - 1 /\ (n - 1) + 1 = n
      BY <2>2, <2>3
    <3>2. (Slot(n - 1))' = Slot(n)
      BY <2>6, <3>1
    <3> QED
      BY <3>2, <2>1, <2>4, <2>a DEF Slot
  <2>8. (\A k \in 0 .. Len(waiting) - 1 : buf[Slot(k)] = waiting[k + 1])'
    <3>1. \A k \in 0 .. n - 2 : buf[Slot(k + 1)] = waiting[k + 2]
      <4> TAKE k \in 0 .. n - 2
      <4>1. k + 1 \in 0 .. n - 1 /\ (k + 1) + 1 = k + 2
        BY <2>2, <2>3
      <4> QED
        BY <4>1, <2>b
    <3>2. \A k \in 0 .. n - 2 : k \in 0 .. n - 1
      BY <2>2
    <3>3. \A k \in 0 .. n - 2 : buf'[(Slot(k))'] = waiting'[k + 1]
      BY <2>1, <2>4, <2>6, <3>1, <3>2
    <3>4. Len(waiting') - 1 = n - 2
      BY <2>2, <2>4
    <3> QED
      BY <3>3, <3>4
  <2> QED
    BY <1>0, <2>2, <2>4, <2>5, <2>7, <2>8 DEF RingInv
<1> QED
  BY <1>1, <1>2

-----------------------------------------------------------------------------
(* One step of each action. *)

LEMMA TypingStep ==
    ASSUME Inv, Typing
    PROVE  Inv'
<1> USE DEF Inv, TypeInv, Device, Kbd, Com1
<1>1. ASSUME NEW x \in Datum, Key(x) PROVE Inv'
  <2>1. /\ data' = [data EXCEPT !["kbd"] = Append(data["kbd"], x)]
        /\ Len(data["kbd"]) < KeyQueue
        /\ Len(data["kbd"]) + Len(data["serial"]) + Len(waiting) < TypeAhead
        /\ UNCHANGED <<stage, serial_exists, forgotten, ring, waiting>>
    BY <1>1 DEF Key, Ahead
  <2>2. irr' \in SUBSET Device
    BY <1>1 DEF Key
  <2>3. /\ data' \in [Device -> Seq(Datum)]
        /\ Len(data'["kbd"]) = Len(data["kbd"]) + 1
        /\ data'["serial"] = data["serial"]
    BY <2>1
  <2>4. TypeInv'
    BY <2>1, <2>2, <2>3, SizeAssumption DEF ring
  <2>5. BoundInv'
    BY <2>1, <2>3, TypeAheadAssumption DEF BoundInv
  <2>6. RingInv'
    BY <2>1 DEF RingInv, Slot, ring
  <2> QED
    BY <2>4, <2>5, <2>6
<1>2. ASSUME NEW x \in Char, Receive(x) PROVE Inv'
  <2>1. /\ data' = [data EXCEPT !["serial"] = <<x>>]
        /\ Len(data["kbd"]) + Len(data["serial"]) + Len(waiting) < TypeAhead
        /\ UNCHANGED <<stage, serial_exists, forgotten, ring, waiting>>
    BY <1>2 DEF Receive, Ahead
  <2>2. irr' \in SUBSET Device
    BY <1>2 DEF Receive
  <2>3. /\ data' \in [Device -> Seq(Datum)]
        /\ Len(data'["serial"]) = 1
        /\ data'["kbd"] = data["kbd"]
    <3>1. <<x>> \in Seq(Datum) /\ Len(<<x>>) = 1
      BY DEF Datum
    <3> QED
      BY <2>1, <3>1
  <2>4. TypeInv'
    BY <2>1, <2>2, <2>3, SizeAssumption DEF ring
  <2>5. BoundInv'
    BY <2>1, <2>3, TypeAheadAssumption DEF BoundInv
  <2>6. RingInv'
    BY <2>1 DEF RingInv, Slot, ring
  <2> QED
    BY <2>4, <2>5, <2>6
<1> QED
  BY <1>1, <1>2 DEF Typing

LEMMA DrainStep ==
    ASSUME Inv, NEW d \in Device, Drain(d)
    PROVE  Inv'
<1> USE DEF Inv
<1>1. /\ data[d] # <<>> /\ data' = [data EXCEPT ![d] = Tail(data[d])]
      /\ Store(Head(data[d]))
      /\ UNCHANGED <<stage, serial_exists, forgotten>>
      /\ irr' = IF data'[d] # <<>> THEN irr \cup {d} ELSE irr
  BY DEF Drain
<1>2. /\ data[d] \in Seq(Datum) /\ Head(data[d]) \in Datum
      /\ Tail(data[d]) \in Seq(Datum) /\ Len(Tail(data[d])) = Len(data[d]) - 1
      /\ Len(data[d]) \in Nat \ {0}
  BY <1>1 DEF TypeInv
<1>3. /\ data' \in [Device -> Seq(Datum)]
      /\ Len(data'[d]) = Len(data[d]) - 1
      /\ \A e \in Device \ {d} : data'[e] = data[e]
  BY <1>1, <1>2 DEF TypeInv
<1>4. /\ data["kbd"] \in Seq(Datum) /\ data["serial"] \in Seq(Datum)
      /\ waiting \in Seq(Char)
  BY DEF TypeInv, Device, Kbd, Com1
<1>a. PICK k \in Nat, m \in Nat, w \in Nat :
          k = Len(data["kbd"]) /\ m = Len(data["serial"]) /\ w = Len(waiting)
  BY <1>4
<1>b. k + m + w <= TypeAhead
  BY <1>a DEF BoundInv, Kbd, Com1
<1>c. d = "kbd" \/ d = "serial"
  BY DEF Device, Kbd, Com1
<1>5. Len(waiting) < TypeAhead
  <2>1. k >= 1 \/ m >= 1
    BY <1>a, <1>c, <1>2
  <2>2. w < TypeAhead
    BY ONLY <2>1, <1>b, TypeAheadAssumption, SizeAssumption
  <2> QED
    BY <2>2, <1>a
<1>6. /\ buf' \in [Index -> Datum] /\ rpos' \in Index /\ wpos' \in Index
      /\ waiting' \in Seq(Char) /\ Len(waiting') <= Len(waiting) + 1
      /\ RingInv'
  BY <1>1, <1>2, <1>5, StoreKeeps
<1>7. \/ Len(data'["kbd"]) = k - 1 /\ Len(data'["serial"]) = m /\ k >= 1
      \/ Len(data'["kbd"]) = k /\ Len(data'["serial"]) = m - 1 /\ m >= 1
  <2>1. CASE d = "kbd"
    <3>1. data'["serial"] = data["serial"]
      BY <2>1, <1>3 DEF Device, Kbd, Com1
    <3> QED
      BY <2>1, <3>1, <1>2, <1>3, <1>a
  <2>2. CASE d = "serial"
    <3>1. data'["kbd"] = data["kbd"]
      BY <2>2, <1>3 DEF Device, Kbd, Com1
    <3> QED
      BY <2>2, <3>1, <1>2, <1>3, <1>a
  <2> QED
    BY <2>1, <2>2, <1>c
<1>8. irr' \in SUBSET Device
  BY <1>1 DEF TypeInv
<1>9. Len(data'["kbd"]) <= KeyQueue /\ Len(data'["serial"]) <= 1
  <2>1. k <= KeyQueue /\ m <= 1
    BY <1>a DEF TypeInv, Kbd, Com1
  <2> QED
    BY <2>1, <1>7, SizeAssumption
<1>10. TypeInv'
  BY <1>1, <1>3, <1>6, <1>8, <1>9 DEF TypeInv, Kbd, Com1
<1>11. BoundInv'
  <2>1. PICK v \in Nat : v = Len(waiting')
    BY <1>6
  <2>2. v <= w + 1
    BY <2>1, <1>6, <1>a
  <2>a. (k - 1) + m + v <= TypeAhead /\ k + (m - 1) + v <= TypeAhead
    BY ONLY <2>2, <1>b, TypeAheadAssumption, SizeAssumption
  <2>3. Len(data'["kbd"]) + Len(data'["serial"]) + v <= TypeAhead
    BY <2>a, <1>7
  <2> QED
    BY <2>1, <2>3 DEF BoundInv, Kbd, Com1
<1> QED
  BY <1>6, <1>10, <1>11

LEMMA TakeStep ==
    ASSUME Inv, Take
    PROVE  Inv'
<1> USE DEF Inv
<1>1. /\ rpos' \in Index
      /\ waiting' \in Seq(Char) /\ Len(waiting') <= Len(waiting)
      /\ RingInv'
  BY TakeKeeps
<1>2. UNCHANGED <<stage, serial_exists, data, irr, forgotten, buf, wpos>>
  BY DEF Take
<1>3. TypeInv'
  BY <1>1, <1>2 DEF TypeInv
<1>4. BoundInv'
  BY <1>1, <1>2, TypeAheadAssumption DEF BoundInv, TypeInv, Device, Kbd, Com1
<1> QED
  BY <1>1, <1>3, <1>4

(* The callers of the reader leave the ring alone. *)
LEMMA CallerStep ==
    ASSUME Inv,
           \/ ConsInit \/ PicInit \/ Panic \/ Poll
           \/ \E d \in Device : Drained(d) \/ ConsIrq(d)
    PROVE  Inv'
<1> USE DEF Inv
<1>1. UNCHANGED <<serial_exists, ring, waiting>>
  BY DEF ConsInit, PicInit, Panic, Poll, Drained, ConsIrq
<1>2. stage' \in {"boot", "booted", "up", "monitor"}
  BY DEF ConsInit, PicInit, Panic, Poll, Drained, ConsIrq, TypeInv
<1>3. irr' \in SUBSET Device /\ forgotten' \in SUBSET Device
  BY DEF ConsInit, PicInit, Panic, Poll, Drained, ConsIrq, TypeInv
<1>4. data' = data \/ data' = [data EXCEPT !["serial"] = <<>>]
  BY DEF ConsInit, PicInit, Panic, Poll, Drained, ConsIrq, Com1
<1>5. /\ data' \in [Device -> Seq(Datum)]
      /\ data'["kbd"] = data["kbd"]
      /\ data'["serial"] = data["serial"] \/ data'["serial"] = <<>>
  <2>1. "kbd" \in Device /\ "serial" \in Device /\ <<>> \in Seq(Datum)
    BY DEF Device, Kbd, Com1
  <2>2. data \in [Device -> Seq(Datum)]
    BY DEF TypeInv
  <2> QED
    BY <1>4, <2>1, <2>2
<1>6. /\ data["kbd"] \in Seq(Datum) /\ data["serial"] \in Seq(Datum)
      /\ data'["kbd"] \in Seq(Datum) /\ data'["serial"] \in Seq(Datum)
      /\ waiting \in Seq(Char)
  BY <1>5 DEF TypeInv, Device, Kbd, Com1
<1>a. PICK k \in Nat, m \in Nat, w \in Nat :
          k = Len(data["kbd"]) /\ m = Len(data["serial"]) /\ w = Len(waiting)
  BY <1>6
<1>7. Len(data'["kbd"]) = k /\ (Len(data'["serial"]) = m \/ Len(data'["serial"]) = 0)
  BY <1>5, <1>a
<1>8. TypeInv'
  <2>1. Len(data'["kbd"]) <= KeyQueue /\ Len(data'["serial"]) <= 1
    BY <1>7, <1>a DEF TypeInv, Kbd, Com1
  <2> QED
    BY <2>1, <1>1, <1>2, <1>3, <1>5 DEF TypeInv, ring, Kbd, Com1
<1>9. BoundInv'
  <2>1. k + m + w <= TypeAhead /\ Len(waiting') = w
    BY <1>1, <1>a DEF BoundInv, Kbd, Com1
  <2>2. Len(data'["kbd"]) + Len(data'["serial"]) + Len(waiting') <= TypeAhead
    BY <2>1, <1>7, TypeAheadAssumption
  <2> QED
    BY <2>2 DEF BoundInv, Kbd, Com1
<1>10. RingInv'
  BY <1>1 DEF RingInv, Slot, ring
<1> QED
  BY <1>8, <1>9, <1>10

(* The invariant holds in every reachable state. *)
THEOREM Invariance == InputSpec => []Inv
<1>1. InputInit => Inv
  BY Initially
<1>2. Inv /\ [InputNext]_input => Inv'
  <2> SUFFICES ASSUME Inv, [InputNext]_input PROVE Inv'
    OBVIOUS
  <2>1. CASE Typing
    BY <2>1, TypingStep
  <2>2. CASE \E d \in Device : Drain(d)
    BY <2>2, DrainStep
  <2>3. CASE Take
    BY <2>3, TakeStep
  <2>4. CASE \/ ConsInit \/ PicInit \/ Panic \/ Poll
             \/ \E d \in Device : Drained(d) \/ ConsIrq(d)
    BY <2>4, CallerStep
  <2>5. CASE UNCHANGED input
    BY <2>5 DEF input, ring, Inv, TypeInv, BoundInv, RingInv, Slot
  <2> QED
    BY <2>1, <2>2, <2>3, <2>4, <2>5 DEF InputNext, Reader
<1> QED
  BY <1>1, <1>2, PTL DEF InputSpec

(* Every variable of the console input keeps its type. *)
THEOREM TypeCorrect == InputSpec => []InputTypeOK
<1>1. Inv => InputTypeOK
  <2> SUFFICES ASSUME Inv PROVE InputTypeOK
    OBVIOUS
  <2> USE DEF Inv, TypeInv
  <2>1. \A d \in Device : \A i \in 1 .. Len(data[d]) : data[d][i] \in Datum
    OBVIOUS
  <2>2. Len(waiting) <= TypeAhead
    BY TypeAheadAssumption DEF BoundInv, Device, Kbd, Com1
  <2> QED
    BY <2>1, <2>2 DEF InputTypeOK
<1> QED
  BY <1>1, Invariance, PTL

(* cons is a queue: from rpos to wpos it holds exactly the characters read *)
(* and not taken, in order, as long as nobody types too far ahead.         *)
THEOREM RingTheorem == InputSpec => []RingIsQueue
<1>1. Inv => RingIsQueue
  <2> SUFFICES ASSUME Inv PROVE RingIsQueue
    OBVIOUS
  <2> USE SizeAssumption, TypeAheadAssumption DEF Inv, TypeInv, Index
  <2>0. PICK n \in Nat : n = Len(waiting)
    OBVIOUS
  <2>1. n < CONSBUFSIZE
    BY <2>0 DEF BoundInv, Device, Kbd, Com1
  <2>2. wpos = Slot(n) /\ \A k \in 0 .. n - 1 : buf[Slot(k)] = waiting[k + 1]
    BY <2>0 DEF RingInv
  <2>3. (wpos - rpos) % CONSBUFSIZE = n
    <3>1. CASE rpos + n < CONSBUFSIZE
      <4>1. wpos - rpos = n
        BY <3>1, <2>2 DEF Slot
      <4>2. n \in Int /\ 0 <= n
        OBVIOUS
      <4>3. n % CONSBUFSIZE = n
        BY <4>2, <2>1, TurnRing, Zenon
      <4> QED
        BY <4>1, <4>3
    <3>2. CASE rpos + n >= CONSBUFSIZE
      <4>1. wpos - rpos = n - CONSBUFSIZE
        BY <3>2, <2>2 DEF Slot
      <4>2. PICK x \in Int : x = n - CONSBUFSIZE
        OBVIOUS
      <4>a. -CONSBUFSIZE <= x /\ x < 0
        BY <4>2, <2>1
      <4>3. x % CONSBUFSIZE = x + CONSBUFSIZE
        BY <4>a, TurnRing, Zenon
      <4>4. x + CONSBUFSIZE = n
        BY <4>2
      <4> QED
        BY <4>1, <4>2, <4>3, <4>4
    <3> QED
      BY <3>1, <3>2
  <2>4. \A i \in 1 .. n : buf[(rpos + i - 1) % CONSBUFSIZE] = waiting[i]
    <3> TAKE i \in 1 .. n
    <3>1. i - 1 \in 0 .. n - 1 /\ (i - 1) + 1 = i
      OBVIOUS
    <3>2. (rpos + i - 1) % CONSBUFSIZE = Slot(i - 1)
      <4>1. PICK x \in Int : x = rpos + i - 1
        OBVIOUS
      <4>2. 0 <= x /\ x < 2 * CONSBUFSIZE /\ x = rpos + (i - 1)
        BY <4>1, <2>1
      <4>3. CASE x < CONSBUFSIZE
        <5>1. x % CONSBUFSIZE = x
          BY <4>2, <4>3, TurnRing, Zenon
        <5> QED
          BY <5>1, <4>1, <4>2, <4>3 DEF Slot
      <4>4. CASE ~(x < CONSBUFSIZE)
        <5>1. CONSBUFSIZE <= x
          BY <4>4
        <5>2. x % CONSBUFSIZE = x - CONSBUFSIZE
          BY <5>1, <4>2, TurnRing, Zenon
        <5> QED
          BY <5>2, <4>1, <4>2, <4>4 DEF Slot
      <4> QED
        BY <4>3, <4>4
    <3> QED
      BY <3>1, <3>2, <2>2
  <2> QED
    BY <2>0, <2>3, <2>4 DEF RingIsQueue
<1> QED
  BY <1>1, Invariance, PTL

-----------------------------------------------------------------------------
(* The keyboard decoder, for any keys beside the modifiers.                *)

(* A modifier is on only while one of keys is down that makes it. *)
MadeBy(keys) == \A m \in shift \cap Modifier : ModifierKey(m) \cap keys # {}

(* What is not read yet of the codes cs of one key. *)
Unread(cs) ==
    \/ codes = cs /\ "E0ESC" \notin shift
    \/ Len(cs) = 2 /\ codes = <<cs[2]>> /\ "E0ESC" \in shift

Going(key) == key \in held /\ Unread(key) /\ MadeBy(held)
Coming(key) == key \notin held /\ Unread(Up(key)) /\ MadeBy(held \cup {key})

(* Between two keys, or in the codes of one that goes down, or of one that *)
(* comes up and whose modifier may still be on.                            *)
KeyInv ==
    /\ KeyTypeOK
    /\ \/ codes = <<>> /\ "E0ESC" \notin shift /\ MadeBy(held)
       \/ \E key \in AnyKey : Going(key)
       \/ \E key \in AnyKey : Coming(key)

LEMMA KeyShape ==
    ASSUME NEW key \in AnyKey
    PROVE  \E c \in Code : key = <<c>> \/ key = <<E0, c>>
<1>1. 29 \in Code /\ 42 \in Code /\ 54 \in Code /\ 56 \in Code /\ 58 \in Code
  BY DEF Code, E0
<1> QED
  BY <1>1, KeyAssumption DEF AnyKey, LShift, RShift, LCtl, RCtl, LAlt, RAlt, CapsLock

LEMMA Codes ==
    ASSUME NEW c \in Code
    PROVE  /\ c \in Int /\ 0 < c /\ c < 128 /\ c + 128 # E0
           /\ c \in 0 .. 255 /\ c + 128 \in 0 .. 255
BY DEF Code, E0

LEMMA UpShape ==
    ASSUME NEW c \in Code
    PROVE  Up(<<c>>) = <<c + 128>> /\ Up(<<E0, c>>) = <<E0, c + 128>>
BY DEF Up, E0, Code

(* shiftcode[] says of a key's code exactly the modifiers it makes. *)
LEMMA PlainMakes ==
    ASSUME NEW c \in Code, NEW m \in Modifier
    PROVE  m \in shiftcode(c) <=> <<c>> \in ModifierKey(m)
BY Codes DEF Modifier, shiftcode, ModifierKey, LShift, RShift, LCtl, RCtl, LAlt, RAlt, E0

LEMMA EscapedMakes ==
    ASSUME NEW c \in Code, NEW m \in Modifier
    PROVE  m \in shiftcode(c + 128) <=> <<E0, c>> \in ModifierKey(m)
BY Codes DEF Modifier, shiftcode, ModifierKey, LShift, RShift, LCtl, RCtl, LAlt, RAlt, E0

LEMMA Codings ==
    ASSUME NEW d \in Int
    PROVE  shiftcode(d) \subseteq Modifier /\ togglecode(d) \subseteq {"CAPSLOCK"}
BY DEF shiftcode, togglecode, Modifier

(* A key that goes down: its modifier is made by it. *)
LEMMA Pressed ==
    ASSUME NEW flags \in SUBSET Flag, NEW d \in Int, NEW code \in Int,
           d = IF "E0ESC" \in flags THEN code + 128 ELSE code
    PROVE  /\ Press(flags, code).shift \in SUBSET Flag
           /\ "E0ESC" \notin Press(flags, code).shift
           /\ \A m \in Modifier : m \in Press(flags, code).shift =>
                 m \in flags \/ m \in shiftcode(d)
<1>1. Press(flags, code).shift = Xor((flags \ {"E0ESC"}) \cup shiftcode(d), togglecode(d))
  BY DEF Press
<1>2. shiftcode(d) \subseteq Modifier /\ togglecode(d) \subseteq {"CAPSLOCK"}
  BY Codings
<1> QED
  BY <1>1, <1>2 DEF Xor, Flag, Modifier

LEMMA Released ==
    ASSUME NEW flags \in SUBSET Flag, NEW d \in Int, NEW code \in Int,
           d = IF "E0ESC" \in flags THEN code ELSE code - 128
    PROVE  Release(flags, code).shift = flags \ (shiftcode(d) \cup {"E0ESC"})
BY DEF Release

LEMMA DecodePress ==
    ASSUME NEW flags, NEW c \in Code
    PROVE  Decode(flags, c) = Press(flags, c)
BY Codes DEF Decode, E0

LEMMA DecodeRelease ==
    ASSUME NEW flags, NEW c \in Code
    PROVE  Decode(flags, c + 128) = Release(flags, c + 128)
BY Codes DEF Decode, E0

LEMMA DecodeEscape ==
    ASSUME NEW flags
    PROVE  Decode(flags, E0).shift = flags \cup {"E0ESC"}
BY DEF Decode, Escape, E0

LEMMA One ==
    ASSUME NEW c \in 0 .. 255
    PROVE  /\ <<c>> # <<>> /\ Len(<<c>>) = 1 /\ <<c>>[1] = c
           /\ \A i \in 1 .. Len(<<c>>) : <<c>>[i] \in 0 .. 255
<1>1. Len(<<c>>) = 1 /\ Len(<<>>) = 0 /\ <<c>>[1] = c
  OBVIOUS
<1> QED  BY <1>1

LEMMA Two ==
    ASSUME NEW c \in 0 .. 255
    PROVE  /\ <<E0, c>> # <<>> /\ Len(<<E0, c>>) = 2 /\ <<E0, c>>[1] = E0 /\ <<E0, c>>[2] = c
           /\ \A i \in 1 .. Len(<<E0, c>>) : <<E0, c>>[i] \in 0 .. 255
<1>1. Len(<<E0, c>>) = 2 /\ Len(<<>>) = 0 /\ <<E0, c>>[1] = E0 /\ <<E0, c>>[2] = c
  OBVIOUS
<1>2. <<E0, c>> # <<>>
  BY <1>1
<1>3. E0 \in 0 .. 255
  BY DEF E0
<1>4. ASSUME NEW i \in 1 .. 2 PROVE <<E0, c>>[i] \in 0 .. 255
  <2>1. i = 1 \/ i = 2
    OBVIOUS
  <2> QED  BY <1>1, <1>3, <2>1
<1> QED  BY <1>1, <1>2, <1>4

(* What the keyboard sends. *)
LEMMA OneByte ==
    ASSUME NEW c \in 0 .. 255, NEW s, s = <<c>>
    PROVE  s # <<>> /\ \A i \in 1 .. Len(s) : s[i] \in 0 .. 255
BY One

LEMMA TwoBytes ==
    ASSUME NEW c \in 0 .. 255, NEW s, s = <<E0, c>>
    PROVE  s # <<>> /\ \A i \in 1 .. Len(s) : s[i] \in 0 .. 255
BY Two

LEMMA Sent ==
    ASSUME NEW key \in AnyKey
    PROVE  /\ key # <<>> /\ \A i \in 1 .. Len(key) : key[i] \in 0 .. 255
           /\ Up(key) # <<>> /\ \A i \in 1 .. Len(Up(key)) : Up(key)[i] \in 0 .. 255
<1>1. PICK c \in Code : key = <<c>> \/ key = <<E0, c>>
  BY KeyShape
<1>2. c \in 0 .. 255 /\ c + 128 \in 0 .. 255
  BY <1>1, Codes
<1>3. CASE key = <<c>>
  <2>1. Up(key) = <<c + 128>>
    BY <1>3, UpShape
  <2> QED  BY ONLY <1>2, <1>3, <2>1, OneByte
<1>4. CASE key = <<E0, c>>
  <2>1. Up(key) = <<E0, c + 128>>
    BY <1>4, UpShape
  <2>2. key # <<>> /\ \A i \in 1 .. Len(key) : key[i] \in 0 .. 255
    BY ONLY <1>2, <1>4, TwoBytes
  <2>3. Up(key) # <<>> /\ \A i \in 1 .. Len(Up(key)) : Up(key)[i] \in 0 .. 255
    BY ONLY <1>2, <2>1, TwoBytes
  <2> QED  BY ONLY <2>2, <2>3
<1> QED  BY <1>1, <1>3, <1>4

LEMMA UnreadOne ==
    ASSUME NEW c \in 0 .. 255, Unread(<<c>>)
    PROVE  codes = <<c>> /\ "E0ESC" \notin shift
<1>1. Len(<<c>>) = 1
  BY One
<1>2. Len(<<c>>) # 2
  BY <1>1
<1> QED  BY <1>2 DEF Unread

LEMMA UnreadTwo ==
    ASSUME NEW c \in 0 .. 255, Unread(<<E0, c>>)
    PROVE  codes = IF "E0ESC" \in shift THEN <<c>> ELSE <<E0, c>>
<1>1. <<E0, c>>[2] = c
  BY Two
<1> QED  BY <1>1 DEF Unread

(* Between two keys nothing is unread. *)
LEMMA AllRead ==
    ASSUME NEW key \in AnyKey, codes = <<>>
    PROVE  ~Going(key) /\ ~Coming(key)
<1>1. PICK c \in Code : key = <<c>> \/ key = <<E0, c>>
  BY KeyShape
<1>2. c \in 0 .. 255 /\ c + 128 \in 0 .. 255
  BY <1>1, Codes
<1>3. CASE key = <<c>>
  <2>1. Up(key) = <<c + 128>>
    BY <1>3, UpShape
  <2>2. ~Unread(<<c>>)
    BY <1>2, One, UnreadOne
  <2>3. ~Unread(<<c + 128>>)
    BY <1>2, One, UnreadOne
  <2> QED  BY <1>3, <2>1, <2>2, <2>3 DEF Going, Coming
<1>4. CASE key = <<E0, c>>
  <2>1. Up(key) = <<E0, c + 128>>
    BY <1>4, UpShape
  <2>2. ~Unread(<<E0, c>>)
    BY <1>2, One, Two, UnreadTwo
  <2>3. ~Unread(<<E0, c + 128>>)
    BY <1>2, One, Two, UnreadTwo
  <2> QED  BY <1>4, <2>1, <2>2, <2>3 DEF Going, Coming
<1> QED  BY <1>1, <1>3, <1>4

(* One code of a key that goes down. *)
LEMMA ReadGoing ==
    ASSUME KeyTypeOK, NEW key \in AnyKey, Going(key), kbd_proc_data
    PROVE  KeyInv'
<1>1. PICK c \in Code : key = <<c>> \/ key = <<E0, c>>
  BY KeyShape
<1>2. c \in Int /\ c < 128 /\ 0 < c /\ c \in 0 .. 255
  BY Codes
<1>3. held' = held /\ shift' = Decode(shift, Head(codes)).shift /\ codes' = Tail(codes)
  BY DEF kbd_proc_data
<1>4. shift \in SUBSET Flag /\ held \in SUBSET AnyKey /\ reboots' \in BOOLEAN
  BY DEF KeyTypeOK, kbd_proc_data
<1>5. ASSUME codes = <<c>>, NEW d \in Int,
             d = IF "E0ESC" \in shift THEN c + 128 ELSE c,
             \A m \in Modifier : m \in shiftcode(d) => key \in ModifierKey(m)
      PROVE  KeyInv'
  <2>1. codes' = <<>> /\ shift' = Press(shift, c).shift
    BY <1>2, <1>3, <1>5, DecodePress
  <2>2. shift' \in SUBSET Flag /\ "E0ESC" \notin shift'
    BY <1>2, <1>4, <1>5, <2>1, Pressed
  <2>3. MadeBy(held)'
    <3> SUFFICES ASSUME NEW m \in shift' \cap Modifier PROVE ModifierKey(m) \cap held # {}
      BY <1>3 DEF MadeBy, ModifierKey
    <3>1. m \in shift \/ m \in shiftcode(d)
      BY <1>2, <1>4, <1>5, <2>1, Pressed
    <3>2. CASE m \in shift
      BY <3>2 DEF Going, MadeBy
    <3>3. CASE m \in shiftcode(d)
      BY <1>5, <3>3 DEF Going
    <3> QED  BY <3>1, <3>2, <3>3
  <2>4. KeyTypeOK'
    BY <1>3, <1>4, <2>1, <2>2 DEF KeyTypeOK
  <2> QED  BY <1>3, <2>1, <2>2, <2>3, <2>4 DEF KeyInv
<1>6. CASE key = <<c>>
  <2>1. codes = <<c>> /\ "E0ESC" \notin shift
    BY <1>2, <1>6, UnreadOne DEF Going
  <2> QED  BY <1>2, <1>5, <1>6, <2>1, PlainMakes
<1>7. CASE key = <<E0, c>> /\ "E0ESC" \in shift
  <2>1. codes = <<c>>
    BY <1>2, <1>7, UnreadTwo DEF Going
  <2>2. c + 128 \in Int
    BY <1>2
  <2> QED  BY <1>5, <1>7, <2>1, <2>2, EscapedMakes
<1>8. CASE key = <<E0, c>> /\ "E0ESC" \notin shift
  <2>1. codes = <<E0, c>>
    BY <1>2, <1>8, UnreadTwo DEF Going
  <2>2. codes' = <<c>> /\ shift' = shift \cup {"E0ESC"}
    BY <1>3, <2>1, DecodeEscape
  <2>3. MadeBy(held)'
    BY <1>3, <2>2 DEF Going, MadeBy, Modifier, ModifierKey
  <2>4. Going(key)'
    BY <1>3, <1>8, <2>2, <2>3 DEF Going, Unread
  <2>5. KeyTypeOK'
    <3>1. \A i \in 1 .. Len(codes') : codes'[i] \in 0 .. 255
      <4>1. PICK b \in 0 .. 255 : b = c
        BY <1>2
      <4>2. codes' = <<b>>
        BY ONLY <2>2, <4>1
      <4> QED  BY ONLY <4>2, OneByte, b \in 0 .. 255
    <3> QED  BY <1>3, <1>4, <2>2, <3>1 DEF KeyTypeOK, Flag
  <2> QED  BY <2>4, <2>5 DEF KeyInv, AnyKey
<1> QED  BY <1>1, <1>6, <1>7, <1>8

(* And of one that comes up. *)
LEMMA ReadComing ==
    ASSUME KeyTypeOK, NEW key \in AnyKey, Coming(key), kbd_proc_data
    PROVE  KeyInv'
<1>1. PICK c \in Code : key = <<c>> \/ key = <<E0, c>>
  BY KeyShape
<1>2. /\ c \in Int /\ c < 128 /\ 0 < c /\ c + 128 # E0
      /\ c \in 0 .. 255 /\ c + 128 \in 0 .. 255
  BY Codes
<1>3. held' = held /\ shift' = Decode(shift, Head(codes)).shift /\ codes' = Tail(codes)
  BY DEF kbd_proc_data
<1>4. shift \in SUBSET Flag /\ held \in SUBSET AnyKey /\ reboots' \in BOOLEAN
  BY DEF KeyTypeOK, kbd_proc_data
<1>5. ASSUME codes = <<c + 128>>, NEW d \in Int,
             d = IF "E0ESC" \in shift THEN c + 128 ELSE c,
             \A m \in Modifier : key \in ModifierKey(m) => m \in shiftcode(d)
      PROVE  KeyInv'
  <2>1. codes' = <<>> /\ shift' = Release(shift, c + 128).shift
    BY <1>2, <1>3, <1>5, DecodeRelease
  <2>2. shift' = shift \ (shiftcode(d) \cup {"E0ESC"})
    <3>1. c + 128 \in Int /\ (c + 128) - 128 = c
      BY <1>2
    <3> QED  BY <1>4, <1>5, <2>1, <3>1, Released
  <2>3. MadeBy(held)'
    <3> SUFFICES ASSUME NEW m \in shift' \cap Modifier PROVE ModifierKey(m) \cap held # {}
      BY <1>3 DEF MadeBy, ModifierKey
    <3>1. ModifierKey(m) \cap (held \cup {key}) # {}
      BY <2>2 DEF Coming, MadeBy
    <3>2. key \notin ModifierKey(m)
      BY <1>5, <2>2
    <3> QED  BY <3>1, <3>2
  <2>4. KeyTypeOK'
    BY <1>3, <1>4, <2>1, <2>2 DEF KeyTypeOK
  <2> QED  BY <1>3, <2>1, <2>2, <2>3, <2>4 DEF KeyInv
<1>6. CASE key = <<c>>
  <2>1. codes = <<c + 128>> /\ "E0ESC" \notin shift
    <3>1. c + 128 \in 0 .. 255
      BY <1>2
    <3> QED  BY <1>6, <3>1, UpShape, UnreadOne DEF Coming
  <2> QED  BY <1>2, <1>5, <1>6, <2>1, PlainMakes
<1>7. CASE key = <<E0, c>> /\ "E0ESC" \in shift
  <2>1. codes = <<c + 128>>
    <3>1. c + 128 \in 0 .. 255
      BY <1>2
    <3> QED  BY <1>7, <3>1, UpShape, UnreadTwo DEF Coming
  <2>2. c + 128 \in Int
    BY <1>2
  <2> QED  BY <1>5, <1>7, <2>1, <2>2, EscapedMakes
<1>8. CASE key = <<E0, c>> /\ "E0ESC" \notin shift
  <2>1. codes = <<E0, c + 128>> /\ Up(key) = <<E0, c + 128>>
    <3>1. c + 128 \in 0 .. 255
      BY <1>2
    <3>2. Up(key) = <<E0, c + 128>>
      BY <1>2, <1>8, UpShape
    <3>3. Unread(<<E0, c + 128>>)
      BY <1>3, <3>2 DEF Coming
    <3>4. codes = <<E0, c + 128>>
      BY <1>8, <3>1, <3>3, UnreadTwo
    <3> QED  BY <3>2, <3>4
  <2>2. codes' = <<c + 128>> /\ shift' = shift \cup {"E0ESC"}
    BY <1>3, <2>1, DecodeEscape
  <2>3. MadeBy(held \cup {key})'
    BY <1>3, <2>2 DEF Coming, MadeBy, Modifier, ModifierKey
  <2>4. Unread(Up(key))'
    BY <2>1, <2>2 DEF Unread
  <2>5. Coming(key)'
    BY <1>3, <2>3, <2>4 DEF Coming
  <2>6. KeyTypeOK'
    <3>1. \A i \in 1 .. Len(codes') : codes'[i] \in 0 .. 255
      <4>1. PICK b \in 0 .. 255 : b = c + 128
        BY <1>2
      <4>2. codes' = <<b>>
        BY ONLY <2>2, <4>1
      <4> QED  BY ONLY <4>2, OneByte, b \in 0 .. 255
    <3> QED  BY <1>3, <1>4, <2>2, <3>1 DEF KeyTypeOK, Flag
  <2> QED  BY <2>5, <2>6 DEF KeyInv, AnyKey
<1> QED  BY <1>1, <1>6, <1>7, <1>8

(* kbd_proc_data: between two keys no escape is pending and a modifier is  *)
(* on only while a key for it is held, whatever keys there are, which are  *)
(* pressed together, and in whatever order they come up.                   *)
THEOREM ModifierTheorem == KeySpec => []NoStuckModifier
<1>1. KeyInit => KeyInv
  <2> SUFFICES ASSUME KeyInit PROVE KeyInv
    OBVIOUS
  <2>1. held = {} /\ codes = <<>> /\ shift = {} /\ reboots = FALSE
    BY DEF KeyInit
  <2>2. \A i \in 1 .. Len(codes) : codes[i] \in 0 .. 255
    <3>1. Len(codes) = 0
      BY <2>1
    <3> QED  BY <3>1
  <2>3. KeyTypeOK
    BY <2>1, <2>2 DEF KeyTypeOK, Flag
  <2> QED  BY <2>1, <2>3 DEF KeyInv, MadeBy
<1>2. KeyInv /\ [KeyNext]_keyboard => KeyInv'
  <2> SUFFICES ASSUME KeyInv, [KeyNext]_keyboard PROVE KeyInv'
    OBVIOUS
  <2>1. CASE KeyDown
    <3>1. PICK key \in AnyKey : held' = held \cup {key} /\ codes' = key
      BY <2>1 DEF KeyDown
    <3>2. codes = <<>> /\ shift' = shift /\ reboots' = reboots
      BY <2>1 DEF KeyDown
    <3>3. "E0ESC" \notin shift /\ MadeBy(held)
      BY <3>2, AllRead DEF KeyInv
    <3>4. KeyTypeOK'
      <4>1. \A i \in 1 .. Len(codes') : codes'[i] \in 0 .. 255
        BY ONLY <3>1, Sent
      <4>2. held' \in SUBSET AnyKey /\ shift' \in SUBSET Flag /\ reboots' \in BOOLEAN
        BY <3>1, <3>2 DEF KeyInv, KeyTypeOK
      <4> QED  BY ONLY <4>1, <4>2 DEF KeyTypeOK
    <3>5. MadeBy(held)'
      BY <3>1, <3>2, <3>3 DEF MadeBy, ModifierKey
    <3>6. Going(key)'
      BY <3>1, <3>2, <3>3, <3>5 DEF Going, Unread
    <3> QED  BY <3>4, <3>6 DEF KeyInv, AnyKey
  <2>2. CASE KeyUp
    <3>1. PICK key \in held : held' = held \ {key} /\ codes' = Up(key)
      BY <2>2 DEF KeyUp
    <3>2. codes = <<>> /\ shift' = shift /\ reboots' = reboots
      BY <2>2 DEF KeyUp
    <3>3. "E0ESC" \notin shift /\ MadeBy(held)
      BY <3>2, AllRead DEF KeyInv
    <3>4. key \in AnyKey
      BY <3>1 DEF KeyInv, KeyTypeOK
    <3>5. KeyTypeOK'
      BY <3>1, <3>2, <3>4, Sent DEF KeyInv, KeyTypeOK
    <3>6. held' \cup {key} = held
      BY <3>1
    <3>7. MadeBy(held \cup {key})'
      BY <3>2, <3>3, <3>6 DEF MadeBy, ModifierKey
    <3>8. Coming(key)'
      BY <3>1, <3>2, <3>3, <3>7 DEF Coming, Unread, Up
    <3> QED  BY <3>4, <3>5, <3>8 DEF KeyInv, AnyKey
  <2>3. CASE kbd_proc_data
    <3>1. codes # <<>> /\ KeyTypeOK
      BY <2>3 DEF kbd_proc_data, KeyInv
    <3>2. (\E key \in AnyKey : Going(key)) \/ (\E key \in AnyKey : Coming(key))
      BY <3>1 DEF KeyInv
    <3> QED  BY <2>3, <3>1, <3>2, ReadGoing, ReadComing
  <2>4. CASE UNCHANGED keyboard
    <3>1. held' = held /\ codes' = codes /\ shift' = shift /\ reboots' = reboots
      BY <2>4 DEF keyboard
    <3>2. \A key \in AnyKey : Going(key) => Going(key)'
      BY <3>1 DEF Going, Unread, MadeBy, ModifierKey
    <3>3. \A key \in AnyKey : Coming(key) => Coming(key)'
      BY <3>1 DEF Coming, Unread, MadeBy, ModifierKey, Up
    <3>4. KeyTypeOK' /\ (MadeBy(held) => MadeBy(held)')
      BY <3>1 DEF KeyInv, KeyTypeOK, MadeBy, ModifierKey
    <3> QED  BY <3>1, <3>2, <3>3, <3>4 DEF KeyInv, AnyKey
  <2> QED  BY <2>1, <2>2, <2>3, <2>4 DEF KeyNext
<1>3. KeyInv => NoStuckModifier
  <2> SUFFICES ASSUME KeyInv, codes = <<>> PROVE "E0ESC" \notin shift /\ MadeBy(held)
    BY DEF NoStuckModifier, MadeBy
  <2> QED  BY AllRead DEF KeyInv
<1> QED  BY <1>1, <1>2, <1>3, PTL DEF KeySpec

-----------------------------------------------------------------------------
(* The monitor's line, for buffers and argument vectors of any size and    *)
(* any characters.                                                         *)

(* Where words begin among the first k characters, and how many. *)
BeginsTo(text, k) == {i \in 1 .. k : ~Gap(text, i) /\ Gap(text, i - 1)}
Count(text, k) == Cardinality(BeginsTo(text, k))

(* i .. j is a word of the first k characters. *)
WordTo(text, k, i, j) ==
    i <= j /\ (j = k \/ Gap(text, j + 1)) /\ \A m \in i .. j : ~Gap(text, m)

(* What parse has when it is behind the first k characters. *)
Words(w, text, k) ==
    /\ w \in Seq(Seq(Printable))
    /\ Len(w) = Count(text, k)
    /\ \A i \in BeginsTo(text, k), j \in 1 .. k :
          WordTo(text, k, i, j) => w[Count(text, i)] = SubSeq(text, i, j)

LEMMA CountType ==
    ASSUME NEW text, NEW k \in Nat
    PROVE  IsFiniteSet(BeginsTo(text, k)) /\ Count(text, k) \in Nat
<1>1. IsFiniteSet(1 .. k) /\ BeginsTo(text, k) \in SUBSET (1 .. k)
  BY FS_Interval DEF BeginsTo
<1>2. IsFiniteSet(BeginsTo(text, k))
  BY <1>1, FS_Subset
<1> QED  BY <1>2, FS_CardinalityType DEF Count

LEMMA CountMonotone ==
    ASSUME NEW text, NEW i \in Nat, NEW k \in Nat, i <= k
    PROVE  Count(text, i) <= Count(text, k)
<1>1. BeginsTo(text, i) \in SUBSET BeginsTo(text, k)
  BY DEF BeginsTo
<1> QED  BY <1>1, CountType, FS_Subset DEF Count

LEMMA CountBegin ==
    ASSUME NEW text, NEW k \in Nat, k # 0, ~Gap(text, k), Gap(text, k - 1)
    PROVE  Count(text, k) = Count(text, k - 1) + 1
<1>1. BeginsTo(text, k) = BeginsTo(text, k - 1) \cup {k} /\ k \notin BeginsTo(text, k - 1)
  BY DEF BeginsTo
<1>2. k - 1 \in Nat
  OBVIOUS
<1> QED  BY <1>1, <1>2, CountType, FS_AddElement DEF Count

(* No word begins inside of one. *)
LEMMA CountInside ==
    ASSUME NEW text, NEW i \in Nat, NEW k \in Nat, i <= k, i # 0,
           \A m \in i .. k : ~Gap(text, m)
    PROVE  Count(text, k) = Count(text, i)
<1>1. ASSUME NEW m \in 1 .. k, m > i PROVE ~Gap(text, m - 1)
  <2>1. m - 1 \in i .. k
    BY <1>1
  <2> QED  BY <2>1
<1>2. BeginsTo(text, k) = BeginsTo(text, i)
  BY <1>1 DEF BeginsTo
<1> QED  BY <1>2 DEF Count

LEMMA CountOther ==
    ASSUME NEW text, NEW k \in Nat, k # 0, Gap(text, k) \/ ~Gap(text, k - 1)
    PROVE  BeginsTo(text, k) = BeginsTo(text, k - 1) /\ Count(text, k) = Count(text, k - 1)
<1>1. BeginsTo(text, k) = BeginsTo(text, k - 1)
  BY DEF BeginsTo
<1> QED  BY <1>1 DEF Count

(* A word begins in front of each character of one. *)
LEMMA BeginOf ==
    ASSUME NEW text, NEW k \in Nat, ~Gap(text, k)
    PROVE  \E b \in BeginsTo(text, k) : \A m \in b .. k : ~Gap(text, m)
<1> DEFINE Back == {d \in Nat : d <= k /\ Gap(text, k - d)}
<1>1. Gap(text, 0) /\ k # 0
  BY DEF Gap
<1>2. k \in Back
  <2>1. k - k = 0
    OBVIOUS
  <2> QED  BY <1>1, <2>1
<1>3. PICK d \in Back : \A e \in Back : d <= e
  BY <1>2, LeastNatural
<1>4. d \in Nat /\ d <= k /\ Gap(text, k - d) /\ d # 0
  <2>1. d \in Nat /\ d <= k /\ Gap(text, k - d)
    BY <1>3
  <2>2. k - 0 = k
    OBVIOUS
  <2> QED  BY <2>1, <2>2
<1>5. PICK b \in Nat : b = k - d + 1
  BY <1>4
<1>6. b - 1 = k - d /\ b \in 1 .. k
  BY <1>4, <1>5
<1>7. ASSUME NEW m \in b .. k PROVE ~Gap(text, m)
  <2>1. k - m \in Nat /\ k - m <= k /\ ~(d <= k - m) /\ k - (k - m) = m
    BY <1>4, <1>5
  <2>2. k - m \notin Back
    BY <1>3, <2>1
  <2> QED  BY <2>1, <2>2
<1>8. ~Gap(text, b) /\ Gap(text, b - 1)
  BY <1>4, <1>6, <1>7
<1> QED  BY <1>6, <1>7, <1>8 DEF BeginsTo

LEMMA OneCharacter ==
    ASSUME NEW text \in Seq(Printable), NEW k \in 1 .. Len(text)
    PROVE  <<text[k]>> \in Seq(Printable) /\ SubSeq(text, k, k) = <<text[k]>>
<1>1. text[k] \in Printable
  BY ElementOfSeq
<1>2. <<text[k]>> \in Seq(Printable) /\ Len(<<text[k]>>) = 1 /\ <<text[k]>>[1] = text[k]
  BY <1>1
<1>3. \A i \in k .. k : text[i] \in Printable
  BY <1>1
<1>4. /\ SubSeq(text, k, k) \in Seq(Printable)
      /\ Len(SubSeq(text, k, k)) = (IF k <= k THEN k - k + 1 ELSE 0)
      /\ \A i \in 1 .. k - k + 1 : SubSeq(text, k, k)[i] = text[k + i - 1]
  BY <1>3, SubSeqProperties
<1>5. Len(SubSeq(text, k, k)) = 1 /\ SubSeq(text, k, k)[1] = text[k]
  <2>1. k - k + 1 = 1 /\ k + 1 - 1 = k
    OBVIOUS
  <2> QED  BY <1>4, <2>1
<1>6. \A i \in 1 .. 1 : SubSeq(text, k, k)[i] = <<text[k]>>[i]
  BY <1>2, <1>5
<1> QED  BY <1>2, <1>4, <1>5, <1>6, SeqEqual

LEMMA OneMore ==
    ASSUME NEW text \in Seq(Printable), NEW k \in 1 .. Len(text), NEW i \in 1 .. Len(text), i < k
    PROVE  /\ SubSeq(text, i, k - 1) \in Seq(Printable)
           /\ Append(SubSeq(text, i, k - 1), text[k]) = SubSeq(text, i, k)
<1>1. Len(text) \in Nat
  BY LenProperties
<1>2. ASSUME NEW m \in i .. k PROVE text[m] \in Printable
  <2>1. m \in 1 .. Len(text)
    BY <1>1
  <2> QED  BY <2>1, ElementOfSeq
<1>3. \A m \in i .. k - 1 : text[m] \in Printable
  BY <1>2
<1> DEFINE a == SubSeq(text, i, k - 1)
           b == SubSeq(text, i, k)
<1>4. /\ a \in Seq(Printable)
      /\ Len(a) = (IF i <= k - 1 THEN (k - 1) - i + 1 ELSE 0)
      /\ \A m \in 1 .. (k - 1) - i + 1 : a[m] = text[i + m - 1]
  BY <1>3, SubSeqProperties
<1>5. /\ b \in Seq(Printable)
      /\ Len(b) = (IF i <= k THEN k - i + 1 ELSE 0)
      /\ \A m \in 1 .. k - i + 1 : b[m] = text[i + m - 1]
  BY <1>2, SubSeqProperties
<1> HIDE DEF a, b
<1>6. Len(a) = k - i /\ Len(b) = k - i + 1
  BY <1>4, <1>5
<1>7. text[k] \in Printable
  BY <1>2
<1>8. /\ Append(a, text[k]) \in Seq(Printable) /\ Len(Append(a, text[k])) = Len(a) + 1
      /\ \A m \in 1 .. Len(a) : Append(a, text[k])[m] = a[m]
      /\ Append(a, text[k])[Len(a) + 1] = text[k]
  BY <1>4, <1>7, AppendProperties
<1>9. ASSUME NEW m \in 1 .. Len(b) PROVE Append(a, text[k])[m] = b[m]
  <2>1. CASE m = k - i + 1
    <3>1. i + m - 1 = k
      BY <2>1
    <3> QED  BY <1>5, <1>6, <1>8, <2>1, <3>1
  <2>2. CASE m # k - i + 1
    <3>1. m \in 1 .. Len(a) /\ m \in 1 .. (k - 1) - i + 1 /\ m \in 1 .. k - i + 1
      BY <1>6, <2>2
    <3> QED  BY <1>4, <1>5, <1>8, <3>1
  <2> QED  BY <2>1, <2>2
<1>10. Append(a, text[k]) = b
  BY <1>5, <1>6, <1>8, <1>9, SeqEqual
<1> QED  BY <1>4, <1>10 DEF a, b

(* A blank. *)
LEMMA PassBlank ==
    ASSUME NEW text \in Seq(Printable), NEW k \in 1 .. Len(text), NEW w, Words(w, text, k - 1),
           Gap(text, k)
    PROVE  Words(w, text, k)
<1>1. Len(text) \in Nat /\ k \in Nat /\ k # 0
  BY LenProperties
<1>2. BeginsTo(text, k) = BeginsTo(text, k - 1) /\ Count(text, k) = Count(text, k - 1)
  BY <1>1, CountOther
<1>3. ASSUME NEW i \in BeginsTo(text, k), NEW j \in 1 .. k, WordTo(text, k, i, j)
      PROVE  w[Count(text, i)] = SubSeq(text, i, j)
  <2>1. i \in Nat /\ j \in i .. j
    BY <1>3 DEF BeginsTo, WordTo
  <2>2. j # k
    BY <1>3, <2>1 DEF WordTo
  <2>3. j \in 1 .. k - 1 /\ WordTo(text, k - 1, i, j)
    BY <1>1, <1>3, <2>2 DEF WordTo
  <2> QED  BY <1>2, <1>3, <2>3 DEF Words
<1> QED  BY <1>2, <1>3 DEF Words

(* The first character of a word. *)
LEMMA NewWord ==
    ASSUME NEW text \in Seq(Printable), NEW k \in 1 .. Len(text), NEW w, Words(w, text, k - 1),
           ~Gap(text, k), Gap(text, k - 1)
    PROVE  Words(Append(w, <<text[k]>>), text, k)
<1>1. Len(text) \in Nat /\ k \in Nat /\ k # 0 /\ k - 1 \in Nat
  BY LenProperties
<1>2. <<text[k]>> \in Seq(Printable) /\ SubSeq(text, k, k) = <<text[k]>>
  BY OneCharacter
<1>3. w \in Seq(Seq(Printable)) /\ Len(w) = Count(text, k - 1)
  BY DEF Words
<1> DEFINE v == Append(w, <<text[k]>>)
<1>4. /\ v \in Seq(Seq(Printable)) /\ Len(v) = Len(w) + 1
      /\ \A n \in 1 .. Len(w) : v[n] = w[n]
      /\ v[Len(w) + 1] = <<text[k]>>
  BY <1>2, <1>3, AppendProperties
<1> HIDE DEF v
<1>5. Count(text, k) = Count(text, k - 1) + 1
  BY <1>1, CountBegin
<1>6. ASSUME NEW i \in BeginsTo(text, k), NEW j \in 1 .. k, WordTo(text, k, i, j)
      PROVE  v[Count(text, i)] = SubSeq(text, i, j)
  <2>1. i \in 1 .. k /\ i <= j /\ ~Gap(text, i) /\ Gap(text, i - 1) /\ \A m \in i .. j : ~Gap(text, m)
    BY <1>6 DEF BeginsTo, WordTo
  <2>2. CASE i = k
    <3>1. j = k
      BY <2>1, <2>2
    <3> QED  BY <1>2, <1>3, <1>4, <1>5, <2>2, <3>1
  <2>3. CASE i # k
    <3>1. j # k
      <4>1. k - 1 \in i .. k
        BY <1>1, <2>1, <2>3
      <4> QED  BY <2>1, <4>1
    <3>2. i \in BeginsTo(text, k - 1) /\ j \in 1 .. k - 1 /\ WordTo(text, k - 1, i, j)
      BY <1>1, <1>6, <2>1, <2>3, <3>1 DEF BeginsTo, WordTo
    <3>3. w[Count(text, i)] = SubSeq(text, i, j)
      BY <3>2 DEF Words
    <3>4. Count(text, i) \in 1 .. Len(w)
      <4>1. i \in Nat /\ i # 0 /\ i <= k - 1 /\ i - 1 \in Nat
        BY <1>1, <2>1, <2>3
      <4>2. Count(text, i) = Count(text, i - 1) + 1
        BY <2>1, <4>1, CountBegin
      <4>3. Count(text, i - 1) \in Nat /\ Count(text, k - 1) \in Nat
        BY <1>1, <4>1, CountType
      <4>4. Count(text, i) <= Count(text, k - 1)
        BY <1>1, <4>1, CountMonotone
      <4> QED  BY <1>3, <4>2, <4>3, <4>4
    <3> QED  BY <1>4, <3>3, <3>4
  <2> QED  BY <2>2, <2>3
<1>7. Words(v, text, k)
  BY <1>3, <1>4, <1>5, <1>6 DEF Words
<1> QED  BY <1>7 DEF v

(* Another one. *)
LEMMA LongerWord ==
    ASSUME NEW text \in Seq(Printable), NEW k \in 1 .. Len(text), NEW w, Words(w, text, k - 1),
           ~Gap(text, k), ~Gap(text, k - 1)
    PROVE  Words([w EXCEPT ![Len(w)] = Append(w[Len(w)], text[k])], text, k)
<1>1. Len(text) \in Nat /\ k \in Nat /\ k # 0 /\ k - 1 \in Nat /\ k - 1 # 0
  <2>1. Gap(text, 0)
    BY DEF Gap
  <2>2. Len(text) \in Nat
    BY LenProperties
  <2>3. k - 1 # 0
    BY <2>1
  <2> QED  BY <2>2, <2>3
<1>2. w \in Seq(Seq(Printable)) /\ Len(w) = Count(text, k - 1)
  BY DEF Words
<1>3. Count(text, k) = Count(text, k - 1) /\ BeginsTo(text, k) = BeginsTo(text, k - 1)
  BY <1>1, CountOther
<1>4. PICK b \in BeginsTo(text, k - 1) : \A m \in b .. k - 1 : ~Gap(text, m)
  BY <1>1, BeginOf
<1>5. b \in Nat /\ b # 0 /\ b <= k - 1 /\ ~Gap(text, b) /\ Gap(text, b - 1) /\ b - 1 \in Nat
  BY <1>1, <1>4 DEF BeginsTo
<1>6. Count(text, b) = Len(w)
  BY <1>1, <1>2, <1>4, <1>5, CountInside
<1>7. Len(w) \in 1 .. Len(w) /\ Count(text, b - 1) = Len(w) - 1
  <2>1. Count(text, b) = Count(text, b - 1) + 1 /\ Count(text, b - 1) \in Nat
    BY <1>5, CountBegin, CountType
  <2> QED  BY <1>6, <2>1
<1>8. w[Len(w)] \in Seq(Printable)
  BY <1>2, <1>7, ElementOfSeq
<1>9. Append(w[Len(w)], text[k]) \in Seq(Printable)
  <2>1. text[k] \in Printable
    BY ElementOfSeq
  <2> QED  BY <1>8, <2>1, AppendProperties
<1> DEFINE v == [w EXCEPT ![Len(w)] = Append(w[Len(w)], text[k])]
<1>10. /\ v \in Seq(Seq(Printable)) /\ Len(v) = Len(w)
       /\ \A n \in 1 .. Len(w) : v[n] = IF n = Len(w) THEN Append(w[Len(w)], text[k]) ELSE w[n]
  BY <1>2, <1>7, <1>9, ExceptSeq
<1> HIDE DEF v
<1>11. ASSUME NEW i \in BeginsTo(text, k), NEW j \in 1 .. k, WordTo(text, k, i, j)
       PROVE  v[Count(text, i)] = SubSeq(text, i, j)
  <2>1. i \in BeginsTo(text, k - 1)
    BY <1>3
  <2>2. /\ i \in Nat /\ i # 0 /\ i <= k - 1 /\ i <= j /\ ~Gap(text, i) /\ Gap(text, i - 1) /\ i - 1 \in Nat
        /\ \A m \in i .. j : ~Gap(text, m)
    BY <1>1, <1>11, <2>1 DEF BeginsTo, WordTo
  <2>3. CASE j = k
    <3>1. \A m \in i .. k - 1 : ~Gap(text, m)
      BY <1>1, <2>2, <2>3
    <3>2. Count(text, i) = Len(w)
      BY <1>1, <1>2, <2>2, <3>1, CountInside
    <3>3. k - 1 \in 1 .. k - 1 /\ WordTo(text, k - 1, i, k - 1)
      BY <1>1, <2>2, <3>1 DEF WordTo
    <3>4. w[Len(w)] = SubSeq(text, i, k - 1)
      BY <2>1, <3>2, <3>3 DEF Words
    <3>5. i \in 1 .. Len(text) /\ i < k
      BY <1>1, <2>2
    <3>6. Append(SubSeq(text, i, k - 1), text[k]) = SubSeq(text, i, k)
      BY <3>5, OneMore
    <3> QED  BY <1>7, <1>10, <2>3, <3>2, <3>4, <3>6
  <2>4. CASE j # k
    <3>1. Gap(text, j + 1) /\ j + 1 \in 1 .. k
      BY <1>11, <2>4 DEF WordTo
    <3>2. j + 1 # k /\ j + 1 \in 1 .. k - 1
      BY <1>1, <3>1
    <3>3. j + 1 < b
      <4>1. j + 1 \notin b .. k - 1
        BY <1>4, <3>1
      <4> QED  BY <1>5, <3>2, <4>1
    <3>4. w[Count(text, i)] = SubSeq(text, i, j)
      <4>1. j \in 1 .. k - 1 /\ WordTo(text, k - 1, i, j)
        BY <1>1, <1>11, <2>4, <3>2 DEF WordTo
      <4> QED  BY <2>1, <4>1 DEF Words
    <3>5. Count(text, i) \in 1 .. Len(w) /\ Count(text, i) # Len(w)
      <4>1. i <= b - 1
        BY <1>5, <2>2, <3>3
      <4>2. Count(text, i) <= Count(text, b - 1)
        BY <1>5, <2>2, <4>1, CountMonotone
      <4>3. Count(text, i) = Count(text, i - 1) + 1 /\ Count(text, i - 1) \in Nat
        BY <2>2, CountBegin, CountType
      <4> QED  BY <1>7, <4>2, <4>3
    <3> QED  BY <1>10, <3>4, <3>5
  <2> QED  BY <2>3, <2>4
<1>12. Words(v, text, k)
  BY <1>2, <1>3, <1>10, <1>11 DEF Words
<1> QED  BY <1>12 DEF v

LEMMA NextCharacter ==
    ASSUME NEW text \in Seq(Printable), NEW k \in 1 .. Len(text), NEW w, Words(w, text, k - 1)
    PROVE  Words(Parsed(w, text, k), text, k)
<1>1. CASE Gap(text, k)
  BY <1>1, PassBlank DEF Parsed
<1>2. CASE ~Gap(text, k) /\ Gap(text, k - 1)
  BY <1>2, NewWord DEF Parsed
<1>3. CASE ~Gap(text, k) /\ ~Gap(text, k - 1)
  BY <1>3, LongerWord DEF Parsed
<1> QED  BY <1>1, <1>2, <1>3

-----------------------------------------------------------------------------
(* The recursive function of parse, up to m, exists. *)
Parsing(y, text, m) ==
    y = [i \in 0 .. m |-> IF i = 0 THEN <<>> ELSE Parsed(y[i - 1], text, i)]

LEMMA ParsingExists ==
    ASSUME NEW text, NEW m \in Nat
    PROVE  \E y : Parsing(y, text, m)
<1> DEFINE Bad == {k \in Nat : ~ \E y : Parsing(y, text, k)}
<1> SUFFICES ASSUME Bad # {} PROVE FALSE
  OBVIOUS
<1>1. PICK k \in Bad : \A j \in Bad : k <= j
  BY LeastNatural
<1>2. k # 0
  <2> DEFINE z == [i \in 0 .. 0 |-> <<>>]
  <2>1. z = [i \in 0 .. 0 |-> IF i = 0 THEN <<>> ELSE Parsed(z[i - 1], text, i)]
    OBVIOUS
  <2>2. Parsing(z, text, 0)
    BY <2>1 DEF Parsing
  <2> QED  BY <2>2
<1>3. k - 1 \in Nat /\ k - 1 \notin Bad /\ k \in Nat
  BY <1>1, <1>2
<1>4. PICK y : Parsing(y, text, k - 1)
  BY <1>3
<1> DEFINE Newest == Parsed(y[k - 1], text, k)
           z == [i \in 0 .. k |-> IF i = k THEN Newest ELSE y[i]]
<1>5. ASSUME NEW i \in 0 .. k
      PROVE  z[i] = IF i = 0 THEN <<>> ELSE Parsed(z[i - 1], text, i)
  <2>1. CASE i = k
    <3>1. z[i] = Newest /\ z[k - 1] = y[k - 1]
      BY <2>1, <1>2, <1>3
    <3> QED  BY <3>1, <2>1, <1>2
  <2>2. CASE i # k
    <3>1. i \in 0 .. (k - 1) /\ z[i] = y[i]
      BY <2>2, <1>3
    <3>2. y[i] = IF i = 0 THEN <<>> ELSE Parsed(y[i - 1], text, i)
      BY <3>1, <1>4 DEF Parsing
    <3>3. i # 0 => z[i - 1] = y[i - 1]
      BY <3>1, <1>3
    <3> QED  BY <3>1, <3>2, <3>3
  <2> QED  BY <2>1, <2>2
<1> HIDE DEF Newest
<1>6. Parsing(z, text, k)
  BY <1>5 DEF Parsing
<1> HIDE DEF z
<1> QED  BY <1>1, <1>6

(* parse gives the words of the line, in their order. *)
LEMMA ParseWords ==
    ASSUME NEW text \in Seq(Printable)
    PROVE  Words(parse(text), text, Len(text))
<1> DEFINE y == CHOOSE z : Parsing(z, text, Len(text))
<1>1. Len(text) \in Nat
  BY LenProperties
<1>2. Parsing(y, text, Len(text))
  BY <1>1, ParsingExists
<1>3. parse(text) = y[Len(text)]
  BY DEF parse, Parsing
<1> HIDE DEF y
<1> DEFINE Bad == {k \in Nat : k <= Len(text) /\ ~Words(y[k], text, k)}
<1>4. ASSUME Bad # {} PROVE FALSE
  <2>1. PICK k \in Bad : \A j \in Bad : k <= j
    BY <1>4, LeastNatural
  <2>2. k \in Nat /\ k <= Len(text) /\ ~Words(y[k], text, k)
    OBVIOUS
  <2>3. k # 0
    <3>1. y[0] = <<>>
      BY <1>1, <1>2 DEF Parsing
    <3>2. BeginsTo(text, 0) = {}
      BY DEF BeginsTo
    <3>3. <<>> \in Seq(Seq(Printable)) /\ Len(<<>>) = 0 /\ Count(text, 0) = 0
      BY <3>2, EmptySeq, FS_EmptySet DEF Count
    <3>4. Words(<<>>, text, 0)
      BY <3>2, <3>3 DEF Words
    <3> QED  BY <2>2, <3>1, <3>4
  <2>4. k - 1 \in Nat /\ k - 1 <= Len(text) /\ ~(k <= k - 1) /\ k \in 1 .. Len(text)
    BY <1>1, <2>2, <2>3
  <2>5. Words(y[k - 1], text, k - 1)
    <3>1. k - 1 \notin Bad
      BY <2>1, <2>4
    <3> QED  BY <2>4, <3>1
  <2>6. y[k] = Parsed(y[k - 1], text, k)
    BY <1>1, <1>2, <2>2, <2>3 DEF Parsing
  <2> QED  BY <2>2, <2>4, <2>5, <2>6, NextCharacter
<1>5. Words(y[Len(text)], text, Len(text))
  BY <1>1, <1>4
<1> QED  BY <1>3, <1>5

-----------------------------------------------------------------------------
LineInv ==
    /\ stored \in Seq(Printable) /\ row = stored /\ Len(stored) < BUFSIZE
    /\ last \in Seq(Printable) /\ Words(argv, last, Len(last))
    /\ Len(argv) <= MAXARGS => called = runcmd(argv)

LEMMA LineInitially == MonInit => LineInv
<1> SUFFICES ASSUME MonInit PROVE LineInv
  OBVIOUS
<1>1. stored = <<>> /\ row = <<>> /\ last = <<>> /\ argv = <<>> /\ called = NoCommand
  BY DEF MonInit
<1>2. <<>> \in Seq(Printable) /\ <<>> \in Seq(Seq(Printable)) /\ Len(<<>>) = 0
  BY EmptySeq
<1>3. BeginsTo(<<>>, 0) = {}
  BY DEF BeginsTo
<1>4. Count(<<>>, 0) = 0
  BY <1>3, FS_EmptySet DEF Count
<1>5. Words(<<>>, <<>>, 0)
  BY <1>2, <1>3, <1>4 DEF Words
<1>6. runcmd(<<>>) = NoCommand
  BY DEF runcmd
<1>7. 0 < BUFSIZE
  BY MonitorAssumption
<1> QED  BY <1>1, <1>2, <1>5, <1>6, <1>7 DEF LineInv

LEMMA LineStep == LineInv /\ [MonNext]_monitor => LineInv'
<1> SUFFICES ASSUME LineInv, [MonNext]_monitor PROVE LineInv'
  OBVIOUS
<1>1. /\ stored \in Seq(Printable) /\ Len(stored) \in Nat /\ BUFSIZE \in Nat
      /\ row = stored /\ Len(stored) < BUFSIZE
  BY MonitorAssumption, LenProperties DEF LineInv
<1>2. ASSUME stored' \in Seq(Printable), row' = stored', Len(stored') < BUFSIZE,
             last' = last, argv' = argv, called' = called
      PROVE  LineInv'
  <2>1. Words(argv, last, Len(last))' /\ (Len(argv) <= MAXARGS => called = runcmd(argv))'
    BY <1>2 DEF LineInv
  <2> QED  BY <1>2, <2>1 DEF LineInv
<1>3. ASSUME line' = line PROVE LineInv'
  <2>1. stored' = stored /\ row' = row /\ last' = last /\ argv' = argv /\ called' = called
    BY <1>3 DEF line
  <2> QED  BY <1>1, <1>2, <2>1
<1>4. CASE Interrupted \/ Return \/ PanicFirst \/ PanicAgain \/ PanicDead
  BY <1>3, <1>4 DEF Interrupted, Return, PanicFirst, PanicAgain, PanicDead
<1>5. ASSUME NEW c \in Typed, ReadChar(c) PROVE LineInv'
  <2>1. c \in Printable /\ last' = last /\ argv' = argv /\ called' = called
    BY <1>5 DEF ReadChar
  <2>2. CASE Len(stored) < BUFSIZE - 1
    <3>1. stored' = Append(stored, c) /\ row' = Append(row, c)
      BY <1>5, <2>2 DEF ReadChar
    <3>2. Append(stored, c) \in Seq(Printable) /\ Len(Append(stored, c)) = Len(stored) + 1
      BY <1>1, <2>1, AppendProperties
    <3>3. stored' \in Seq(Printable) /\ row' = stored' /\ Len(stored') < BUFSIZE
      BY <1>1, <2>2, <3>1, <3>2
    <3> QED  BY <1>2, <2>1, <3>3
  <2>3. CASE ~(Len(stored) < BUFSIZE - 1)
    <3>1. stored' = stored /\ row' = row
      BY <1>5, <2>3 DEF ReadChar
    <3> QED  BY <1>1, <1>2, <2>1, <3>1
  <2> QED  BY <2>2, <2>3
<1>6. ASSUME NEW c \in Typed, ReadBackspace(c) PROVE LineInv'
  <2>1. last' = last /\ argv' = argv /\ called' = called
    BY <1>6 DEF ReadBackspace
  <2>2. CASE Len(stored) > 0
    <3>1. stored' = SubSeq(stored, 1, Len(stored) - 1) /\ row' = SubSeq(row, 1, Len(row) - 1)
      BY <1>6, <2>2 DEF ReadBackspace
    <3>2. \A i \in 1 .. Len(stored) - 1 : stored[i] \in Printable
      BY <1>1, ElementOfSeq
    <3>3. /\ SubSeq(stored, 1, Len(stored) - 1) \in Seq(Printable)
          /\ Len(SubSeq(stored, 1, Len(stored) - 1)) =
                (IF 1 <= Len(stored) - 1 THEN (Len(stored) - 1) - 1 + 1 ELSE 0)
      BY <1>1, <3>2, SubSeqProperties
    <3>4. stored' \in Seq(Printable) /\ row' = stored' /\ Len(stored') < BUFSIZE
      BY <1>1, <2>2, <3>1, <3>3
    <3> QED  BY <1>2, <2>1, <3>4
  <2>3. CASE ~(Len(stored) > 0)
    <3>1. stored' = stored /\ row' = row
      BY <1>6, <2>3 DEF ReadBackspace
    <3> QED  BY <1>1, <1>2, <2>1, <3>1
  <2> QED  BY <2>2, <2>3
<1>7. ASSUME NEW c \in Typed, ReadOther(c) PROVE LineInv'
  BY <1>3, <1>7 DEF ReadOther, monitor
<1>8. ASSUME NEW c \in Typed, RunLine(c) PROVE LineInv'
  <2>1. /\ last' = stored /\ argv' = parse(stored) /\ stored' = <<>> /\ row' = <<>>
        /\ Len(parse(stored)) <= MAXARGS => called' = runcmd(parse(stored))
    BY <1>8 DEF RunLine
  <2>2. Words(parse(stored), stored, Len(stored))
    BY <1>1, ParseWords
  <2>3. <<>> \in Seq(Printable) /\ Len(<<>>) = 0
    BY EmptySeq
  <2>4. Words(argv, last, Len(last))'
    BY <2>1, <2>2
  <2>5. (Len(argv) <= MAXARGS => called = runcmd(argv))'
    BY <2>1
  <2> QED  BY <1>1, <2>1, <2>3, <2>4, <2>5 DEF LineInv
<1>9. CASE UNCHANGED monitor
  BY <1>3, <1>9 DEF monitor
<1> QED  BY <1>4, <1>5, <1>6, <1>7, <1>8, <1>9 DEF MonNext, Kmonitor

(* readline and kmonitor, for every size of the line buffer and of argv,   *)
(* every alphabet and every set of commands: the buffer is what stands on  *)
(* the screen and never full to its last byte; argv has the words of the   *)
(* line that was run, each whole and in their order; and if they are not   *)
(* too many, the command is the one the first of them names.               *)
THEOREM LineTheorem == MonSpec => []LineRun
<1>1. LineInv => LineRun
  <2> SUFFICES ASSUME LineInv PROVE LineRun
    OBVIOUS
  <2>1. last \in Seq(Printable) /\ Len(last) \in Nat
    BY LenProperties DEF LineInv
  <2>2. Begins = BeginsTo(last, Len(last))
    BY DEF Begins, BeginsTo
  <2>3. Len(argv) = Cardinality(Begins)
    BY <2>2 DEF LineInv, Words, Count
  <2>4. ASSUME NEW i \in Begins, NEW j \in 1 .. Len(last), IsWord(i, j)
        PROVE  argv[Cardinality({b \in Begins : b <= i})] = SubSeq(last, i, j)
    <3>1. {b \in Begins : b <= i} = BeginsTo(last, i)
      BY <2>1 DEF Begins, BeginsTo
    <3>2. i \in BeginsTo(last, Len(last)) /\ WordTo(last, Len(last), i, j)
      BY <2>2, <2>4 DEF IsWord, WordTo
    <3>3. argv[Count(last, i)] = SubSeq(last, i, j)
      BY <3>2 DEF LineInv, Words
    <3> QED  BY <3>1, <3>3 DEF Count
  <2>5. Len(argv) \in 1 .. MAXARGS => called = IF argv[1] \in commands THEN argv[1] ELSE NoCommand
    <3> SUFFICES ASSUME Len(argv) \in 1 .. MAXARGS
                 PROVE  called = IF argv[1] \in commands THEN argv[1] ELSE NoCommand
      OBVIOUS
    <3>1. argv # <<>>
      <4>1. Len(<<>>) = 0 /\ Len(argv) # 0
        BY EmptySeq
      <4> QED  BY <4>1
    <3>2. Len(argv) <= MAXARGS
      BY MonitorAssumption
    <3> QED  BY <3>1, <3>2 DEF LineInv, runcmd
  <2> QED  BY <2>3, <2>4, <2>5 DEF LineInv, LineRun
<1> QED  BY <1>1, LineInitially, LineStep, PTL DEF MonSpec

(* Who runs, and that interrupts are off where they must be. *)
PanicInv ==
    /\ main \in {"run", "printing", "monitor"}
    /\ handler \in {"none", "run", "printing", "monitor"}
    /\ handler # "none" => main # "monitor"
    /\ Active = "monitor" => ~intr

(* __panic and kmonitor: the monitor keeps the machine, by every step.     *)
(* Interrupts are off in it, nothing returns from it and nothing comes     *)
(* between: the part of PanicReachesMonitor behind its "leads to".         *)
THEOREM MonitorStays ==
    MonSpec => [][Active = "monitor" => Active' = "monitor" /\ ~intr /\ ~intr']_monitor
<1>1. MonInit => PanicInv
  BY DEF MonInit, PanicInv, Active
<1>2. PanicInv /\ [MonNext]_monitor =>
          PanicInv' /\ (Active = "monitor" => Active' = "monitor" /\ ~intr /\ ~intr')
  <2> SUFFICES ASSUME PanicInv, [MonNext]_monitor
               PROVE  PanicInv' /\ (Active = "monitor" => Active' = "monitor" /\ ~intr /\ ~intr')
    OBVIOUS
  <2> USE DEF PanicInv, Active
  <2>1. CASE Interrupted
    BY <2>1 DEF Interrupted
  <2>2. CASE Return
    BY <2>2 DEF Return
  <2>3. CASE PanicFirst
    BY <2>3 DEF PanicFirst, Goes
  <2>4. CASE PanicAgain
    BY <2>4 DEF PanicAgain, Goes
  <2>5. CASE PanicDead
    BY <2>5 DEF PanicDead, Goes
  <2>6. CASE Kmonitor
    BY <2>6 DEF Kmonitor, ReadChar, ReadBackspace, ReadOther, RunLine, monitor
  <2>7. CASE UNCHANGED monitor
    BY <2>7 DEF monitor
  <2> QED  BY <2>1, <2>2, <2>3, <2>4, <2>5, <2>6, <2>7 DEF MonNext
<1> QED  BY <1>1, <1>2, PTL DEF MonSpec

-----------------------------------------------------------------------------
(* The debug entries.  The greatest and the least of a set of numbers.     *)
LEMMA GreatestIs ==
  ASSUME NEW S \in SUBSET Int, NEW m \in S, \A k \in S : k <= m
  PROVE  Max(S) = m
<1>1. Max(S) \in S /\ \A k \in S : Max(S) >= k
  <2>1. \E x \in S : \A k \in S : x >= k
    OBVIOUS
  <2> QED  BY <2>1 DEF Max
<1>2. PICK x \in Int : x = Max(S) /\ x <= m /\ x >= m
  BY <1>1
<1> QED  BY <1>2

LEMMA LeastIs ==
  ASSUME NEW S \in SUBSET Int, NEW m \in S, \A k \in S : m <= k
  PROVE  Min(S) = m
<1>1. Min(S) \in S /\ \A k \in S : Min(S) <= k
  <2>1. \E x \in S : \A k \in S : x <= k
    OBVIOUS
  <2> QED  BY <2>1 DEF Min
<1>2. PICK x \in Int : x = Min(S) /\ x <= m /\ x >= m
  BY <1>1
<1> QED  BY <1>2

LEMMA Greatest ==
  ASSUME NEW S \in SUBSET Int, S # {}, NEW b \in Int, \A k \in S : k <= b
  PROVE  \E m \in S : Max(S) = m /\ \A k \in S : k <= m
<1> DEFINE D == {b - k : k \in S}
<1>1. D \in SUBSET Nat /\ D # {}
  <2>1. \A k \in S : b - k \in Nat
    OBVIOUS
  <2> QED  BY <2>1
<1>2. PICK d \in D : \A x \in D : d <= x
  BY ONLY <1>1, LeastNatural
<1>3. PICK m \in S : d = b - m
  BY <1>2
<1>4. ASSUME NEW k \in S PROVE k <= m
  <2>1. d <= b - k
    BY <1>2
  <2> QED  BY <1>3, <2>1
<1> QED  BY <1>4, GreatestIs

LEMMA Least ==
  ASSUME NEW S \in SUBSET Int, S # {}, NEW b \in Int, \A k \in S : b <= k
  PROVE  \E m \in S : Min(S) = m /\ \A k \in S : m <= k
<1> DEFINE D == {k - b : k \in S}
<1>1. D \in SUBSET Nat /\ D # {}
  <2>1. \A k \in S : k - b \in Nat
    OBVIOUS
  <2> QED  BY <2>1
<1>2. PICK d \in D : \A x \in D : d <= x
  BY ONLY <1>1, LeastNatural
<1>3. PICK m \in S : d = m - b
  BY <1>2
<1>4. ASSUME NEW k \in S PROVE m <= k
  <2>1. d <= k - b
    BY <1>2
  <2> QED  BY <1>3, <2>1
<1> QED  BY <1>4, LeastIs

(* stab_binsearch walks back to an entry of the type, or in front of l. *)
LEMMA LatestIs ==
  ASSUME NEW t, NEW type, NEW l \in Int, NEW m \in Int, l - 1 <= m
  PROVE  \E x \in Int : /\ x = Latest(t, l, m, type) /\ l - 1 <= x /\ x <= m
                        /\ l <= x => t[x].n_type = type
                        /\ \A k \in Int : l <= k /\ k <= m /\ t[k].n_type = type => k <= x
<1> DEFINE E == {k \in l .. m : t[k].n_type = type}
           S == {l - 1} \cup E
<1>1. S \in SUBSET Int /\ S # {} /\ \A k \in S : k <= m
  OBVIOUS
<1>2. PICK x \in S : Max(S) = x /\ \A k \in S : k <= x
  BY ONLY <1>1, Greatest, m \in Int
<1>3. x \in Int /\ l - 1 <= x /\ x <= m
  BY <1>1, <1>2
<1>4. l <= x => t[x].n_type = type
  OBVIOUS
<1>5. ASSUME NEW k \in Int, l <= k, k <= m, t[k].n_type = type PROVE k <= x
  <2>1. k \in S
    BY <1>5
  <2> QED  BY <1>2, <2>1
<1> QED  BY <1>2, <1>3, <1>4, <1>5 DEF Latest

(* Where the search is: what has been seen lies below l or above r, and    *)
(* left is the latest entry below l, or an exact hit at l.                 *)
Searching == [l : Int, r : Int, left : Int, right : Int, addr : Int, any_matches : BOOLEAN]

Hit(s, t, type) == t[s.l].n_type = type /\ t[s.l].n_value < s.addr

SeenInv(s, t, i, j, type, a) ==
    /\ s \in Searching
    /\ i <= s.l /\ s.l <= s.r + 1 /\ s.r <= j /\ s.right = s.r /\ a <= s.addr
    /\ s.r = j \/ s.r + 1 \in Starts(t, i, j, type)
    /\ \A k \in Starts(t, i, j, type) :
          /\ k < s.l => t[k].n_value < s.addr
          /\ s.r < k => a < t[k].n_value
    /\ s.any_matches => Starts(t, i, j, type) # {}
    /\ ~s.any_matches => s.r = j /\ s.left = i /\ \A k \in Starts(t, i, j, type) : s.l <= k

LeftInv(s, t, i, j, type) ==
    \/ s.left = s.l /\ s.l <= s.r /\ Hit(s, t, type)
    \/ s.left = i /\ \A k \in Starts(t, i, j, type) : s.l <= k
    \/ /\ s.left \in Starts(t, i, j, type) /\ s.left < s.l
       /\ \A k \in Starts(t, i, j, type) : k < s.l => k <= s.left

StepInv(s, t, i, j, type, a) ==
    Stepped(t, i, j, type, a) \/ s.addr = a
        \/ (s.addr = a + 1 /\ \E k \in Starts(t, i, j, type) : t[k].n_value = a)

SearchInv(s, t, i, j, type, a) ==
    SeenInv(s, t, i, j, type, a) /\ LeftInv(s, t, i, j, type) /\ StepInv(s, t, i, j, type, a)

(* What is left to do: two turns for an entry, one after an exact hit. *)
Left(s, t, type) == 2 * (s.r - s.l + 1) + (IF Hit(s, t, type) THEN 0 ELSE 1)

(* A turn with its middle c and the entry m it comes to. *)
ToLeft(s, m, c) == [s EXCEPT !.any_matches = TRUE, !.left = m, !.l = c]
ToRight(s, m) == [s EXCEPT !.any_matches = TRUE, !.right = m - 1, !.r = m - 1]
ToHit(s, m, a) == [s EXCEPT !.any_matches = TRUE, !.left = m, !.l = m, !.addr = a]
TurnTo(n, s, t, c, m) ==
    \/ m < s.l /\ n = [s EXCEPT !.l = c + 1]
    \/ s.l <= m /\ t[m].n_value < s.addr /\ n = ToLeft(s, m, c + 1)
    \/ s.l <= m /\ t[m].n_value > s.addr /\ n = ToRight(s, m)
    \/ s.l <= m /\ t[m].n_value = s.addr /\ n = ToHit(s, m, s.addr + 1)

LEMMA TurnIs ==
  ASSUME NEW s \in Searching, NEW t, NEW type, s.l <= s.r,
         \A k \in Int : s.l <= k /\ k <= s.r => t[k].n_value \in Int
  PROVE  \E c \in Int, m \in Int :
            /\ s.l <= c /\ c <= s.r /\ s.l - 1 <= m /\ m <= c
            /\ s.l <= m => t[m].n_type = type /\ t[m].n_value \in Int
            /\ \A k \in Int : s.l <= k /\ k <= c /\ t[k].n_type = type => k <= m
            /\ TurnTo(Turn(t, s, type), s, t, c, m)
<1>1. PICK l, r, a \in Int : l = s.l /\ r = s.r /\ a = s.addr
  BY DEF Searching
<1>2. PICK c \in Int : c = (l + r) \div 2 /\ l <= c /\ c <= r
  <2>1. (l + r) \div 2 \in Int /\ l <= (l + r) \div 2 /\ (l + r) \div 2 <= r
    BY <1>1
  <2> QED  BY <2>1
<1>3. PICK m \in Int : /\ m = Latest(t, l, c, type) /\ l - 1 <= m /\ m <= c
                       /\ l <= m => t[m].n_type = type
                       /\ \A k \in Int : l <= k /\ k <= c /\ t[k].n_type = type => k <= m
  BY <1>2, LatestIs
<1>4. l <= m => t[m].n_value \in Int
  BY <1>1, <1>2, <1>3
<1> DEFINE seen == [s EXCEPT !.any_matches = TRUE]
<1>5. Turn(t, s, type) =
         IF l > r THEN s
         ELSE CASE m < l -> [s EXCEPT !.l = c + 1]
                [] l <= m /\ t[m].n_value < a -> [seen EXCEPT !.left = m, !.l = c + 1]
                [] l <= m /\ t[m].n_value > a -> [seen EXCEPT !.right = m - 1, !.r = m - 1]
                [] l <= m /\ t[m].n_value = a -> [seen EXCEPT !.left = m, !.l = m, !.addr = @ + 1]
  BY ONLY <1>1, <1>2, <1>3 DEF Turn
<1>6. /\ [seen EXCEPT !.left = m, !.l = c + 1] = [s EXCEPT !.any_matches = TRUE, !.left = m, !.l = c + 1]
      /\ [seen EXCEPT !.right = m - 1, !.r = m - 1]
            = [s EXCEPT !.any_matches = TRUE, !.right = m - 1, !.r = m - 1]
      /\ [seen EXCEPT !.left = m, !.l = m, !.addr = @ + 1]
            = [s EXCEPT !.any_matches = TRUE, !.left = m, !.l = m, !.addr = a + 1]
  BY <1>1 DEF Searching
<1> HIDE DEF seen
<1>7. ASSUME m < l PROVE TurnTo(Turn(t, s, type), s, t, c, m)
  <2>1. Turn(t, s, type) = [s EXCEPT !.l = c + 1]
    <3>1. ~(l > r) /\ ~(l <= m)
      BY <1>1, <1>7
    <3> QED  BY ONLY <1>5, <1>7, <3>1
  <2> QED  BY ONLY <1>1, <1>7, <2>1 DEF TurnTo, ToLeft, ToRight, ToHit
<1>8. ASSUME l <= m PROVE TurnTo(Turn(t, s, type), s, t, c, m)
  <2>1. ~(l > r) /\ ~(m < l)
    BY <1>1, <1>8
  <2>2. PICK v \in Int : v = t[m].n_value
    BY <1>4, <1>8
  <2>3. CASE v < a
    <3>1. ~(v > a) /\ ~(v = a)
      BY <2>3
    <3>2. Turn(t, s, type) = [seen EXCEPT !.left = m, !.l = c + 1]
      BY ONLY <1>5, <1>8, <2>1, <2>2, <2>3, <3>1
    <3> QED  BY ONLY <1>1, <1>6, <1>8, <2>2, <2>3, <3>2 DEF TurnTo, ToLeft, ToRight, ToHit
  <2>4. CASE v > a
    <3>1. ~(v < a) /\ ~(v = a)
      BY <2>4
    <3>2. Turn(t, s, type) = [seen EXCEPT !.right = m - 1, !.r = m - 1]
      BY ONLY <1>5, <1>8, <2>1, <2>2, <2>4, <3>1
    <3> QED  BY ONLY <1>1, <1>6, <1>8, <2>2, <2>4, <3>2 DEF TurnTo, ToLeft, ToRight, ToHit
  <2>5. CASE v = a
    <3>1. ~(v < a) /\ ~(v > a)
      BY <2>5
    <3>2. Turn(t, s, type) = [seen EXCEPT !.left = m, !.l = m, !.addr = @ + 1]
      BY ONLY <1>5, <1>8, <2>1, <2>2, <2>5, <3>1
    <3> QED  BY ONLY <1>1, <1>6, <1>8, <2>2, <2>5, <3>2 DEF TurnTo, ToLeft, ToRight, ToHit
  <2> QED  BY <2>3, <2>4, <2>5
<1>9. TurnTo(Turn(t, s, type), s, t, c, m)
  BY <1>7, <1>8
<1> QED  BY <1>1, <1>2, <1>3, <1>4, <1>9

(* A region of the table that begins with an entry of another type. *)
Searchable(t, i, j, type) ==
    /\ \A k \in Int : i <= k /\ k <= j => t[k].n_value \in Int
    /\ t[i].n_type # type /\ Ascending(t, i, j, type)

LEMMA EntriesAre ==
  ASSUME NEW t, NEW i \in Int, NEW j \in Int, NEW type, Searchable(t, i, j, type)
  PROVE  /\ \A k \in Starts(t, i, j, type) :
               k \in Int /\ i < k /\ k <= j /\ t[k].n_type = type /\ t[k].n_value \in Int
         /\ \A k \in Int : i <= k /\ k <= j /\ t[k].n_type = type => k \in Starts(t, i, j, type)
         /\ \A k, n \in Starts(t, i, j, type) : k <= n => t[k].n_value <= t[n].n_value
<1>1. ASSUME NEW k \in Starts(t, i, j, type)
      PROVE  k \in Int /\ i < k /\ k <= j /\ t[k].n_type = type /\ t[k].n_value \in Int
  <2>1. k \in Int /\ i <= k /\ k <= j /\ t[k].n_type = type
    BY DEF Starts
  <2>2. k # i
    BY <2>1 DEF Searchable
  <2> QED  BY <2>1, <2>2 DEF Searchable
<1>2. ASSUME NEW k \in Int, i <= k, k <= j, t[k].n_type = type PROVE k \in Starts(t, i, j, type)
  BY <1>2 DEF Starts
<1> QED  BY <1>1, <1>2 DEF Searchable, Ascending

IsAt(n, l, r, left, right, addr) ==
    /\ n \in Searching /\ n.l = l /\ n.r = r /\ n.left = left /\ n.right = right /\ n.addr = addr
    /\ n.any_matches = TRUE

LEMMA LeftMoved ==
  ASSUME NEW s \in Searching, NEW m \in Int, NEW c \in Int
  PROVE  IsAt(ToLeft(s, m, c), c, s.r, m, s.right, s.addr)
<1> DEFINE n == ToLeft(s, m, c)
<1>1. n \in [l : Int, r : Int, left : Int, right : Int, addr : Int, any_matches : BOOLEAN]
  BY DEF Searching, ToLeft
<1>2. n.l = c /\ n.r = s.r
  BY DEF Searching, ToLeft
<1>3. n.left = m /\ n.right = s.right
  BY DEF Searching, ToLeft
<1>4. n.addr = s.addr /\ n.any_matches = TRUE
  BY DEF Searching, ToLeft
<1> HIDE DEF n
<1>5. IsAt(n, c, s.r, m, s.right, s.addr)
  BY <1>1, <1>2, <1>3, <1>4 DEF IsAt, Searching
<1> QED  BY <1>5 DEF n

LEMMA RightMoved ==
  ASSUME NEW s \in Searching, NEW m \in Int
  PROVE  IsAt(ToRight(s, m), s.l, m - 1, s.left, m - 1, s.addr)
<1> DEFINE n == ToRight(s, m)
<1>1. n \in [l : Int, r : Int, left : Int, right : Int, addr : Int, any_matches : BOOLEAN]
  <2>1. PICK e \in Int : e = m - 1
    OBVIOUS
  <2>2. [s EXCEPT !.any_matches = TRUE, !.right = e, !.r = e] \in
           [l : Int, r : Int, left : Int, right : Int, addr : Int, any_matches : BOOLEAN]
    BY DEF Searching
  <2> QED  BY <2>1, <2>2 DEF ToRight
<1>2. n.l = s.l /\ n.r = m - 1
  BY DEF Searching, ToRight
<1>3. n.left = s.left /\ n.right = m - 1
  BY DEF Searching, ToRight
<1>4. n.addr = s.addr /\ n.any_matches = TRUE
  BY DEF Searching, ToRight
<1> HIDE DEF n
<1>5. IsAt(n, s.l, m - 1, s.left, m - 1, s.addr)
  BY <1>1, <1>2, <1>3, <1>4 DEF IsAt, Searching
<1> QED  BY <1>5 DEF n

LEMMA HitMoved ==
  ASSUME NEW s \in Searching, NEW m \in Int, NEW a \in Int
  PROVE  IsAt(ToHit(s, m, a), m, s.r, m, s.right, a)
<1> DEFINE n == ToHit(s, m, a)
<1>1. n \in [l : Int, r : Int, left : Int, right : Int, addr : Int, any_matches : BOOLEAN]
  BY DEF Searching, ToHit
<1>2. n.l = m /\ n.r = s.r
  BY DEF Searching, ToHit
<1>3. n.left = m /\ n.right = s.right
  BY DEF Searching, ToHit
<1>4. n.addr = a /\ n.any_matches = TRUE
  BY DEF Searching, ToHit
<1> HIDE DEF n
<1>5. IsAt(n, m, s.r, m, s.right, a)
  BY <1>1, <1>2, <1>3, <1>4 DEF IsAt, Searching
<1> QED  BY <1>5 DEF n

LEMMA TurnKeeps ==
  ASSUME NEW t, NEW i \in Int, NEW j \in Int, NEW type, Searchable(t, i, j, type), NEW a \in Int,
         NEW s, SearchInv(s, t, i, j, type, a), s.l <= s.r
  PROVE  /\ SearchInv(Turn(t, s, type), t, i, j, type, a)
         /\ Left(Turn(t, s, type), t, type) < Left(s, t, type)
<1> DEFINE E == Starts(t, i, j, type)
<1>1. /\ \A k \in E : k \in Int /\ i < k /\ k <= j /\ t[k].n_type = type /\ t[k].n_value \in Int
      /\ \A k \in Int : i <= k /\ k <= j /\ t[k].n_type = type => k \in E
      /\ \A k, n \in E : k <= n => t[k].n_value <= t[n].n_value
  BY EntriesAre
<1>2. PICK l, r, lf, ad \in Int : l = s.l /\ r = s.r /\ lf = s.left /\ ad = s.addr
  BY DEF SearchInv, SeenInv, Searching
<1>3. /\ s \in Searching /\ s.right = r /\ s.any_matches \in BOOLEAN
      /\ i <= l /\ l <= r /\ r <= j /\ a <= ad
      /\ r = j \/ r + 1 \in E
      /\ \A k \in E : (k < l => t[k].n_value < ad) /\ (r < k => a < t[k].n_value)
      /\ s.any_matches => E # {}
      /\ ~s.any_matches => r = j /\ lf = i /\ \A k \in E : l <= k
  BY <1>2 DEF SearchInv, SeenInv, Searching
<1>4. \/ lf = l /\ t[l].n_type = type /\ t[l].n_value < ad
      \/ lf = i /\ \A k \in E : l <= k
      \/ lf \in E /\ lf < l /\ \A k \in E : k < l => k <= lf
  BY <1>2 DEF SearchInv, LeftInv, Hit
<1>5. \/ Stepped(t, i, j, type, a)
      \/ ad = a \/ (ad = a + 1 /\ \E k \in E : t[k].n_value = a)
  BY <1>2 DEF SearchInv, StepInv
<1>6. PICK c, m \in Int :
         /\ l <= c /\ c <= r /\ l - 1 <= m /\ m <= c
         /\ l <= m => t[m].n_type = type /\ t[m].n_value \in Int
         /\ \A k \in Int : l <= k /\ k <= c /\ t[k].n_type = type => k <= m
         /\ TurnTo(Turn(t, s, type), s, t, c, m)
  <2>1. \A k \in Int : l <= k /\ k <= r => t[k].n_value \in Int
    BY <1>3 DEF Searchable
  <2> QED  BY <1>2, <1>3, <2>1, TurnIs
<1>7. l <= m => m \in E
  BY <1>1, <1>3, <1>6
<1>8. \A k \in E : l <= k /\ k <= c => k <= m
  BY <1>1, <1>6
<1>9. PICK n : n = Turn(t, s, type)
  OBVIOUS
<1> HIDE DEF E
<1>10. /\ Left(s, t, type) = 2 * (r - l + 1) + (IF Hit(s, t, type) THEN 0 ELSE 1)
       /\ Hit(s, t, type) <=> t[l].n_type = type /\ t[l].n_value < ad
  BY ONLY <1>2 DEF Left, Hit
<1>11. ASSUME m < l, n = [s EXCEPT !.l = c + 1]
       PROVE  SearchInv(n, t, i, j, type, a) /\ Left(n, t, type) < Left(s, t, type)
  <2>1. /\ n \in Searching /\ n.l = c + 1 /\ n.r = r /\ n.left = lf /\ n.right = r /\ n.addr = ad
        /\ n.any_matches = s.any_matches
    BY ONLY <1>2, <1>3, <1>11, c \in Int DEF Searching
  <2>2. SeenInv(n, t, i, j, type, a)
    BY ONLY <1>1, <1>3, <1>6, <1>8, <1>11, <2>1, i \in Int, j \in Int, l \in Int, r \in Int, lf \in Int,
       ad \in Int, c \in Int, m \in Int DEF SeenInv, E
  <2>3. LeftInv(n, t, i, j, type)
    BY ONLY <1>1, <1>3, <1>4, <1>6, <1>8, <1>11, <2>1, i \in Int, j \in Int, l \in Int, r \in Int, lf \in Int,
       ad \in Int, c \in Int, m \in Int DEF LeftInv, E
  <2>4. StepInv(n, t, i, j, type, a)
    BY ONLY <1>5, <2>1 DEF StepInv, E
  <2>5. Left(n, t, type) < Left(s, t, type)
    BY ONLY <1>6, <1>10, <2>1, l \in Int, r \in Int, c \in Int DEF Left
  <2> QED  BY <2>2, <2>3, <2>4, <2>5 DEF SearchInv
<1>12. ASSUME l <= m, t[m].n_value < ad, n = ToLeft(s, m, c + 1)
       PROVE  SearchInv(n, t, i, j, type, a) /\ Left(n, t, type) < Left(s, t, type)
  <2>1. /\ n \in Searching /\ n.l = c + 1 /\ n.r = r /\ n.left = m /\ n.right = r /\ n.addr = ad
        /\ n.any_matches = TRUE
    <3>1. c + 1 \in Int /\ n = ToLeft(s, m, c + 1) /\ s \in Searching
      BY <1>3, <1>12
    <3>2. IsAt(n, c + 1, s.r, m, s.right, s.addr)
      BY ONLY <3>1, m \in Int, LeftMoved
    <3> QED  BY ONLY <1>2, <1>3, <3>2 DEF IsAt
  <2>2. \A k \in E : k < c + 1 => k <= m /\ t[k].n_value < ad
    BY ONLY <1>1, <1>3, <1>6, <1>7, <1>8, <1>12, l \in Int, ad \in Int, c \in Int, m \in Int
  <2>3. SeenInv(n, t, i, j, type, a)
    BY ONLY <1>1, <1>3, <1>6, <1>12, <2>1, <2>2, i \in Int, j \in Int, l \in Int, r \in Int,
       ad \in Int, c \in Int, m \in Int DEF SeenInv, E
  <2>4. LeftInv(n, t, i, j, type)
    BY ONLY <1>6, <1>7, <1>12, <2>1, <2>2, c \in Int, m \in Int DEF LeftInv, E
  <2>5. StepInv(n, t, i, j, type, a)
    BY ONLY <1>5, <2>1 DEF StepInv, E
  <2>6. Left(n, t, type) < Left(s, t, type)
    BY ONLY <1>6, <1>10, <2>1, l \in Int, r \in Int, c \in Int DEF Left
  <2> QED  BY <2>3, <2>4, <2>5, <2>6 DEF SearchInv
<1>13. ASSUME l <= m, t[m].n_value > ad, n = ToRight(s, m)
       PROVE  SearchInv(n, t, i, j, type, a) /\ Left(n, t, type) < Left(s, t, type)
  <2>1. /\ n \in Searching /\ n.l = l /\ n.r = m - 1 /\ n.left = lf /\ n.right = m - 1 /\ n.addr = ad
        /\ n.any_matches = TRUE
    <3>1. n = ToRight(s, m) /\ s \in Searching
      BY <1>3, <1>13
    <3>2. IsAt(n, s.l, m - 1, s.left, m - 1, s.addr)
      BY ONLY <3>1, m \in Int, RightMoved
    <3> QED  BY ONLY <1>2, <1>3, <3>2 DEF IsAt
  <2>2. (m - 1) + 1 \in E /\ \A k \in E : m - 1 < k => a < t[k].n_value
    BY ONLY <1>1, <1>3, <1>7, <1>13, l \in Int, ad \in Int, a \in Int, m \in Int
  <2>3. SeenInv(n, t, i, j, type, a)
    BY ONLY <1>1, <1>3, <1>6, <1>13, <2>1, <2>2, i \in Int, j \in Int, l \in Int, r \in Int,
       ad \in Int, c \in Int, m \in Int DEF SeenInv, E
  <2>4. LeftInv(n, t, i, j, type)
    <3>1. l = m => ~(t[l].n_value < ad)
      BY ONLY <1>6, <1>13, ad \in Int, l \in Int, m \in Int
    <3> QED  BY ONLY <1>4, <1>13, <2>1, <3>1, l \in Int, m \in Int DEF LeftInv, Hit, E
  <2>5. StepInv(n, t, i, j, type, a)
    BY ONLY <1>5, <2>1 DEF StepInv, E
  <2>6. Left(n, t, type) < Left(s, t, type)
    BY ONLY <1>6, <1>10, <2>1, l \in Int, r \in Int, c \in Int, m \in Int DEF Left
  <2> QED  BY <2>3, <2>4, <2>5, <2>6 DEF SearchInv
<1>14. ASSUME l <= m, t[m].n_value = ad,
              n = ToHit(s, m, ad + 1)
       PROVE  SearchInv(n, t, i, j, type, a) /\ Left(n, t, type) < Left(s, t, type)
  <2>1. /\ n \in Searching /\ n.l = m /\ n.r = r /\ n.left = m /\ n.right = r /\ n.addr = ad + 1
        /\ n.any_matches = TRUE
    <3>1. ad + 1 \in Int /\ n = ToHit(s, m, ad + 1) /\ s \in Searching
      BY <1>3, <1>14
    <3>2. IsAt(n, m, s.r, m, s.right, ad + 1)
      BY ONLY <3>1, m \in Int, HitMoved
    <3> QED  BY ONLY <1>2, <1>3, <3>2 DEF IsAt
  <2>2. \A k \in E : k < m => t[k].n_value < ad + 1
    BY ONLY <1>1, <1>7, <1>14, ad \in Int, m \in Int
  <2>3. SeenInv(n, t, i, j, type, a)
    BY ONLY <1>1, <1>3, <1>6, <1>14, <2>1, <2>2, i \in Int, j \in Int, l \in Int, r \in Int,
       ad \in Int, a \in Int, c \in Int, m \in Int DEF SeenInv, E
  <2>4. LeftInv(n, t, i, j, type)
    BY ONLY <1>6, <1>14, <2>1, c \in Int, r \in Int, m \in Int, ad \in Int DEF LeftInv, Hit, E
  <2>5. StepInv(n, t, i, j, type, a)
    <3>1. CASE ad = a
      <4>1. m \in E /\ t[m].n_value = a
        BY ONLY <1>7, <1>14, <3>1
      <4> QED  BY ONLY <2>1, <3>1, <4>1 DEF StepInv, E
    <3>2. ASSUME NEW k \in E, ad = a + 1, t[k].n_value = a PROVE Stepped(t, i, j, type, a)
      <4>1. m \in E
        BY <1>7, <1>14
      <4>2. k < m
        <5>1. PICK u, v \in Int : u = t[k].n_value /\ v = t[m].n_value /\ (m <= k => v <= u)
          BY ONLY <1>1, <3>2, <4>1
        <5>2. u < v
          BY ONLY <1>14, <3>2, <5>1, a \in Int
        <5>3. k \in Int
          BY <1>1, <3>2
        <5> QED  BY ONLY <5>1, <5>2, <5>3, m \in Int
      <4> QED  BY ONLY <1>14, <3>2, <4>1, <4>2 DEF Stepped, E
    <3>3. Stepped(t, i, j, type, a) => StepInv(n, t, i, j, type, a)
      BY DEF StepInv
    <3> QED  BY <1>5, <3>1, <3>2, <3>3
  <2>6. Left(n, t, type) < Left(s, t, type)
    <3>1. Hit(n, t, type)
      BY ONLY <1>6, <1>14, <2>1, ad \in Int DEF Hit
    <3>2. m = l => ~Hit(s, t, type)
      BY ONLY <1>10, <1>14, ad \in Int
    <3> QED  BY ONLY <1>6, <1>10, <1>14, <2>1, <3>1, <3>2, l \in Int, r \in Int, m \in Int DEF Left
  <2> QED  BY <2>3, <2>4, <2>5, <2>6 DEF SearchInv
<1>15. TurnTo(n, s, t, c, m)
  BY <1>6, <1>9
<1>16. SearchInv(n, t, i, j, type, a) /\ Left(n, t, type) < Left(s, t, type)
  BY ONLY <1>2, <1>11, <1>12, <1>13, <1>14, <1>15 DEF TurnTo
<1> QED  BY <1>9, <1>16

(* The loop of stab_binsearch. *)
Begun(i, j, a) ==
    [l |-> i, r |-> j, left |-> i, right |-> j, addr |-> a, any_matches |-> FALSE]
SearchTurns(y, t, i, j, type, a, m) ==
    y = [k \in 0 .. m |-> IF k = 0 THEN Begun(i, j, a) ELSE Turn(t, y[k - 1], type)]

LEMMA SearchTurnsExist ==
  ASSUME NEW t, NEW i, NEW j, NEW type, NEW a, NEW m \in Nat
  PROVE  \E y : SearchTurns(y, t, i, j, type, a, m)
<1> DEFINE Bad == {k \in Nat : ~ \E y : SearchTurns(y, t, i, j, type, a, k)}
<1> SUFFICES ASSUME Bad # {} PROVE FALSE
  OBVIOUS
<1>1. PICK k \in Bad : \A n \in Bad : k <= n
  BY LeastNatural
<1>2. k # 0
  <2> DEFINE z == [n \in 0 .. 0 |-> Begun(i, j, a)]
  <2>1. z = [n \in 0 .. 0 |-> IF n = 0 THEN Begun(i, j, a) ELSE Turn(t, z[n - 1], type)]
    OBVIOUS
  <2>2. SearchTurns(z, t, i, j, type, a, 0)
    BY <2>1 DEF SearchTurns
  <2> QED  BY <2>2
<1>3. k - 1 \in Nat /\ k - 1 \notin Bad /\ k \in Nat
  BY <1>1, <1>2
<1>4. PICK y : SearchTurns(y, t, i, j, type, a, k - 1)
  BY <1>3
<1> DEFINE Newest == Turn(t, y[k - 1], type)
           z == [n \in 0 .. k |-> IF n = k THEN Newest ELSE y[n]]
<1>5. ASSUME NEW n \in 0 .. k
      PROVE  z[n] = IF n = 0 THEN Begun(i, j, a) ELSE Turn(t, z[n - 1], type)
  <2>1. CASE n = k
    <3>1. z[n] = Newest /\ z[k - 1] = y[k - 1]
      BY <2>1, <1>2, <1>3
    <3> QED  BY <3>1, <2>1, <1>2
  <2>2. CASE n # k
    <3>1. n \in 0 .. (k - 1) /\ z[n] = y[n]
      BY <2>2, <1>3
    <3>2. y[n] = IF n = 0 THEN Begun(i, j, a) ELSE Turn(t, y[n - 1], type)
      BY <3>1, <1>4 DEF SearchTurns
    <3>3. n # 0 => z[n - 1] = y[n - 1]
      BY <3>1, <1>3
    <3> QED  BY <3>1, <3>2, <3>3
  <2> QED  BY <2>1, <2>2
<1> HIDE DEF Newest
<1>6. SearchTurns(z, t, i, j, type, a, k)
  BY <1>5 DEF SearchTurns
<1> HIDE DEF z
<1> QED  BY <1>1, <1>6

LEMMA SearchBegins ==
  ASSUME NEW t, NEW i \in Int, NEW j \in Int, NEW type, NEW a \in Int, i <= j, Searchable(t, i, j, type)
  PROVE  /\ SearchInv(Begun(i, j, a), t, i, j, type, a)
         /\ Left(Begun(i, j, a), t, type) = 2 * (j - i + 1) + 1
<1> DEFINE E == Starts(t, i, j, type)
<1>1. \A k \in E : k \in Int /\ i < k /\ k <= j
  BY EntriesAre
<1>2. PICK s : s = Begun(i, j, a)
  OBVIOUS
<1>3. /\ s \in Searching /\ s.l = i /\ s.r = j /\ s.left = i /\ s.right = j /\ s.addr = a
      /\ s.any_matches = FALSE
  BY <1>2 DEF Begun, Searching
<1> HIDE DEF E
<1>4. SeenInv(s, t, i, j, type, a)
  BY ONLY <1>1, <1>3, i \in Int, j \in Int, i <= j, a \in Int DEF SeenInv, E
<1>5. LeftInv(s, t, i, j, type)
  BY ONLY <1>1, <1>3, i \in Int DEF LeftInv, E
<1>6. StepInv(s, t, i, j, type, a)
  BY ONLY <1>3 DEF StepInv
<1>7. Left(s, t, type) = 2 * (j - i + 1) + 1
  <2>1. ~Hit(s, t, type)
    BY <1>3 DEF Hit, Searchable
  <2> QED  BY ONLY <1>3, <2>1 DEF Left
<1> QED  BY <1>2, <1>4, <1>5, <1>6, <1>7 DEF SearchInv

(* When the search ends, l has passed r. *)
LEMMA SearchEnds ==
  ASSUME NEW t, NEW i \in Int, NEW j \in Int, NEW type, NEW a \in Int, i <= j, Searchable(t, i, j, type)
  PROVE  /\ SearchInv(Search(t, i, j, type, a), t, i, j, type, a)
         /\ Search(t, i, j, type, a).l > Search(t, i, j, type, a).r
<1>1. PICK n \in Nat : n = 2 * (j - i + 1)
  OBVIOUS
<1>2. 2 * Cardinality(i .. j) = n
  <2>1. Cardinality(i .. j) = j - i + 1
    BY FS_Interval
  <2> QED  BY <1>1, <2>1
<1> DEFINE y == CHOOSE z : SearchTurns(z, t, i, j, type, a, n)
<1>3. SearchTurns(y, t, i, j, type, a, n)
  BY SearchTurnsExist
<1>4. Search(t, i, j, type, a) = y[n]
  BY <1>2 DEF Search, SearchTurns, Begun
<1> HIDE DEF y
<1> DEFINE Good(k) == /\ SearchInv(y[k], t, i, j, type, a)
                      /\ y[k].l > y[k].r \/ Left(y[k], t, type) + k <= n + 1
           Bad == {k \in Nat : k <= n /\ ~Good(k)}
<1>5. ASSUME Bad # {} PROVE FALSE
  <2>1. PICK k \in Bad : \A m \in Bad : k <= m
    BY <1>5, LeastNatural
  <2>2. k \in Nat /\ k <= n /\ ~Good(k)
    OBVIOUS
  <2>3. k # 0
    <3>1. y[0] = Begun(i, j, a)
      BY <1>3 DEF SearchTurns
    <3>2. Good(0)
      BY <1>1, <3>1, SearchBegins
    <3> QED  BY <2>2, <3>2
  <2>4. PICK h \in Nat : h = k - 1 /\ h <= n /\ h \notin Bad
    <3>1. k - 1 \in Nat /\ k - 1 <= n /\ ~(k <= k - 1)
      BY <2>2, <2>3
    <3> QED  BY <2>1, <3>1
  <2>5. Good(h)
    BY <2>4
  <2>6. y[k] = Turn(t, y[h], type)
    <3>1. k \in 0 .. n /\ k - 1 = h
      BY <2>2, <2>4
    <3> QED  BY ONLY <1>3, <2>3, <3>1 DEF SearchTurns
  <2>7. PICK s : s = y[h] /\ SearchInv(s, t, i, j, type, a)
    BY <2>5
  <2>8. PICK l, r \in Int : l = s.l /\ r = s.r
    BY <2>7 DEF SearchInv, SeenInv, Searching
  <2>9. CASE l > r
    <3>1. Turn(t, s, type) = s
      BY <2>8, <2>9 DEF Turn
    <3>2. Good(k)
      BY <2>6, <2>7, <2>8, <2>9, <3>1
    <3> QED  BY <2>2, <3>2
  <2>10. CASE ~(l > r)
    <3>1. s.l <= s.r
      BY <2>8, <2>10
    <3>2. SearchInv(y[k], t, i, j, type, a) /\ Left(y[k], t, type) < Left(s, t, type)
      BY <2>6, <2>7, <3>1, TurnKeeps
    <3>3. Left(s, t, type) + h <= n + 1
      BY <2>5, <2>7, <2>8, <2>10
    <3>4. ASSUME NEW x, SearchInv(x, t, i, j, type, a) PROVE Left(x, t, type) \in Int
      <4>1. PICK u, v \in Int : u = x.l /\ v = x.r
        BY <3>4 DEF SearchInv, SeenInv, Searching
      <4> QED  BY <4>1 DEF Left
    <3>5. PICK p, q \in Int : p = Left(y[k], t, type) /\ q = Left(s, t, type)
      BY <2>7, <3>2, <3>4
    <3>6. p + k <= n + 1
      BY ONLY <2>4, <3>2, <3>3, <3>5, p \in Int, q \in Int, k \in Nat, h \in Nat, n \in Nat
    <3>7. Good(k)
      BY <3>2, <3>5, <3>6
    <3> QED  BY <2>2, <3>7
  <2> QED  BY <2>9, <2>10
<1>6. Good(n)
  BY <1>5
<1>7. PICK s : s = y[n] /\ SearchInv(s, t, i, j, type, a)
  BY <1>6
<1>8. PICK l, r \in Int : l = s.l /\ r = s.r
  BY <1>7 DEF SearchInv, SeenInv, Searching
<1>9. l > r
  <2>1. SUFFICES ASSUME ~(l > r) PROVE FALSE
    OBVIOUS
  <2>2. Left(s, t, type) + n <= n + 1
    BY <1>6, <1>7, <1>8, <2>1
  <2>3. Left(s, t, type) = 2 * (r - l + 1) + (IF Hit(s, t, type) THEN 0 ELSE 1)
    BY ONLY <1>8 DEF Left
  <2> QED  BY ONLY <2>1, <2>2, <2>3, l \in Int, r \in Int, n \in Nat
<1> QED  BY <1>4, <1>7, <1>8, <1>9

(* The region at the end: its left end as the search left it, its right    *)
(* end in front of the next entry.                                         *)
LEMMA RegionIs ==
  ASSUME NEW t, NEW i \in Int, NEW j \in Int, NEW type, NEW a \in Int, i <= j, Searchable(t, i, j, type)
  PROVE  \E lf, r \in Int :
            LET E == Starts(t, i, j, type)
            IN  /\ i <= lf /\ lf <= r /\ (r = j \/ r + 1 \in E)
                /\ \A k \in E : r < k => a < t[k].n_value
                /\ \/ lf = i /\ \A k \in E : r < k
                   \/ /\ lf \in E /\ \A k \in E : k <= r => k <= lf
                      /\ Stepped(t, i, j, type, a) \/ t[lf].n_value <= a
                /\ stab_binsearch(t, i, j, type, a) =
                      IF E = {} THEN [left |-> i, right |-> i - 1] ELSE [left |-> lf, right |-> r]
<1> DEFINE E == Starts(t, i, j, type)
<1>1. /\ \A k \in E : k \in Int /\ i < k /\ k <= j /\ t[k].n_type = type /\ t[k].n_value \in Int
      /\ \A k \in Int : i <= k /\ k <= j /\ t[k].n_type = type => k \in E
  BY EntriesAre
<1>2. PICK s : /\ s = Search(t, i, j, type, a) /\ SearchInv(s, t, i, j, type, a) /\ s.l > s.r
  BY SearchEnds
<1>3. PICK l, r, lf, ad \in Int : l = s.l /\ r = s.r /\ lf = s.left /\ ad = s.addr
  BY <1>2 DEF SearchInv, SeenInv, Searching
<1>4. /\ s.right = r /\ s.any_matches \in BOOLEAN /\ l > r
      /\ i <= l /\ l <= r + 1 /\ r <= j
      /\ r = j \/ r + 1 \in E
      /\ \A k \in E : (k < l => t[k].n_value < ad) /\ (r < k => a < t[k].n_value)
      /\ s.any_matches => E # {}
      /\ ~s.any_matches => r = j /\ lf = i /\ \A k \in E : l <= k
  BY <1>2, <1>3 DEF SearchInv, SeenInv, Searching
<1>5. l = r + 1
  BY <1>4
<1>6. \/ lf = i /\ \A k \in E : l <= k
      \/ lf \in E /\ lf < l /\ \A k \in E : k < l => k <= lf
  <2>1. \/ lf = l /\ l <= r
        \/ lf = i /\ \A k \in E : l <= k
        \/ lf \in E /\ lf < l /\ \A k \in E : k < l => k <= lf
    BY <1>2, <1>3 DEF SearchInv, LeftInv
  <2> QED  BY <1>5, <2>1
<1>7. Stepped(t, i, j, type, a) \/ ad <= a + 1
  BY <1>2, <1>3 DEF SearchInv, StepInv
<1> HIDE DEF E
<1>8. i <= r
  BY ONLY <1>1, <1>4, i \in Int, j \in Int, r \in Int, i <= j
<1>9. i <= lf /\ lf <= r
  BY ONLY <1>1, <1>5, <1>6, <1>8, i \in Int, r \in Int, lf \in Int
<1>10. \/ lf = i /\ \A k \in E : r < k
       \/ /\ lf \in E /\ \A k \in E : k <= r => k <= lf
          /\ Stepped(t, i, j, type, a) \/ t[lf].n_value <= a
  <2>1. ASSUME lf \in E, lf < l, ~Stepped(t, i, j, type, a) PROVE t[lf].n_value <= a
    BY ONLY <1>1, <1>4, <1>7, <2>1, a \in Int, ad \in Int
  <2>2. \A k \in E : (l <= k => r < k) /\ (k <= r => k < l)
    BY <1>1, <1>5
  <2> QED  BY <1>6, <2>1, <2>2
<1>11. s.any_matches <=> E # {}
  <2>1. ASSUME ~s.any_matches PROVE E = {}
    <3>1. \A k \in E : FALSE
      BY ONLY <1>1, <1>4, <1>5, <2>1, j \in Int, r \in Int
    <3> QED  BY <3>1
  <2> QED  BY <1>4, <2>1
<1>12. stab_binsearch(t, i, j, type, a) = Region(t, s, type)
  BY <1>2 DEF stab_binsearch
<1>13. CASE E = {}
  <2>1. lf = i
    BY <1>6, <1>13
  <2>2. Region(t, s, type) = [left |-> i, right |-> i - 1]
    BY ONLY <1>3, <1>11, <1>13, <2>1 DEF Region
  <2> QED  BY <1>4, <1>9, <1>10, <1>12, <1>13, <2>2 DEF E
<1>14. CASE E # {}
  <2>1. ASSUME ~(r <= lf) PROVE Max({lf} \cup {k \in lf .. r : t[k].n_type = type}) = lf
    <3> DEFINE S == {lf} \cup {k \in lf .. r : t[k].n_type = type}
    <3>1. ASSUME NEW k \in S PROVE k \in Int /\ k <= lf
      <4>1. CASE k = lf
        BY <4>1
      <4>2. CASE k # lf
        <5>1. k \in Int /\ lf <= k /\ k <= r /\ t[k].n_type = type
          BY <4>2
        <5>2. k \in E
          BY <1>1, <1>4, <1>9, <5>1
        <5> QED  BY ONLY <1>10, <5>1, <5>2, lf \in Int, r \in Int
      <4> QED  BY <4>1, <4>2
    <3>2. lf \in S /\ S \in SUBSET Int
      BY <3>1
    <3> HIDE DEF S
    <3>3. Max(S) = lf
      BY ONLY <3>1, <3>2, GreatestIs
    <3> QED  BY <3>3 DEF S
  <2>2. r <= lf => r = lf
    BY <1>9
  <2>3. Region(t, s, type) = [left |-> lf, right |-> r]
    BY ONLY <1>3, <1>4, <1>11, <1>14, <2>1, <2>2 DEF Region
  <2> QED  BY <1>4, <1>9, <1>10, <1>12, <1>14, <2>3 DEF E
<1> QED  BY <1>13, <1>14

(* stab_binsearch, for every region of every table. *)
LEMMA Finds ==
  ASSUME NEW t, NEW i \in Int, NEW j \in Int, NEW type, NEW a \in Int, i <= j,
         \A k \in Int : i <= k /\ k <= j => t[k].n_value \in Int
  PROVE  SearchFinds(t, i, j, type, a)
<1> SUFFICES ASSUME t[i].n_type # type, Ascending(t, i, j, type) PROVE SearchFinds(t, i, j, type, a)
  BY DEF SearchFinds
<1> DEFINE E == Starts(t, i, j, type)
           in_ == Containing(t, i, j, type, a)
<1>1. Searchable(t, i, j, type)
  BY DEF Searchable
<1>2. /\ \A k \in E : k \in Int /\ i < k /\ k <= j /\ t[k].n_type = type /\ t[k].n_value \in Int
      /\ \A k \in Int : i <= k /\ k <= j /\ t[k].n_type = type => k \in E
  BY <1>1, EntriesAre
<1>3. PICK s : s = stab_binsearch(t, i, j, type, a)
  OBVIOUS
<1>4. PICK lf, r \in Int :
        /\ i <= lf /\ lf <= r /\ (r = j \/ r + 1 \in E)
        /\ \A k \in E : r < k => a < t[k].n_value
        /\ \/ lf = i /\ \A k \in E : r < k
           \/ /\ lf \in E /\ \A k \in E : k <= r => k <= lf
              /\ Stepped(t, i, j, type, a) \/ t[lf].n_value <= a
        /\ s = IF E = {} THEN [left |-> i, right |-> i - 1] ELSE [left |-> lf, right |-> r]
  BY <1>1, <1>3, RegionIs
<1>5. \A k : k \in in_ <=> k \in E /\ t[k].n_value <= a
  BY DEF Containing
<1>6. Stepped(t, i, j, type, a) => in_ # {}
  BY <1>2, <1>5 DEF Stepped
<1> HIDE DEF E, in_
<1>7. E = {} => s.left > s.right
  BY <1>4
<1>8. in_ = {} => s.left > s.right \/ t[s.left].n_type # type
  <2> SUFFICES ASSUME in_ = {} PROVE s.left > s.right \/ t[s.left].n_type # type
    OBVIOUS
  <2>1. lf = i
    BY <1>4, <1>5, <1>6
  <2>2. CASE E = {}
    BY <1>7, <2>2
  <2>3. CASE E # {}
    BY <1>4, <2>1, <2>3
  <2> QED  BY <2>2, <2>3
<1>9. ASSUME in_ # {}
      PROVE  IF Stepped(t, i, j, type, a) THEN s.left \in E /\ s.left >= Max(in_)
             ELSE s = [left |-> Max(in_), right |-> Until(t, Max(in_), j, type)]
  <2>1. PICK x \in in_ : Max(in_) = x /\ \A k \in in_ : k <= x
    <3>1. in_ \in SUBSET Int /\ \A k \in in_ : k <= j
      BY <1>2, <1>5
    <3> QED  BY ONLY <1>9, <3>1, Greatest, j \in Int
  <2>2. x \in Int /\ x \in E /\ t[x].n_value <= a /\ E # {} /\ i < x
    BY <1>2, <1>5
  <2>3. x <= r
    BY <1>2, <1>4, <2>2
  <2>4. lf \in E /\ x <= lf /\ \A k \in E : k <= r => k <= lf
    BY <1>4, <2>2, <2>3
  <2>5. s.left = lf /\ s = [left |-> lf, right |-> r]
    BY <1>4, <2>2
  <2>6. CASE Stepped(t, i, j, type, a)
    BY <2>1, <2>4, <2>5, <2>6
  <2>7. CASE ~Stepped(t, i, j, type, a)
    <3>1. lf = x
      <4>1. \A k \in E : r < k \/ k <= r
        BY <1>2
      <4>2. t[lf].n_value <= a
        BY ONLY <1>4, <2>2, <2>3, <2>7, x \in Int, r \in Int
      <4>3. lf \in in_
        BY <1>5, <2>4, <4>2
      <4>4. lf <= x
        BY <2>1, <4>3
      <4> QED  BY ONLY <2>2, <2>4, <4>4, lf \in Int
    <3>2. Until(t, x, j, type) = r
      <4> DEFINE S == {j + 1} \cup Starts(t, x + 1, j, type)
      <4>1. ASSUME NEW k \in Starts(t, x + 1, j, type) PROVE k \in Int /\ r + 1 <= k
        <5>1. k \in Int /\ x + 1 <= k /\ k <= j /\ t[k].n_type = type
          BY <2>2 DEF Starts
        <5>2. k \in E
          BY ONLY <1>2, <2>2, <5>1, i \in Int
        <5> QED  BY ONLY <2>2, <2>4, <3>1, <5>1, <5>2, r \in Int, lf \in Int
      <4>2. r <= j
        BY ONLY <1>2, <1>4, r \in Int, j \in Int
      <4>3. S \in SUBSET Int /\ \A k \in S : r + 1 <= k
        BY <4>1, <4>2
      <4>4. r + 1 \in S
        <5>1. CASE r = j
          BY <5>1
        <5>2. CASE r + 1 \in E
          <6>1. r + 1 \in Int /\ x + 1 <= r + 1 /\ r + 1 <= j /\ t[r + 1].n_type = type
            BY <1>2, <2>2, <2>3, <5>2
          <6> QED  BY <2>2, <6>1 DEF Starts
        <5> QED  BY <1>4, <5>1, <5>2
      <4> HIDE DEF S
      <4>5. Min(S) = r + 1
        BY ONLY <4>3, <4>4, LeastIs
      <4>6. Until(t, x, j, type) = Min(S) - 1
        BY DEF Until, S
      <4> QED  BY ONLY <4>5, <4>6, r \in Int
    <3> QED  BY <2>1, <2>5, <2>7, <3>1, <3>2
  <2> QED  BY <2>6, <2>7
<1> QED  BY ONLY <1>3, <1>7, <1>8, <1>9 DEF SearchFinds, E, in_

LEMMA AscendingWithin ==
  ASSUME NEW t, NEW i \in Int, NEW j \in Int, NEW l \in Int, NEW r \in Int, NEW type,
         Ascending(t, i, j, type), i <= l, r <= j
  PROVE  Ascending(t, l, r, type)
<1>1. Starts(t, l, r, type) \subseteq Starts(t, i, j, type)
  BY DEF Starts
<1> QED  BY <1>1 DEF Ascending

(* The entry an address belongs to, and the end of its region. *)
LEMMA EntryFound ==
  ASSUME NEW t, NEW i \in Int, NEW j \in Int, NEW type, NEW a \in Int,
         \A k \in Int : i <= k /\ k <= j => t[k].n_value \in Int,
         t[i].n_type # type, Ascending(t, i, j, type),
         Containing(t, i, j, type, a) # {}, ~Stepped(t, i, j, type, a)
  PROVE  \E x, y \in Int :
            /\ x = Max(Containing(t, i, j, type, a)) /\ y = Until(t, x, j, type)
            /\ i < x /\ x <= y /\ y <= j /\ t[x].n_type = type
            /\ stab_binsearch(t, i, j, type, a) = [left |-> x, right |-> y]
<1> DEFINE in_ == Containing(t, i, j, type, a)
<1>1. \A k \in in_ : k \in Int /\ i < k /\ k <= j /\ t[k].n_type = type
  BY DEF Containing, Starts
<1>2. i <= j
  BY <1>1
<1>3. stab_binsearch(t, i, j, type, a) = [left |-> Max(in_), right |-> Until(t, Max(in_), j, type)]
  <2>1. SearchFinds(t, i, j, type, a)
    BY <1>2, Finds
  <2> QED  BY <2>1 DEF SearchFinds
<1> HIDE DEF in_
<1>4. PICK x \in in_ : Max(in_) = x
  <2>1. in_ \in SUBSET Int /\ \A k \in in_ : k <= j
    BY <1>1
  <2>2. in_ # {}
    BY DEF in_
  <2> QED  BY ONLY <2>1, <2>2, Greatest, j \in Int
<1>5. x \in Int /\ i < x /\ x <= j /\ t[x].n_type = type
  BY <1>1
<1> DEFINE S == {j + 1} \cup Starts(t, x + 1, j, type)
<1>6. S \in SUBSET Int /\ S # {} /\ \A k \in S : x + 1 <= k
  BY <1>5 DEF Starts
<1>7. PICK m \in S : Min(S) = m /\ \A k \in S : m <= k
  <2>1. x + 1 \in Int
    BY <1>5
  <2> QED  BY ONLY <1>6, <2>1, Least
<1>8. m \in Int /\ x + 1 <= m /\ m <= j + 1
  BY <1>6, <1>7
<1>9. Until(t, x, j, type) = m - 1
  BY <1>7 DEF Until
<1>10. m - 1 \in Int /\ x <= m - 1 /\ m - 1 <= j
  BY <1>5, <1>8
<1> QED  BY ONLY <1>3, <1>4, <1>5, <1>9, <1>10 DEF in_

(* The line of an address, within the function or the file that has it. *)
Infos == [ret : Int, eip_file : Int, eip_line : Int, eip_fn_name : Int, eip_fn_addr : Int,
          eip_fn_narg : Int]
Answer(info, name, desc, fn, start) ==
    /\ info.ret = 0 /\ info.eip_file = name /\ info.eip_line = desc
    /\ info.eip_fn_name = fn /\ info.eip_fn_addr = start
LineFound(t, f, fe, l, r, a, fun, info, x, y, n) ==
    /\ x = Max(Containing(t, l, r, "N_SLINE", a)) /\ y = Until(t, x, r, "N_SLINE")
    /\ n = Max({k \in f .. x : t[k].n_type \in {"N_SO", "N_SOL"}})
    /\ Answer(InLine(t, [left |-> f, right |-> fe], fun, stab_binsearch(t, l, r, "N_SLINE", a), info),
              n, t[y].n_desc, info.eip_fn_name, info.eip_fn_addr)

LEMMA LineIs ==
  ASSUME NEW t, WellFormed(t), NEW f \in Int, NEW fe \in Int, NEW l \in Int, NEW r \in Int,
         0 < f, f <= l, r <= Final(t), t[f].n_type = "N_SO", t[l].n_type # "N_SLINE",
         NEW a \in Int, Ascending(t, l, r, "N_SLINE"),
         Containing(t, l, r, "N_SLINE", a) # {}, ~Stepped(t, l, r, "N_SLINE", a),
         NEW fun, NEW info \in Infos
  PROVE  \E x, y, n \in Int : LineFound(t, f, fe, l, r, a, fun, info, x, y, n)
<1>1. PICK top \in Nat : top = Final(t)
  BY DEF WellFormed
<1>2. /\ \A k \in Int : 0 <= k /\ k <= top => t[k].n_value \in Int
      /\ \A k \in Int : 0 <= k /\ k <= top /\ t[k].n_type = "N_SO" => t[k].n_value # 0
  <2>1. t \in [0 .. top -> Stab] /\ \A k \in Starts(t, 0, top, "N_SO") : t[k].n_value # 0
    BY <1>1 DEF WellFormed
  <2>2. ASSUME NEW k \in Int, 0 <= k, k <= top PROVE t[k].n_value \in Int
    BY <2>1, <2>2 DEF Stab
  <2>3. ASSUME NEW k \in Int, 0 <= k, k <= top, t[k].n_type = "N_SO" PROVE t[k].n_value # 0
    BY <2>1, <2>3 DEF Starts
  <2> QED  BY <2>2, <2>3
<1>3. PICK x, y \in Int :
        /\ x = Max(Containing(t, l, r, "N_SLINE", a)) /\ y = Until(t, x, r, "N_SLINE")
        /\ l < x /\ x <= y /\ y <= r /\ t[x].n_type = "N_SLINE"
        /\ stab_binsearch(t, l, r, "N_SLINE", a) = [left |-> x, right |-> y]
  <2>1. \A k \in Int : l <= k /\ k <= r => t[k].n_value \in Int
    BY <1>1, <1>2
  <2> QED  BY ONLY <2>1, EntryFound, l \in Int, r \in Int, a \in Int, t[l].n_type # "N_SLINE",
              Ascending(t, l, r, "N_SLINE"), Containing(t, l, r, "N_SLINE", a) # {},
              ~Stepped(t, l, r, "N_SLINE", a)
<1> DEFINE S == {k \in f .. x : t[k].n_type \in {"N_SO", "N_SOL"}}
           T == {f - 1} \cup {k \in f .. x : \/ t[k].n_type = "N_SOL"
                                             \/ t[k].n_type = "N_SO" /\ t[k].n_value # 0}
<1>4. f \in S /\ S \in SUBSET Int /\ \A k \in S : k \in Int /\ f <= k /\ k <= x
  BY <1>3
<1>5. T = {f - 1} \cup S
  <2>1. ASSUME NEW k \in Int, f <= k, k <= x
        PROVE  0 <= k /\ k <= top
    BY <1>1, <1>3, <2>1
  <2> QED  BY <1>2, <2>1
<1> HIDE DEF S, T
<1>6. PICK n \in S : Max(S) = n /\ \A k \in S : k <= n
  BY ONLY <1>3, <1>4, Greatest
<1>7. n \in Int /\ f <= n
  BY <1>4
<1>8. Max(T) = n
  <2>1. T \in SUBSET Int /\ n \in T /\ \A k \in T : k <= n
    BY <1>4, <1>5, <1>6, <1>7
  <2> QED  BY ONLY <2>1, GreatestIs
<1>9. FileOf(t, x, f) = n
  BY <1>8 DEF FileOf, T
<1>10. ~(x > y) /\ n >= f
  BY <1>3, <1>7
<1> DEFINE w == t[y].n_desc
           p == Parameters(t, fun.left, fun.right)
           o == InLine(t, [left |-> f, right |-> fe], fun, [left |-> x, right |-> y], info)
<1>11. o = [info EXCEPT !.ret = 0, !.eip_line = w, !.eip_file = n, !.eip_fn_narg = p]
  BY ONLY <1>9, <1>10 DEF InLine
<1> HIDE DEF w, p, o
<1>12. o.ret = 0 /\ o.eip_file = n
  BY ONLY <1>11, info \in Infos DEF Infos
<1>13. o.eip_line = w /\ o.eip_fn_name = info.eip_fn_name
  BY ONLY <1>11, info \in Infos DEF Infos
<1>14. o.eip_fn_addr = info.eip_fn_addr
  BY ONLY <1>11, info \in Infos DEF Infos
<1>15. Answer(o, n, w, info.eip_fn_name, info.eip_fn_addr)
  BY ONLY <1>12, <1>13, <1>14 DEF Answer
<1>16. LineFound(t, f, fe, l, r, a, fun, info, x, y, n)
  BY ONLY <1>3, <1>6, <1>15 DEF LineFound, S, o, w
<1> QED  BY ONLY <1>3, <1>7, <1>16

(* debuginfo_eip and print_debuginfo, for every table and every address *)
(* that belongs to a line.                                              *)
LEMMA CallDescribed ==
  ASSUME NEW t, NEW addr \in Int, WellFormed(t), Known(t, addr)
  PROVE  print_debuginfo(t, addr) = Described(t, addr)
<1>1. PICK top \in Nat : top = Final(t)
  BY DEF WellFormed
<1>2. \A k \in Int : 0 <= k /\ k <= top => t[k].n_value \in Int
  <2>1. t \in [0 .. top -> Stab]
    BY <1>1 DEF WellFormed
  <2> QED  BY <2>1 DEF Stab
<1>3. PICK f, fe \in Int :
        /\ f = FileAt(t, addr) /\ fe = FileEnd(t, addr)
        /\ 0 < f /\ f <= fe /\ fe <= top /\ t[f].n_type = "N_SO"
        /\ stab_binsearch(t, 0, top, "N_SO", addr) = [left |-> f, right |-> fe]
  <2>1. /\ t[0].n_type # "N_SO" /\ Ascending(t, 0, top, "N_SO")
        /\ Containing(t, 0, top, "N_SO", addr) # {} /\ ~Stepped(t, 0, top, "N_SO", addr)
    BY <1>1 DEF WellFormed, Known
  <2>2. PICK x, y \in Int :
          /\ x = Max(Containing(t, 0, top, "N_SO", addr)) /\ y = Until(t, x, top, "N_SO")
          /\ 0 < x /\ x <= y /\ y <= top /\ t[x].n_type = "N_SO"
          /\ stab_binsearch(t, 0, top, "N_SO", addr) = [left |-> x, right |-> y]
    <3>1. 0 \in Int /\ top \in Int
      OBVIOUS
    <3> QED  BY ONLY <1>2, <2>1, <3>1, EntryFound, addr \in Int
  <2>3. x = FileAt(t, addr) /\ y = FileEnd(t, addr)
    BY ONLY <1>1, <2>2 DEF FileAt, FileEnd
  <2> QED  BY <2>2, <2>3
<1> DEFINE file == [left |-> f, right |-> fe]
           fun == stab_binsearch(t, f, fe, "N_FUN", addr)
           in_ == Containing(t, f, fe, "N_FUN", addr)
<1>4. debuginfo_eip(t, addr) = InFunction(t, file, fun, addr)
  <2>1. file.left # 0 /\ file.left = f /\ file.right = fe
    BY <1>3
  <2>2. InFile(t, file, addr) = InFunction(t, file, fun, addr)
    BY ONLY <2>1 DEF InFile
  <2>3. debuginfo_eip(t, addr) = InFile(t, file, addr)
    BY ONLY <1>1, <1>3 DEF debuginfo_eip, Final
  <2> QED  BY ONLY <2>2, <2>3
<1>5. FunAt(t, addr) = Max({-1} \cup in_)
  BY <1>3 DEF FunAt, Unknown
<1>6. /\ FunAt(t, addr) = Unknown => Starts(t, f, fe, "N_FUN") = {}
      /\ ~Stepped(t, f, fe, "N_FUN", addr)
      /\ Ascending(t, f, fe, "N_FUN")
  <2>1. Ascending(t, 0, top, "N_FUN")
    BY <1>1 DEF WellFormed
  <2>2. Ascending(t, f, fe, "N_FUN")
    BY ONLY <1>3, <2>1, AscendingWithin, 0 \in Int, top \in Int, f \in Int, fe \in Int,
            top \in Nat
  <2> QED  BY <1>3, <2>2 DEF Known
<1>7. /\ Containing(t, Scope(t, addr).left, Scope(t, addr).right, "N_SLINE", Scope(t, addr).addr) # {}
      /\ Ascending(t, Scope(t, addr).left, Scope(t, addr).right, "N_SLINE")
      /\ ~Stepped(t, Scope(t, addr).left, Scope(t, addr).right, "N_SLINE", Scope(t, addr).addr)
  BY DEF Known
<1>8. \A k \in Int : f <= k /\ k <= fe => t[k].n_value \in Int
  BY <1>2, <1>3
<1>9. Described(t, addr) =
        [fn |-> FunAt(t, addr), line |-> t[LineEnd(t, addr)].n_desc,
         file |-> Max({k \in f .. LineAt(t, addr) : t[k].n_type \in {"N_SO", "N_SOL"}}),
         off |-> IF FunAt(t, addr) = Unknown THEN 0 ELSE addr - t[FunAt(t, addr)].n_value]
  BY ONLY <1>3 DEF Described
<1>10. ASSUME NEW info, info = debuginfo_eip(t, addr), info.ret = 0
       PROVE  print_debuginfo(t, addr) =
                [file |-> info.eip_file, line |-> info.eip_line, fn |-> info.eip_fn_name,
                 off |-> addr - info.eip_fn_addr]
  BY ONLY <1>10 DEF print_debuginfo, Line
<1> HIDE DEF file, fun, in_
<1>11. CASE in_ = {}
  <2>1. FunAt(t, addr) = Unknown
    <3>1. Max({-1} \cup in_) = -1
      <4>1. {-1} \cup in_ \in SUBSET Int /\ -1 \in {-1} \cup in_ /\ \A k \in {-1} \cup in_ : k <= -1
        BY <1>11
      <4> QED  BY ONLY <4>1, GreatestIs
    <3> QED  BY <1>5, <3>1 DEF Unknown
  <2>2. ~(fun.left <= fun.right)
    <3>1. Searchable(t, f, fe, "N_FUN")
      BY <1>3, <1>6, <1>8 DEF Searchable
    <3>2. Starts(t, f, fe, "N_FUN") = {}
      BY <1>6, <2>1
    <3>3. fun = [left |-> f, right |-> f - 1]
      BY ONLY <1>3, <3>1, <3>2, RegionIs, addr \in Int DEF fun
    <3> QED  BY ONLY <3>3, f \in Int
  <2>3. Scope(t, addr) = [left |-> f, right |-> fe, addr |-> addr]
    BY ONLY <1>3, <2>1 DEF Scope
  <2>4. LineAt(t, addr) = Max(Containing(t, f, fe, "N_SLINE", addr))
    BY ONLY <2>3 DEF LineAt
  <2>5. LineEnd(t, addr) = Until(t, LineAt(t, addr), fe, "N_SLINE")
    BY ONLY <2>3 DEF LineEnd
  <2>6. PICK x, y, n \in Int : LineFound(t, f, fe, f, fe, addr, fun, NoInfo(addr), x, y, n)
    <3>1. /\ Containing(t, f, fe, "N_SLINE", addr) # {} /\ Ascending(t, f, fe, "N_SLINE")
          /\ ~Stepped(t, f, fe, "N_SLINE", addr)
      BY ONLY <1>7, <2>3
    <3>2. f <= f /\ fe <= Final(t) /\ t[f].n_type # "N_SLINE" /\ 0 < f /\ t[f].n_type = "N_SO"
      BY <1>1, <1>3
    <3>3. NoInfo(addr) \in Infos
      BY DEF NoInfo, Infos, Unknown
    <3> QED  BY ONLY <3>1, <3>2, <3>3, LineIs, WellFormed(t), f \in Int, fe \in Int, addr \in Int
  <2>7. debuginfo_eip(t, addr) =
          InLine(t, file, fun, stab_binsearch(t, f, fe, "N_SLINE", addr), NoInfo(addr))
    <3>1. file.left = f /\ file.right = fe
      BY DEF file
    <3> QED  BY ONLY <1>4, <2>2, <3>1 DEF InFunction
  <2>8. PICK info : info = debuginfo_eip(t, addr)
    OBVIOUS
  <2>9. /\ info.ret = 0 /\ info.eip_file = n /\ info.eip_line = t[y].n_desc
        /\ info.eip_fn_name = Unknown /\ info.eip_fn_addr = addr
    BY ONLY <2>6, <2>7, <2>8 DEF NoInfo, LineFound, Answer, file
  <2>10. print_debuginfo(t, addr) = [file |-> n, line |-> t[y].n_desc, fn |-> Unknown, off |-> 0]
    <3>1. addr - addr = 0
      OBVIOUS
    <3> QED  BY ONLY <1>10, <2>8, <2>9, <3>1
  <2>11. LineAt(t, addr) = x /\ LineEnd(t, addr) = y
    BY ONLY <2>4, <2>5, <2>6 DEF LineFound
  <2> QED  BY ONLY <1>9, <2>1, <2>6, <2>10, <2>11 DEF LineFound
<1>12. CASE in_ # {}
  <2>1. PICK g, ge \in Int :
          /\ g = Max(in_) /\ ge = Until(t, g, fe, "N_FUN")
          /\ f < g /\ g <= ge /\ ge <= fe /\ t[g].n_type = "N_FUN"
          /\ fun = [left |-> g, right |-> ge]
    <3>1. t[f].n_type # "N_FUN"
      BY <1>3
    <3> QED  BY ONLY <1>6, <1>8, <1>12, <3>1, EntryFound, f \in Int, fe \in Int, addr \in Int DEF in_, fun
  <2>2. FunAt(t, addr) = g /\ g # Unknown
    <3>1. in_ \in SUBSET Int
      BY DEF in_, Containing, Starts
    <3>2. PICK w \in in_ : Max(in_) = w /\ \A k \in in_ : k <= w
      <4>1. \A k \in in_ : k <= fe
        BY DEF in_, Containing, Starts
      <4> QED  BY ONLY <1>12, <3>1, <4>1, Greatest, fe \in Int
    <3>3. g \in in_ /\ \A k \in in_ : k <= g
      BY <2>1, <3>2
    <3>4. {-1} \cup in_ \in SUBSET Int /\ g \in {-1} \cup in_ /\ \A k \in {-1} \cup in_ : k <= g
      BY <1>3, <2>1, <3>1, <3>3
    <3>5. Max({-1} \cup in_) = g
      BY ONLY <3>4, GreatestIs
    <3>6. g # -1
      BY <1>3, <2>1
    <3> QED  BY <1>5, <3>5, <3>6 DEF Unknown
  <2>3. PICK start \in Int : start = t[g].n_value
    BY <1>8, <2>1
  <2>4. PICK a \in Int : a = addr - start
    BY <2>3
  <2>5. Scope(t, addr) = [left |-> g, right |-> ge, addr |-> a]
    BY ONLY <1>3, <2>1, <2>2, <2>3, <2>4 DEF Scope
  <2>6. LineAt(t, addr) = Max(Containing(t, g, ge, "N_SLINE", a))
    BY ONLY <2>5 DEF LineAt
  <2>7. LineEnd(t, addr) = Until(t, LineAt(t, addr), ge, "N_SLINE")
    BY ONLY <2>5 DEF LineEnd
  <2> DEFINE known == [NoInfo(addr) EXCEPT !.eip_fn_name = g, !.eip_fn_addr = start]
  <2>8. /\ known \in Infos /\ known.eip_fn_name = g /\ known.eip_fn_addr = start
    <3>1. NoInfo(addr) \in Infos
      BY DEF NoInfo, Infos, Unknown
    <3> QED  BY <3>1 DEF Infos
  <2>9. PICK x, y, n \in Int : LineFound(t, f, fe, g, ge, a, fun, known, x, y, n)
    <3>1. /\ Containing(t, g, ge, "N_SLINE", a) # {} /\ Ascending(t, g, ge, "N_SLINE")
          /\ ~Stepped(t, g, ge, "N_SLINE", a)
      BY ONLY <1>7, <2>5
    <3>2. f <= g /\ ge <= Final(t) /\ t[g].n_type # "N_SLINE" /\ 0 < f /\ t[f].n_type = "N_SO"
      BY <1>1, <1>3, <2>1
    <3> HIDE DEF known
    <3> QED  BY ONLY <2>8, <3>1, <3>2, LineIs, WellFormed(t), f \in Int, fe \in Int, g \in Int,
                ge \in Int, a \in Int
  <2>10. debuginfo_eip(t, addr) = InLine(t, file, fun, stab_binsearch(t, g, ge, "N_SLINE", a), known)
    <3>1. fun.left = g /\ fun.right = ge /\ fun.left <= fun.right
      BY <2>1
    <3> QED  BY ONLY <1>4, <2>3, <2>4, <3>1 DEF InFunction
  <2>11. PICK info : info = debuginfo_eip(t, addr)
    OBVIOUS
  <2>12. /\ info.ret = 0 /\ info.eip_file = n /\ info.eip_line = t[y].n_desc
         /\ info.eip_fn_name = g /\ info.eip_fn_addr = start
    <3> HIDE DEF known
    <3> QED  BY ONLY <2>9, <2>10, <2>11, <2>8 DEF LineFound, Answer, file
  <2>13. print_debuginfo(t, addr) = [file |-> n, line |-> t[y].n_desc, fn |-> g, off |-> addr - start]
    BY ONLY <1>10, <2>11, <2>12
  <2>14. LineAt(t, addr) = x /\ LineEnd(t, addr) = y
    BY ONLY <2>6, <2>7, <2>9 DEF LineFound
  <2> QED  BY ONLY <1>9, <2>2, <2>3, <2>9, <2>13, <2>14 DEF LineFound
<1> QED  BY <1>11, <1>12

LEMMA AppendIs ==
  ASSUME NEW n \in Nat, NEW S, NEW g \in [1 .. n -> S], NEW k \in Nat, k < n
  PROVE  Append([i \in 1 .. k |-> g[i]], g[k + 1]) = [i \in 1 .. k + 1 |-> g[i]]
<1> DEFINE s == [i \in 1 .. k |-> g[i]]
           u == [i \in 1 .. k + 1 |-> g[i]]
<1>1. \A i \in 1 .. k + 1 : i \in 1 .. n
  OBVIOUS
<1>2. /\ s \in Seq(S) /\ Len(s) = k /\ \A i \in 1 .. k : s[i] = g[i]
      /\ u \in Seq(S) /\ Len(u) = k + 1 /\ \A i \in 1 .. k + 1 : u[i] = g[i]
  BY <1>1
<1>3. g[k + 1] \in S
  BY <1>1
<1> DEFINE z == Append(s, g[k + 1])
<1> HIDE DEF s, u
<1>4. /\ z \in Seq(S) /\ Len(z) = k + 1
      /\ \A i \in 1 .. k : z[i] = s[i]
      /\ z[k + 1] = g[k + 1]
  BY ONLY <1>2, <1>3, AppendProperties, k \in Nat
<1> HIDE DEF z
<1>5. \A i \in 1 .. k + 1 : z[i] = u[i]
  <2>1. \A i \in 1 .. k + 1 : i \in 1 .. k \/ i = k + 1
    OBVIOUS
  <2>2. k + 1 \in 1 .. k + 1
    OBVIOUS
  <2>3. \A i \in 1 .. k : i \in 1 .. k + 1
    OBVIOUS
  <2> QED  BY ONLY <1>2, <1>4, <2>1, <2>2, <2>3
<1>6. z = u
  BY ONLY <1>2, <1>4, <1>5, SeqEqual
<1> QED  BY <1>6 DEF z, s, u

(* The loop of print_stackframe. *)
Innermost(ebp, eip) == [ebp |-> ebp, eip |-> eip, printed |-> <<>>]
Outward(t, stack, f) ==
    IF f.ebp = 0 THEN f
    ELSE [ebp |-> stack[f.ebp].ebp, eip |-> stack[f.ebp].eip,
          printed |-> Append(f.printed, print_debuginfo(t, f.eip - 1))]
FrameTurns(y, t, stack, ebp, eip, m) ==
    y = [k \in 0 .. m |-> IF k = 0 THEN Innermost(ebp, eip) ELSE Outward(t, stack, y[k - 1])]

LEMMA FrameTurnsExist ==
  ASSUME NEW t, NEW stack, NEW ebp, NEW eip, NEW m \in Nat
  PROVE  \E y : FrameTurns(y, t, stack, ebp, eip, m)
<1> DEFINE Bad == {k \in Nat : ~ \E y : FrameTurns(y, t, stack, ebp, eip, k)}
<1> SUFFICES ASSUME Bad # {} PROVE FALSE
  OBVIOUS
<1>1. PICK k \in Bad : \A n \in Bad : k <= n
  BY LeastNatural
<1>2. k # 0
  <2> DEFINE z == [n \in 0 .. 0 |-> Innermost(ebp, eip)]
  <2>1. z = [n \in 0 .. 0 |-> IF n = 0 THEN Innermost(ebp, eip) ELSE Outward(t, stack, z[n - 1])]
    OBVIOUS
  <2>2. FrameTurns(z, t, stack, ebp, eip, 0)
    BY <2>1 DEF FrameTurns
  <2> QED  BY <2>2
<1>3. k - 1 \in Nat /\ k - 1 \notin Bad /\ k \in Nat
  BY <1>1, <1>2
<1>4. PICK y : FrameTurns(y, t, stack, ebp, eip, k - 1)
  BY <1>3
<1> DEFINE Newest == Outward(t, stack, y[k - 1])
           z == [n \in 0 .. k |-> IF n = k THEN Newest ELSE y[n]]
<1>5. ASSUME NEW n \in 0 .. k
      PROVE  z[n] = IF n = 0 THEN Innermost(ebp, eip) ELSE Outward(t, stack, z[n - 1])
  <2>1. CASE n = k
    <3>1. z[n] = Newest /\ z[k - 1] = y[k - 1]
      BY <2>1, <1>2, <1>3
    <3> QED  BY <3>1, <2>1, <1>2
  <2>2. CASE n # k
    <3>1. n \in 0 .. (k - 1) /\ z[n] = y[n]
      BY <2>2, <1>3
    <3>2. y[n] = IF n = 0 THEN Innermost(ebp, eip) ELSE Outward(t, stack, y[n - 1])
      BY <3>1, <1>4 DEF FrameTurns
    <3>3. n # 0 => z[n - 1] = y[n - 1]
      BY <3>1, <1>3
    <3> QED  BY <3>1, <3>2, <3>3
  <2> QED  BY <2>1, <2>2
<1> HIDE DEF Newest
<1>6. FrameTurns(z, t, stack, ebp, eip, k)
  BY <1>5 DEF FrameTurns
<1> HIDE DEF z
<1> QED  BY <1>1, <1>6

(* print_stackframe, for every table and every chain of frames: the turns  *)
(* print one call each, and nothing once ebp is 0.                         *)
LEMMA Printed ==
  ASSUME NEW t, NEW stack, NEW calls
  PROVE  CallsPrinted(t, stack, calls)
<1> DEFINE D(i) == Described(t, calls[i].eip - 1)
           depth == Min({STACKFRAME_DEPTH, Len(calls)})
           n == Len(calls)
<1> SUFFICES ASSUME WellFormed(t), Linked(stack, calls),
                    \A i \in 1 .. depth : Known(t, calls[i].eip - 1)
             PROVE  print_stackframe(t, stack, calls[1].ebp, calls[1].eip) = [i \in 1 .. depth |-> D(i)]
  BY DEF CallsPrinted
<1>1. /\ n \in Nat /\ n >= 1 /\ STACKFRAME_DEPTH \in Nat
      /\ \A i \in 1 .. n : calls[i].ebp \in Nat \ {0} /\ calls[i].eip \in Nat
  <2>1. calls \in Seq([ebp : Nat \ {0}, eip : Nat]) /\ calls # <<>>
    BY DEF Linked
  <2>2. n \in Nat /\ \A i \in 1 .. n : calls[i] \in [ebp : Nat \ {0}, eip : Nat]
    BY ONLY <2>1, ElementOfSeq, LenProperties
  <2>3. n # 0
    BY <2>1, EmptySeq
  <2>4. \A i \in 1 .. n : calls[i].ebp \in Nat \ {0} /\ calls[i].eip \in Nat
    BY <2>2
  <2>5. n >= 1
    BY <2>2, <2>3
  <2> QED  BY <2>2, <2>4, <2>5, DepthAssumption
<1>2. /\ \A i \in 1 .. n : i < n => stack[calls[i].ebp] = calls[i + 1]
      /\ stack[calls[n].ebp].ebp = 0
  BY <1>1 DEF Linked
<1>3. depth \in Nat /\ depth = IF STACKFRAME_DEPTH <= n THEN STACKFRAME_DEPTH ELSE n
  <2>1. CASE STACKFRAME_DEPTH <= n
    <3>1. {STACKFRAME_DEPTH, n} \in SUBSET Int /\ STACKFRAME_DEPTH \in {STACKFRAME_DEPTH, n}
          /\ \A k \in {STACKFRAME_DEPTH, n} : STACKFRAME_DEPTH <= k
      BY <1>1, <2>1
    <3>2. Min({STACKFRAME_DEPTH, n}) = STACKFRAME_DEPTH
      BY ONLY <3>1, LeastIs
    <3> QED  BY <1>1, <2>1, <3>2
  <2>2. CASE ~(STACKFRAME_DEPTH <= n)
    <3>1. {STACKFRAME_DEPTH, n} \in SUBSET Int /\ n \in {STACKFRAME_DEPTH, n}
          /\ \A k \in {STACKFRAME_DEPTH, n} : n <= k
      BY <1>1, <2>2
    <3>2. Min({STACKFRAME_DEPTH, n}) = n
      BY ONLY <3>1, LeastIs
    <3> QED  BY <1>1, <2>2, <3>2
  <2> QED  BY <2>1, <2>2
<1>4. PICK top \in Nat : top = STACKFRAME_DEPTH
  BY <1>1
<1> DEFINE y == CHOOSE z : FrameTurns(z, t, stack, calls[1].ebp, calls[1].eip, top)
<1>5. FrameTurns(y, t, stack, calls[1].ebp, calls[1].eip, top)
  BY FrameTurnsExist
<1>6. print_stackframe(t, stack, calls[1].ebp, calls[1].eip) = y[top].printed
  BY <1>4 DEF print_stackframe, FrameTurns, Innermost, Outward
<1> HIDE DEF y, depth
<1> DEFINE g == [i \in 1 .. n |-> D(i)]
           S == {D(i) : i \in 1 .. n}
           Upto(k) == [i \in 1 .. k |-> g[i]]
           On(f, k) == f.ebp = calls[k + 1].ebp /\ f.eip = calls[k + 1].eip /\ f.printed = Upto(k)
           Done(f) == f.ebp = 0 /\ f.printed = Upto(n)
           Good(k) == (k < n => On(y[k], k)) /\ (n <= k => Done(y[k]))
           Bad == {k \in Nat : k <= top /\ ~Good(k)}
<1>7. g \in [1 .. n -> S] /\ \A i \in 1 .. n : g[i] = D(i)
  OBVIOUS
<1> HIDE DEF D, n, g, S
<1>8. ASSUME Bad # {} PROVE FALSE
  <2>1. PICK k \in Bad : \A m \in Bad : k <= m
    BY <1>8, LeastNatural
  <2>2. k \in Nat /\ k <= top /\ ~Good(k)
    OBVIOUS
  <2>3. k # 0
    <3>1. y[0] = Innermost(calls[1].ebp, calls[1].eip)
      BY <1>5 DEF FrameTurns
    <3>2. Upto(0) = <<>>
      OBVIOUS
    <3>3. On(y[0], 0)
      BY <3>1, <3>2 DEF Innermost
    <3>4. Good(0)
      BY <1>1, <3>3
    <3> QED  BY <2>2, <3>4
  <2>4. PICK h \in Nat : h = k - 1 /\ k = h + 1 /\ h < top /\ h \notin Bad
    <3>1. k - 1 \in Nat /\ k = (k - 1) + 1 /\ k - 1 < top /\ ~(k <= k - 1)
      BY <2>2, <2>3
    <3> QED  BY <2>1, <3>1
  <2>5. Good(h)
    BY <2>4
  <2>6. y[k] = Outward(t, stack, y[h])
    <3>1. k \in 0 .. top /\ k - 1 = h
      BY <2>2, <2>4
    <3> QED  BY ONLY <1>5, <2>3, <3>1 DEF FrameTurns
  <2>7. CASE n <= h
    <3>1. Done(y[h])
      BY <2>5, <2>7
    <3>2. y[k] = y[h]
      BY <2>6, <3>1 DEF Outward
    <3>3. n <= k /\ ~(k < n)
      BY <1>1, <2>4, <2>7
    <3>4. Good(k)
      BY ONLY <3>1, <3>2, <3>3
    <3> QED  BY <2>2, <3>4
  <2>8. CASE h < n
    <3>1. On(y[h], h)
      BY <2>5, <2>8
    <3>2. h + 1 \in 1 .. n /\ h + 1 \in 1 .. depth
      BY <1>1, <1>3, <1>4, <2>4, <2>8
    <3>3. PICK c : c = calls[h + 1] /\ c.ebp # 0 /\ c.eip \in Nat
      BY <1>1, <3>2
    <3>4. print_debuginfo(t, c.eip - 1) = g[h + 1]
      <4>1. Known(t, c.eip - 1) /\ c.eip - 1 \in Int
        BY <3>2, <3>3
      <4>2. g[h + 1] = Described(t, c.eip - 1)
        BY <1>7, <3>2, <3>3 DEF D
      <4> QED  BY <4>1, <4>2, CallDescribed
    <3>5. y[k] = [ebp |-> stack[c.ebp].ebp, eip |-> stack[c.ebp].eip,
                  printed |-> Append(Upto(h), g[h + 1])]
      <4>1. y[h].ebp = c.ebp /\ y[h].eip = c.eip /\ y[h].printed = Upto(h)
        BY ONLY <3>1, <3>3
      <4> HIDE DEF Upto
      <4> QED  BY ONLY <2>6, <3>3, <3>4, <4>1 DEF Outward
    <3>6. Append(Upto(h), g[h + 1]) = Upto(h + 1)
      BY ONLY <1>1, <1>7, <2>8, AppendIs, h \in Nat
    <3>7. y[k].ebp = stack[c.ebp].ebp /\ y[k].eip = stack[c.ebp].eip /\ y[k].printed = Upto(k)
      <4>1. Upto(h + 1) = Upto(k)
        BY ONLY <2>4
      <4> HIDE DEF Upto
      <4>2. y[k].ebp = stack[c.ebp].ebp /\ y[k].eip = stack[c.ebp].eip
        BY ONLY <3>5
      <4>3. y[k].printed = Append(Upto(h), g[h + 1])
        BY ONLY <3>5
      <4> QED  BY ONLY <3>6, <4>1, <4>2, <4>3
    <3>8. CASE k < n
      <4>1. stack[c.ebp] = calls[k + 1]
        <5>1. k \in 1 .. n
          BY <2>4, <3>2
        <5>2. c = calls[k]
          BY <2>4, <3>3
        <5>3. stack[calls[k].ebp] = calls[k + 1]
          BY ONLY <1>2, <3>8, <5>1
        <5> QED  BY ONLY <5>2, <5>3
      <4>2. On(y[k], k)
        BY ONLY <3>7, <4>1
      <4>3. ~(n <= k)
        BY <1>1, <2>2, <3>8
      <4>4. Good(k)
        BY ONLY <4>2, <4>3
      <4> QED  BY <2>2, <4>4
    <3>9. CASE ~(k < n)
      <4>1. k = n
        BY <1>1, <2>4, <2>8, <3>9
      <4>2. c = calls[n]
        BY <2>4, <3>3, <4>1
      <4>3. Done(y[k])
        BY ONLY <1>2, <3>7, <4>1, <4>2
      <4>4. Good(k)
        BY ONLY <3>9, <4>3
      <4> QED  BY <2>2, <4>4
    <3> QED  BY <3>8, <3>9
  <2> QED  BY <1>1, <2>4, <2>7, <2>8
<1>9. Good(top)
  <2> HIDE DEF Good
  <2> QED  BY <1>8
<1>10. y[top].printed = Upto(depth)
  <2>1. (top < n /\ depth = top) \/ (n <= top /\ depth = n)
    BY <1>1, <1>3, <1>4
  <2> QED  BY <1>9, <2>1
<1>11. Upto(depth) = [i \in 1 .. depth |-> D(i)]
  <2>1. \A i \in 1 .. depth : i \in 1 .. n
    BY <1>1, <1>3
  <2> QED  BY <1>7, <2>1
<1> QED  BY ONLY <1>6, <1>10, <1>11

(* stab_binsearch finds the entry of its type that an address belongs to    *)
(* and where that one's region ends, in every region of every table and for *)
(* every address; and print_stackframe names, for every table the linker    *)
(* puts together and every chain of frames, the function, the file, the     *)
(* line and the offset of each call, innermost first, up to                 *)
(* STACKFRAME_DEPTH of them (kdebug.c).  So BacktraceRight holds of every   *)
(* table, not only of those that are asked about.                           *)
THEOREM BacktraceTheorem ==
  /\ \A t, type : \A i, j, a \in Int :
        i <= j /\ (\A k \in Int : i <= k /\ k <= j => t[k].n_value \in Int)
            => SearchFinds(t, i, j, type, a)
  /\ \A t, stack, calls : CallsPrinted(t, stack, calls)
  /\ BacktraceRight
<1>1. ASSUME NEW t, NEW type, NEW i \in Int, NEW j \in Int, NEW a \in Int, i <= j,
             \A k \in Int : i <= k /\ k <= j => t[k].n_value \in Int
      PROVE  SearchFinds(t, i, j, type, a)
  BY <1>1, Finds
<1>2. \A t, stack, calls : CallsPrinted(t, stack, calls)
  BY Printed
<1>3. BacktraceRight
  <2> SUFFICES ASSUME WellFormed(in[2])
               PROVE  /\ \A type \in {"N_SO", "N_FUN"}, addr \in 0 .. 19 :
                            SearchFinds(in[2], 0, Final(in[2]), type, addr)
                      /\ \A chain \in Chains : CallsPrinted(in[2], Frames(chain), Calls(chain))
    BY DEF BacktraceRight
  <2>1. PICK top \in Nat : top = Final(in[2]) /\ in[2] \in [0 .. top -> Stab]
    BY DEF WellFormed
  <2> DEFINE t == in[2]
  <2>2. \A k \in Int : 0 <= k /\ k <= top => t[k].n_value \in Int
    BY <2>1 DEF Stab
  <2> HIDE DEF t
  <2>3. ASSUME NEW type, NEW addr \in 0 .. 19 PROVE SearchFinds(t, 0, top, type, addr)
    <3>1. 0 \in Int /\ top \in Int /\ addr \in Int /\ 0 <= top
      OBVIOUS
    <3> QED  BY ONLY <2>2, <3>1, Finds
  <2>4. \A chain \in Chains : CallsPrinted(t, Frames(chain), Calls(chain))
    BY <1>2
  <2> QED  BY ONLY <2>1, <2>3, <2>4 DEF t
<1> QED  BY <1>1, <1>2, <1>3

-----------------------------------------------------------------------------
(* Memory.  A scan ends at the first place where it may. *)
Scan(f, stop) == f = [a \in Int |-> IF a \in stop THEN a ELSE f[a + 1]]
Hits(stop, a) == {n \in Nat : a + n \in stop}
Nearest(stop, a) ==
    IF Hits(stop, a) = {} THEN 0
    ELSE a + (CHOOSE n \in Hits(stop, a) : \A k \in Hits(stop, a) : n <= k)

(* The nearest place is the one that no nearer place precedes. *)
LEMMA NearestIs ==
  ASSUME NEW stop, NEW a \in Int, NEW n \in Nat, a + n \in stop,
         \A k \in Nat : a + k \in stop => n <= k
  PROVE  Nearest(stop, a) = a + n
<1>1. n \in Hits(stop, a) /\ \A k \in Hits(stop, a) : n <= k
  BY DEF Hits
<1>2. PICK p : p = CHOOSE q \in Hits(stop, a) : \A k \in Hits(stop, a) : q <= k
  OBVIOUS
<1>3. p \in Hits(stop, a) /\ \A k \in Hits(stop, a) : p <= k
  BY <1>1, <1>2
<1>4. p = n
  <2>1. p <= n /\ n <= p /\ p \in Nat
    BY <1>1, <1>3 DEF Hits
  <2> QED  BY <2>1
<1> QED  BY <1>1, <1>2, <1>4 DEF Nearest

(* The scan of every set of places is a function. *)
LEMMA ScanExists == \A stop : \E f : Scan(f, stop)
<1> SUFFICES ASSUME NEW stop PROVE \E f : Scan(f, stop)
  OBVIOUS
<1> DEFINE f == [a \in Int |-> Nearest(stop, a)]
<1>1. ASSUME NEW a \in Int
      PROVE  Nearest(stop, a) = IF a \in stop THEN a ELSE Nearest(stop, a + 1)
  <2>1. CASE a \in stop
    <3>1. 0 \in Nat /\ a + 0 = a /\ \A k \in Nat : 0 <= k
      OBVIOUS
    <3> QED  BY <2>1, <3>1, NearestIs
  <2>2. CASE a \notin stop /\ Hits(stop, a) = {}
    <3>1. \A k \in Nat : k + 1 \in Nat /\ (a + 1) + k = a + (k + 1)
      OBVIOUS
    <3>2. Hits(stop, a + 1) = {}
      BY <2>2, <3>1 DEF Hits
    <3> QED  BY <2>2, <3>2 DEF Nearest
  <2>3. CASE a \notin stop /\ Hits(stop, a) # {}
    <3>1. PICK n \in Hits(stop, a) : \A k \in Hits(stop, a) : n <= k
      <4>1. Hits(stop, a) \in SUBSET Nat
        BY DEF Hits
      <4> QED  BY <2>3, <4>1, LeastNatural
    <3>2. n \in Nat /\ a + n \in stop /\ \A k \in Nat : a + k \in stop => n <= k
      BY <3>1 DEF Hits
    <3>3. n # 0
      <4>1. a + 0 = a
        OBVIOUS
      <4> QED  BY <2>3, <3>2, <4>1
    <3>4. PICK h \in Nat : n = h + 1 /\ (a + 1) + h = a + n
      <4>1. n - 1 \in Nat /\ n = (n - 1) + 1 /\ (a + 1) + (n - 1) = a + n
        BY <3>2, <3>3
      <4> QED  BY <4>1
    <3>5. ASSUME NEW k \in Nat, (a + 1) + k \in stop PROVE h <= k
      <4>1. k + 1 \in Nat /\ (a + 1) + k = a + (k + 1)
        OBVIOUS
      <4>2. n <= k + 1
        BY <3>2, <3>5, <4>1
      <4> QED  BY <3>4, <4>2
    <3>6. Nearest(stop, a) = a + n
      BY <3>2, NearestIs
    <3>7. Nearest(stop, a + 1) = (a + 1) + h
      <4>1. a + 1 \in Int
        OBVIOUS
      <4> QED  BY <3>2, <3>4, <3>5, <4>1, NearestIs
    <3> QED  BY <2>3, <3>4, <3>6, <3>7
  <2> QED  BY <2>1, <2>2, <2>3
<1>2. \A a \in Int : a + 1 \in Int
  OBVIOUS
<1>3. Scan(f, stop)
  <2>1. \A a \in Int : f[a] = Nearest(stop, a) /\ f[a + 1] = Nearest(stop, a + 1)
    BY <1>2
  <2>2. f = [a \in Int |-> IF a \in stop THEN a ELSE f[a + 1]]
    BY <1>1, <2>1
  <2> QED  BY <2>2 DEF Scan
<1> QED  BY <1>3

(* A loop that may stop at e, and nowhere before, stops at e. *)
LEMMA AdvanceIs ==
  ASSUME NEW stop, NEW s \in Int, NEW e \in Int, s <= e, e \in stop,
         \A a \in Int : s <= a /\ a < e => a \notin stop
  PROVE  Advance(stop, s) = e
<1> DEFINE at == CHOOSE f : Scan(f, stop)
<1>1. Scan(at, stop)
  BY ScanExists
<1>2. Advance(stop, s) = at[s]
  BY DEF Advance, Scan
<1> HIDE DEF at
<1>3. \A a \in Int : at[a] = IF a \in stop THEN a ELSE at[a + 1]
  BY <1>1 DEF Scan
<1> DEFINE Bad == {k \in Nat : s <= e - k /\ at[e - k] # e}
<1>4. ASSUME Bad # {} PROVE FALSE
  <2>1. PICK k \in Bad : \A j \in Bad : k <= j
    BY <1>4, LeastNatural
  <2>2. k # 0
    <3>1. e - 0 = e
      OBVIOUS
    <3> QED  BY <1>3, <3>1
  <2>3. /\ k - 1 \in Nat /\ k - 1 \notin Bad /\ s <= e - (k - 1)
        /\ e - k \in Int /\ (e - k) + 1 = e - (k - 1) /\ e - k < e /\ s <= e - k
    BY <2>1, <2>2
  <2>4. at[e - (k - 1)] = e
    BY <2>3
  <2>5. at[e - k] = at[(e - k) + 1]
    BY <1>3, <2>3
  <2> QED  BY <2>1, <2>3, <2>4, <2>5
<1>5. e - s \in Nat /\ e - (e - s) = s
  OBVIOUS
<1>6. at[s] = e
  BY <1>4, <1>5
<1> QED  BY <1>2, <1>6

(* What the turns of a loop lead to exists. *)
SetTurns(y, m, s, c, n) ==
    y = [k \in 0 .. n |-> IF k = 0 THEN m ELSE Poke(y[k - 1], s + (k - 1), c)]

(* The turns of memset. *)
LEMMA SetTurnsExist ==
  ASSUME NEW m, NEW s, NEW c, NEW n \in Nat
  PROVE  \E y : SetTurns(y, m, s, c, n)
<1> DEFINE Bad == {k \in Nat : ~ \E y : SetTurns(y, m, s, c, k)}
<1> SUFFICES ASSUME Bad # {} PROVE FALSE
  OBVIOUS
<1>1. PICK k \in Bad : \A j \in Bad : k <= j
  BY LeastNatural
<1>2. k # 0
  <2> DEFINE z == [j \in 0 .. 0 |-> m]
  <2>1. z = [j \in 0 .. 0 |-> IF j = 0 THEN m ELSE Poke(z[j - 1], s + (j - 1), c)]
    OBVIOUS
  <2>2. SetTurns(z, m, s, c, 0)
    BY <2>1 DEF SetTurns
  <2> QED  BY <2>2
<1>3. k - 1 \in Nat /\ k - 1 \notin Bad /\ k \in Nat
  BY <1>1, <1>2
<1>4. PICK y : SetTurns(y, m, s, c, k - 1)
  BY <1>3
<1> DEFINE Newest == Poke(y[k - 1], s + (k - 1), c)
           z == [j \in 0 .. k |-> IF j = k THEN Newest ELSE y[j]]
<1>5. ASSUME NEW j \in 0 .. k
      PROVE  z[j] = IF j = 0 THEN m ELSE Poke(z[j - 1], s + (j - 1), c)
  <2>1. CASE j = k
    <3>1. z[j] = Newest /\ z[k - 1] = y[k - 1]
      BY <2>1, <1>2, <1>3
    <3> QED  BY <3>1, <2>1, <1>2
  <2>2. CASE j # k
    <3>1. j \in 0 .. (k - 1) /\ z[j] = y[j]
      BY <2>2, <1>3
    <3>2. y[j] = IF j = 0 THEN m ELSE Poke(y[j - 1], s + (j - 1), c)
      BY <3>1, <1>4 DEF SetTurns
    <3>3. j # 0 => z[j - 1] = y[j - 1]
      BY <3>1, <1>3
    <3> QED  BY <3>1, <3>2, <3>3
  <2> QED  BY <2>1, <2>2
<1> HIDE DEF Newest
<1>6. SetTurns(z, m, s, c, k)
  BY <1>5 DEF SetTurns
<1> HIDE DEF z
<1> QED  BY <1>1, <1>6

MoveTurns(y, m, dst, src, size, offset, n) ==
    y = [k \in 0 .. n |->
            IF k = 0 THEN m ELSE movs(y[k - 1], dst + offset[k], src + offset[k], size)]

(* The turns of a repeated move. *)
LEMMA MoveTurnsExist ==
  ASSUME NEW m, NEW dst, NEW src, NEW size, NEW offset, NEW n \in Nat
  PROVE  \E y : MoveTurns(y, m, dst, src, size, offset, n)
<1> DEFINE Bad == {k \in Nat : ~ \E y : MoveTurns(y, m, dst, src, size, offset, k)}
<1> SUFFICES ASSUME Bad # {} PROVE FALSE
  OBVIOUS
<1>1. PICK k \in Bad : \A j \in Bad : k <= j
  BY LeastNatural
<1>2. k # 0
  <2> DEFINE z == [j \in 0 .. 0 |-> m]
  <2>1. z = [j \in 0 .. 0 |-> IF j = 0 THEN m ELSE movs(z[j - 1], dst + offset[j], src + offset[j], size)]
    OBVIOUS
  <2>2. MoveTurns(z, m, dst, src, size, offset, 0)
    BY <2>1 DEF MoveTurns
  <2> QED  BY <2>2
<1>3. k - 1 \in Nat /\ k - 1 \notin Bad /\ k \in Nat
  BY <1>1, <1>2
<1>4. PICK y : MoveTurns(y, m, dst, src, size, offset, k - 1)
  BY <1>3
<1> DEFINE Newest == movs(y[k - 1], dst + offset[k], src + offset[k], size)
           z == [j \in 0 .. k |-> IF j = k THEN Newest ELSE y[j]]
<1>5. ASSUME NEW j \in 0 .. k
      PROVE  z[j] = IF j = 0 THEN m ELSE movs(z[j - 1], dst + offset[j], src + offset[j], size)
  <2>1. CASE j = k
    <3>1. z[j] = Newest /\ z[k - 1] = y[k - 1]
      BY <2>1, <1>2, <1>3
    <3> QED  BY <3>1, <2>1, <1>2
  <2>2. CASE j # k
    <3>1. j \in 0 .. (k - 1) /\ z[j] = y[j]
      BY <2>2, <1>3
    <3>2. y[j] = IF j = 0 THEN m ELSE movs(y[j - 1], dst + offset[j], src + offset[j], size)
      BY <3>1, <1>4 DEF MoveTurns
    <3>3. j # 0 => z[j - 1] = y[j - 1]
      BY <3>1, <1>3
    <3> QED  BY <3>1, <3>2, <3>3
  <2> QED  BY <2>1, <2>2
<1> HIDE DEF Newest
<1>6. MoveTurns(z, m, dst, src, size, offset, k)
  BY <1>5 DEF MoveTurns
<1> HIDE DEF z
<1> QED  BY <1>1, <1>6

(* m after the bytes b .. e - 1 of a range have been copied. *)
Copied(m, dst, src, b, e) ==
    [a \in DOMAIN m |-> IF dst + b <= a /\ a < dst + e THEN m[src + (a - dst)] ELSE m[a]]

(* The addresses of a range are in the memory. *)
LEMMA WithinIs ==
  ASSUME NEW m, NEW a \in Int, NEW n \in Int, Within(m, a, n)
  PROVE  \A x \in Int : a <= x /\ x < a + n => x \in DOMAIN m
<1> TAKE x \in Int
<1> HAVE a <= x /\ x < a + n
<1>1. x \in a .. (a + n - 1)
  OBVIOUS
<1> QED  BY <1>1 DEF Within

(* Upwards, what is read next has not been overwritten if dst is not       *)
(* inside of the range that is read, behind its begin.                     *)
LEMMA UpOnce ==
  ASSUME NEW S \in SUBSET Int, NEW m \in [S -> Nat], NEW dst \in Int, NEW src \in Int, NEW n \in Int,
         Within(m, src, n), Within(m, dst, n), dst <= src \/ dst >= src + n,
         NEW b \in Nat, NEW size \in Nat, b + size <= n
  PROVE  movs(Copied(m, dst, src, 0, b), dst + b, src + b, size) = Copied(m, dst, src, 0, b + size)
<1> DEFINE w == Copied(m, dst, src, 0, b)
           u == Copied(m, dst, src, 0, b + size)
           v == movs(w, dst + b, src + b, size)
<1>1. \A x \in Int : src <= x /\ x < src + n => x \in S
  BY WithinIs
<1>2. DOMAIN w = S /\ \A a \in S : w[a] = IF dst + 0 <= a /\ a < dst + b THEN m[src + (a - dst)] ELSE m[a]
  BY DEF Copied
<1>3. \A a \in S : u[a] = IF dst + 0 <= a /\ a < dst + (b + size) THEN m[src + (a - dst)] ELSE m[a]
  BY DEF Copied
<1>4. v = [a \in S |-> IF a \in (dst + b) .. ((dst + b) + (size - 1)) THEN w[(src + b) + (a - (dst + b))] ELSE w[a]]
  <2>1. \A x \in Int : dst <= x /\ x < dst + n => x \in S
    BY WithinIs
  <2>2. \A x \in (dst + b) .. ((dst + b) + (size - 1)) : x \in S
    BY <2>1
  <2>3. S \cup ((dst + b) .. ((dst + b) + (size - 1))) = S
    BY <2>2
  <2> QED  BY ONLY <1>2, <2>3 DEF movs
<1>5. u = [a \in S |-> u[a]]
  BY DEF Copied
<1> HIDE DEF w, u, v
<1>6. ASSUME NEW a \in S PROVE v[a] = u[a]
  <2>1. v[a] = IF a \in (dst + b) .. ((dst + b) + (size - 1)) THEN w[(src + b) + (a - (dst + b))] ELSE w[a]
    BY <1>4
  <2>2. CASE dst + b <= a /\ a < dst + (b + size)
    <3>1. PICK x \in Int : x = src + (a - dst) /\ x = (src + b) + (a - (dst + b))
      OBVIOUS
    <3>2. src + b <= x /\ x < src + (b + size)
      BY <2>2, <3>1
    <3>3. x \in S
      BY <1>1, <3>2
    <3>4. ~(dst + 0 <= x /\ x < dst + b)
      BY <3>2
    <3>5. w[x] = m[x]
      BY ONLY <1>2, <3>3, <3>4
    <3>6. a \in (dst + b) .. ((dst + b) + (size - 1)) /\ dst + 0 <= a
      BY <2>2
    <3>7. v[a] = m[x]
      BY ONLY <2>1, <3>1, <3>5, <3>6
    <3>8. u[a] = m[x]
      BY ONLY <1>3, <2>2, <3>1, <3>6, a \in S
    <3> QED  BY ONLY <3>7, <3>8
  <2>3. CASE ~(dst + b <= a /\ a < dst + (b + size))
    <3>1. a \notin (dst + b) .. ((dst + b) + (size - 1))
      BY <2>3
    <3>2. (dst + 0 <= a /\ a < dst + (b + size)) <=> (dst + 0 <= a /\ a < dst + b)
      BY <2>3
    <3> QED  BY ONLY <1>2, <1>3, <2>1, <3>1, <3>2, a \in S
  <2> QED  BY <2>2, <2>3
<1>7. v = [a \in S |-> v[a]]
  BY <1>4
<1>8. v = u
  BY ONLY <1>5, <1>6, <1>7
<1> QED  BY <1>8 DEF v, w, u

(* Downwards, if dst is not in front of the range that is read. *)
LEMMA DownOnce ==
  ASSUME NEW S \in SUBSET Int, NEW m \in [S -> Nat], NEW dst \in Int, NEW src \in Int, NEW n \in Int,
         Within(m, src, n), Within(m, dst, n), src <= dst, NEW b \in Nat, b < n
  PROVE  movs(Copied(m, dst, src, b + 1, n), dst + b, src + b, 1) = Copied(m, dst, src, b, n)
<1> DEFINE w == Copied(m, dst, src, b + 1, n)
           u == Copied(m, dst, src, b, n)
           v == movs(w, dst + b, src + b, 1)
<1>1. \A x \in Int : src <= x /\ x < src + n => x \in S
  BY WithinIs
<1>2. DOMAIN w = S /\ \A a \in S : w[a] = IF dst + (b + 1) <= a /\ a < dst + n THEN m[src + (a - dst)] ELSE m[a]
  BY DEF Copied
<1>3. \A a \in S : u[a] = IF dst + b <= a /\ a < dst + n THEN m[src + (a - dst)] ELSE m[a]
  BY DEF Copied
<1>4. v = [a \in S |-> IF a \in (dst + b) .. ((dst + b) + (1 - 1)) THEN w[(src + b) + (a - (dst + b))] ELSE w[a]]
  <2>1. \A x \in Int : dst <= x /\ x < dst + n => x \in S
    BY WithinIs
  <2>2. \A x \in (dst + b) .. ((dst + b) + (1 - 1)) : x \in S
    BY <2>1
  <2>3. S \cup ((dst + b) .. ((dst + b) + (1 - 1))) = S
    BY <2>2
  <2> QED  BY ONLY <1>2, <2>3 DEF movs
<1>5. u = [a \in S |-> u[a]]
  BY DEF Copied
<1> HIDE DEF w, u, v
<1>6. ASSUME NEW a \in S PROVE v[a] = u[a]
  <2>1. v[a] = IF a \in (dst + b) .. ((dst + b) + (1 - 1)) THEN w[(src + b) + (a - (dst + b))] ELSE w[a]
    BY <1>4
  <2>2. CASE a = dst + b
    <3>1. PICK x \in Int : x = src + (a - dst) /\ x = (src + b) + (a - (dst + b))
      OBVIOUS
    <3>2. x = src + b
      BY <2>2, <3>1
    <3>3. x \in S
      BY <1>1, <3>2
    <3>4. ~(dst + (b + 1) <= x /\ x < dst + n)
      BY <3>2
    <3>5. w[x] = m[x]
      BY ONLY <1>2, <3>3, <3>4
    <3>6. a \in (dst + b) .. ((dst + b) + (1 - 1)) /\ dst + b <= a /\ a < dst + n
      BY <2>2
    <3>7. v[a] = m[x]
      BY ONLY <2>1, <3>1, <3>5, <3>6
    <3>8. u[a] = m[x]
      BY ONLY <1>3, <3>1, <3>6, a \in S
    <3> QED  BY ONLY <3>7, <3>8
  <2>3. CASE a # dst + b
    <3>1. a \notin (dst + b) .. ((dst + b) + (1 - 1))
      BY <2>3
    <3>2. (dst + (b + 1) <= a /\ a < dst + n) <=> (dst + b <= a /\ a < dst + n)
      BY <2>3
    <3> QED  BY ONLY <1>2, <1>3, <2>1, <3>1, <3>2, a \in S
  <2> QED  BY <2>2, <2>3
<1>7. v = [a \in S |-> v[a]]
  BY <1>4
<1>8. v = u
  BY ONLY <1>5, <1>6, <1>7
<1> QED  BY <1>8 DEF v, w, u

(* Turn k of a loop copies the `size` bytes from at[k - 1] on. *)
Upwards(at, offset, size, count, n) ==
    /\ Len(offset) = count
    /\ \A k \in 0 .. count : at[k] \in Nat /\ at[k] <= n
    /\ \A k \in 1 .. count : offset[k] = at[k - 1] /\ at[k] = at[k - 1] + size

(* A repeated move upwards copies what its turns cover. *)
LEMMA CopyUp ==
  ASSUME NEW S \in SUBSET Int, NEW m \in [S -> Nat], NEW dst \in Int, NEW src \in Int, NEW n \in Int,
         Within(m, src, n), Within(m, dst, n), dst <= src \/ dst >= src + n,
         NEW size \in Nat, NEW offset, NEW count \in Nat, NEW at, Upwards(at, offset, size, count, n)
  PROVE  rep_movs(Copied(m, dst, src, 0, at[0]), dst, src, size, offset)
            = Copied(m, dst, src, 0, at[count])
<1> DEFINE first == Copied(m, dst, src, 0, at[0])
           y == CHOOSE z : MoveTurns(z, first, dst, src, size, offset, count)
<1>1. MoveTurns(y, first, dst, src, size, offset, count)
  BY MoveTurnsExist
<1>2. rep_movs(first, dst, src, size, offset) = y[count]
  BY DEF rep_movs, MoveTurns, Upwards
<1> HIDE DEF first, y
<1>3. /\ y[0] = first
      /\ \A k \in 1 .. count : y[k] = movs(y[k - 1], dst + offset[k], src + offset[k], size)
  <2>1. \A k \in 1 .. count : k \in 0 .. count /\ k # 0
    OBVIOUS
  <2> QED  BY <1>1, <2>1 DEF MoveTurns
<1> DEFINE Bad == {k \in Nat : k <= count /\ y[k] # Copied(m, dst, src, 0, at[k])}
<1>4. ASSUME Bad # {} PROVE FALSE
  <2>1. PICK k \in Bad : \A j \in Bad : k <= j
    BY <1>4, LeastNatural
  <2>2. k # 0
    BY <1>3 DEF first
  <2>3. PICK h \in Nat : h = k - 1 /\ k \in 1 .. count /\ h \in 0 .. count /\ h \notin Bad /\ k \in 0 .. count
    <3>1. k - 1 \in Nat /\ ~(k <= k - 1) /\ k \in 1 .. count /\ k - 1 \in 0 .. count
      BY <2>2
    <3> QED  BY <2>1, <3>1
  <2>4. PICK b \in Nat : b = at[h] /\ offset[k] = b /\ at[k] = b + size /\ b + size <= n
    BY ONLY <2>3, Upwards(at, offset, size, count, n) DEF Upwards
  <2>5. y[h] = Copied(m, dst, src, 0, b)
    BY <2>3, <2>4
  <2>6. y[k] = movs(Copied(m, dst, src, 0, b), dst + b, src + b, size)
    BY ONLY <1>3, <2>3, <2>4, <2>5
  <2>7. movs(Copied(m, dst, src, 0, b), dst + b, src + b, size) = Copied(m, dst, src, 0, b + size)
    BY ONLY <2>4, UpOnce, S \in SUBSET Int, m \in [S -> Nat], dst \in Int, src \in Int, n \in Int,
            size \in Nat, b \in Nat, Within(m, src, n), Within(m, dst, n), dst <= src \/ dst >= src + n
  <2> QED  BY <2>4, <2>6, <2>7
<1>5. y[count] = Copied(m, dst, src, 0, at[count])
  BY <1>4
<1> QED  BY <1>2, <1>5 DEF first

(* The downward loop of memmove copies the whole range. *)
LEMMA CopyDown ==
  ASSUME NEW S \in SUBSET Int, NEW m \in [S -> Nat], NEW dst \in Int, NEW src \in Int, NEW n \in Nat,
         Within(m, src, n), Within(m, dst, n), src <= dst
  PROVE  MoveDown(m, dst, src, n) = Copied(m, dst, src, 0, n)
<1> DEFINE offset == [k \in 1 .. n |-> n - k]
           y == CHOOSE z : MoveTurns(z, m, dst, src, 1, offset, n)
<1>1. MoveTurns(y, m, dst, src, 1, offset, n)
  BY MoveTurnsExist
<1>2. MoveDown(m, dst, src, n) = y[n]
  <2>1. Len(offset) = n
    OBVIOUS
  <2> HIDE DEF offset
  <2>2. rep_movs(m, dst, src, 1, offset) = y[n]
    BY ONLY <2>1 DEF rep_movs, MoveTurns, y
  <2> QED  BY ONLY <2>2 DEF MoveDown, offset
<1>3. \A k \in 1 .. n : offset[k] = n - k
  OBVIOUS
<1> HIDE DEF y, offset
<1>4. /\ y[0] = m
      /\ \A k \in 1 .. n : y[k] = movs(y[k - 1], dst + offset[k], src + offset[k], 1)
  <2>1. \A k \in 1 .. n : k \in 0 .. n /\ k # 0
    OBVIOUS
  <2> QED  BY <1>1, <2>1 DEF MoveTurns
<1>5. Copied(m, dst, src, n, n) = m
  <2>1. \A a \in S : ~(dst + n <= a /\ a < dst + n)
    OBVIOUS
  <2> QED  BY <2>1 DEF Copied
<1> DEFINE Bad == {k \in Nat : k <= n /\ y[k] # Copied(m, dst, src, n - k, n)}
<1>6. ASSUME Bad # {} PROVE FALSE
  <2>1. PICK k \in Bad : \A j \in Bad : k <= j
    BY <1>6, LeastNatural
  <2>2. k # 0
    <3>1. n - 0 = n
      OBVIOUS
    <3> QED  BY <1>4, <1>5, <3>1
  <2>3. PICK h, b \in Nat : /\ h = k - 1 /\ k \in 1 .. n /\ h \notin Bad /\ h <= n
                            /\ b = n - k /\ n - h = b + 1 /\ b < n
    <3>1. k - 1 \in Nat /\ ~(k <= k - 1) /\ k \in 1 .. n /\ k - 1 <= n
      BY <2>2
    <3>2. n - k \in Nat /\ n - (k - 1) = (n - k) + 1 /\ n - k < n
      BY <3>1
    <3> QED  BY <2>1, <3>1, <3>2
  <2>4. y[h] = Copied(m, dst, src, b + 1, n)
    BY <2>3
  <2>5. offset[k] = b
    BY <1>3, <2>3
  <2>6. y[k] = movs(Copied(m, dst, src, b + 1, n), dst + b, src + b, 1)
    BY ONLY <1>4, <2>3, <2>4, <2>5
  <2>7. movs(Copied(m, dst, src, b + 1, n), dst + b, src + b, 1) = Copied(m, dst, src, b, n)
    BY <2>3, DownOnce
  <2> QED  BY <2>3, <2>6, <2>7
<1>7. y[n] = Copied(m, dst, src, 0, n)
  <2>1. n \notin Bad
    BY <1>6
  <2>2. n - n = 0
    OBVIOUS
  <2> QED  BY <2>1, <2>2
<1> QED  BY <1>2, <1>7

(* So do the double words and the bytes of memcpy together. *)
LEMMA CopyForwards ==
  ASSUME NEW S \in SUBSET Int, NEW m \in [S -> Nat], NEW dst \in Int, NEW src \in Int, NEW n \in Nat,
         Within(m, src, n), Within(m, dst, n), dst <= src \/ dst >= src + n
  PROVE  memcpy(m, dst, src, n) = Copied(m, dst, src, 0, n)
<1>1. PICK words, rest \in Nat : words = n \div Dword /\ rest = n % Dword /\ n = 4 * words + rest
  BY DEF Dword
<1> DEFINE one == [k \in 1 .. words |-> Dword * (k - 1)]
           two == [k \in 1 .. rest |-> Dword * words + (k - 1)]
           upto == [k \in 0 .. words |-> 4 * k]
           further == [k \in 0 .. rest |-> 4 * words + k]
<1>2. Copied(m, dst, src, 0, 0) = m
  <2>1. \A a \in S : ~(dst + 0 <= a /\ a < dst + 0)
    OBVIOUS
  <2> QED  BY <2>1 DEF Copied
<1>3. /\ Len(one) = words /\ Len(two) = rest
      /\ upto[0] = 0 /\ upto[words] = 4 * words
      /\ further[0] = 4 * words /\ further[rest] = n
  BY <1>1
<1>4. Upwards(upto, one, 4, words, n)
  <2>1. \A k \in 0 .. words : upto[k] \in Nat /\ upto[k] <= n
    BY <1>1
  <2>2. \A k \in 1 .. words : one[k] = upto[k - 1] /\ upto[k] = upto[k - 1] + 4
    BY <1>1 DEF Dword
  <2> HIDE DEF one, upto
  <2> QED  BY ONLY <1>3, <2>1, <2>2 DEF Upwards
<1>5. Upwards(further, two, 1, rest, n)
  <2>1. \A k \in 0 .. rest : further[k] \in Nat /\ further[k] <= n
    BY <1>1
  <2>2. \A k \in 1 .. rest : two[k] = further[k - 1] /\ further[k] = further[k - 1] + 1
    BY <1>1 DEF Dword
  <2> HIDE DEF two, further
  <2> QED  BY ONLY <1>3, <2>1, <2>2 DEF Upwards
<1>6. memcpy(m, dst, src, n) = rep_movs(rep_movs(m, dst, src, 4, one), dst, src, 1, two)
  BY ONLY <1>1 DEF memcpy, Dword
<1> HIDE DEF one, two, upto, further
<1>7. rep_movs(Copied(m, dst, src, 0, upto[0]), dst, src, 4, one) = Copied(m, dst, src, 0, upto[words])
  <2>1. 4 \in Nat
    OBVIOUS
  <2> QED  BY ONLY <1>4, <2>1, CopyUp, S \in SUBSET Int, m \in [S -> Nat], dst \in Int, src \in Int,
                   n \in Int, n \in Nat, words \in Nat, Within(m, src, n), Within(m, dst, n),
                    dst <= src \/ dst >= src + n
<1>8. rep_movs(Copied(m, dst, src, 0, further[0]), dst, src, 1, two)
         = Copied(m, dst, src, 0, further[rest])
  <2>1. 1 \in Nat
    OBVIOUS
  <2> QED  BY ONLY <1>5, <2>1, CopyUp, S \in SUBSET Int, m \in [S -> Nat], dst \in Int, src \in Int,
                   n \in Int, n \in Nat, rest \in Nat, Within(m, src, n), Within(m, dst, n),
                   dst <= src \/ dst >= src + n
<1> QED  BY ONLY <1>2, <1>3, <1>6, <1>7, <1>8

(* memset writes c into the range and nowhere else. *)
LEMMA FillAll ==
  ASSUME NEW S \in SUBSET Int, NEW m \in [S -> Nat], NEW s \in Int, NEW n \in Nat, Within(m, s, n),
         NEW c
  PROVE  memset(m, s, c, n) = [a \in S |-> IF s <= a /\ a < s + n THEN c ELSE m[a]]
<1> DEFINE Filled(k) == [a \in S |-> IF s <= a /\ a < s + k THEN c ELSE m[a]]
           y == CHOOSE z : SetTurns(z, m, s, c, n)
<1>1. SetTurns(y, m, s, c, n)
  BY SetTurnsExist
<1>2. memset(m, s, c, n) = y[n]
  BY DEF memset, SetTurns
<1> HIDE DEF y
<1>3. y[0] = m /\ \A k \in 1 .. n : y[k] = Poke(y[k - 1], s + (k - 1), c)
  <2>1. \A k \in 1 .. n : k \in 0 .. n /\ k # 0
    OBVIOUS
  <2> QED  BY <1>1, <2>1 DEF SetTurns
<1>4. Filled(0) = m
  <2>1. \A a \in S : ~(s <= a /\ a < s + 0)
    OBVIOUS
  <2> QED  BY <2>1
<1> DEFINE Bad == {k \in Nat : k <= n /\ y[k] # Filled(k)}
<1>5. ASSUME Bad # {} PROVE FALSE
  <2>1. PICK k \in Bad : \A j \in Bad : k <= j
    BY <1>5, LeastNatural
  <2>2. k # 0
    BY <1>3, <1>4
  <2>3. PICK h \in Nat : h = k - 1 /\ k = h + 1 /\ k \in 1 .. n /\ h \notin Bad /\ h < n
    <3>1. k - 1 \in Nat /\ ~(k <= k - 1) /\ k \in 1 .. n /\ k = (k - 1) + 1 /\ k - 1 < n
      BY <2>2
    <3> QED  BY <2>1, <3>1
  <2>4. y[k] = Poke(Filled(h), s + h, c)
    <3>1. y[h] = Filled(h)
      BY <2>3
    <3> HIDE DEF Filled
    <3> QED  BY ONLY <1>3, <2>3, <3>1
  <2>5. Poke(Filled(h), s + h, c) = [a \in S |-> IF a = s + h THEN c ELSE Filled(h)[a]]
    <3>1. s + h \in S
      BY <2>3, WithinIs
    <3>2. S \cup {s + h} = S
      BY <3>1
    <3> QED  BY <3>2 DEF Poke
  <2>6. ASSUME NEW a \in S
        PROVE  (IF a = s + h THEN c ELSE Filled(h)[a]) = IF s <= a /\ a < s + k THEN c ELSE m[a]
    BY <2>3
  <2>7. [a \in S |-> IF a = s + h THEN c ELSE Filled(h)[a]] = Filled(k)
    <3> HIDE DEF Bad
    <3> QED  BY <2>6
  <2> QED  BY <2>4, <2>5, <2>7
<1>6. y[n] = Filled(n)
  <2>1. n \notin Bad
    BY <1>5
  <2> HIDE DEF Filled
  <2> QED  BY <2>1
<1> QED  BY <1>2, <1>6

(* Where a scan ends. *)
LEMMA AdvanceStops ==
  ASSUME NEW stop, NEW s \in Int, NEW e \in Int, s <= e, e \in stop
  PROVE  \E k \in Int : /\ Advance(stop, s) = k /\ s <= k /\ k <= e /\ k \in stop
                         /\ \A a \in Int : s <= a /\ a < k => a \notin stop
<1>1. PICK n \in Hits(stop, s) : \A j \in Hits(stop, s) : n <= j
  <2>1. e - s \in Nat /\ s + (e - s) = e
    OBVIOUS
  <2>2. e - s \in Hits(stop, s) /\ Hits(stop, s) \in SUBSET Nat
    BY <2>1 DEF Hits
  <2> QED  BY <2>2, LeastNatural
<1>2. n \in Nat /\ s + n \in stop /\ \A j \in Nat : s + j \in stop => n <= j
  BY <1>1 DEF Hits
<1>3. PICK k \in Int : k = s + n /\ s <= k
  BY <1>2
<1>4. ASSUME NEW a \in Int, s <= a, a < k PROVE a \notin stop
  <2>1. a - s \in Nat /\ s + (a - s) = a /\ ~(n <= a - s)
    BY <1>2, <1>3, <1>4
  <2> QED  BY <1>2, <2>1
<1>5. k <= e
  BY <1>4
<1>6. Advance(stop, s) = k
  BY <1>2, <1>3, <1>4, AdvanceIs
<1> QED  BY <1>2, <1>3, <1>4, <1>5, <1>6

(* s and t are the same up to k, where one has x and the other y, and the   *)
(* one that ends there has less.                                           *)
Parted(s, t, k, x, y) ==
    /\ k <= Len(s) /\ k <= Len(t) /\ \A j \in 1 .. k : s[j] = t[j]
    /\ (k < Len(s) => x = s[k + 1]) /\ (k < Len(t) => y = t[k + 1])
    /\ (k = Len(s) => x <= y) /\ (k = Len(t) => y <= x)
    /\ x = y => k = Len(s) /\ k = Len(t)

(* Where two sequences part, the larger element decides their order. *)
LEMMA OrderAt ==
  ASSUME NEW s \in Seq(Nat), NEW t \in Seq(Nat), NEW k \in Nat, NEW x \in Int, NEW y \in Int,
         Parted(s, t, k, x, y), NEW r \in Int, r < 0 <=> x < y, r = 0 <=> x = y
  PROVE  SameOrder(r, s, t)
<1>1. PICK p, q \in Nat : p = Len(s) /\ q = Len(t)
  OBVIOUS
<1>2. /\ k <= p /\ k <= q /\ \A j \in 1 .. k : s[j] = t[j]
      /\ (k < p => x = s[k + 1]) /\ (k < q => y = t[k + 1])
      /\ (k = p => x <= y) /\ (k = q => y <= x)
      /\ x = y => k = p /\ k = q
  BY ONLY <1>1, Parted(s, t, k, x, y) DEF Parted
<1>3. ASSUME Below(s, t) PROVE x < y
  <2>1. PICK i \in 1 .. q : /\ \A j \in 1 .. (i - 1) : j <= p /\ s[j] = t[j]
                            /\ (i = p + 1 \/ (i <= p /\ s[i] < t[i]))
    BY ONLY <1>1, <1>3 DEF Below
  <2>2. ~(i <= k)
    <3> SUFFICES ASSUME i <= k PROVE FALSE
      OBVIOUS
    <3>1. i \in 1 .. k /\ i # p + 1 /\ i \in 1 .. p
      BY <1>2
    <3>2. PICK a, b \in Nat : a = s[i] /\ b = t[i]
      BY <1>1, <3>1
    <3>3. s[i] = t[i]
      BY ONLY <1>2, <3>1
    <3>4. s[i] < t[i]
      BY ONLY <2>1, <3>1
    <3>5. a = b
      BY ONLY <3>2, <3>3
    <3>6. a < b
      BY ONLY <3>2, <3>4
    <3> QED  BY ONLY <3>5, <3>6, a \in Nat, b \in Nat
  <2>3. k < q /\ k + 1 <= i
    BY <2>2
  <2>4. x # y
    BY <1>2, <2>3
  <2>5. ~(k + 1 < i)
    <3> SUFFICES ASSUME k + 1 < i PROVE FALSE
      OBVIOUS
    <3>1. k + 1 \in 1 .. (i - 1)
      OBVIOUS
    <3>2. k + 1 <= p /\ s[k + 1] = t[k + 1]
      BY <2>1, <3>1
    <3>3. k < p
      BY <3>2
    <3> QED  BY ONLY <1>2, <2>3, <2>4, <3>2, <3>3
  <2>6. i = k + 1
    BY <2>3, <2>5
  <2>7. CASE i = p + 1
    <3>1. k = p
      BY <2>6, <2>7
    <3> QED  BY ONLY <1>2, <2>4, <3>1, x \in Int, y \in Int
  <2>8. CASE i <= p /\ s[i] < t[i]
    <3>1. k < p
      BY <2>6, <2>8
    <3>2. s[k + 1] < t[k + 1]
      BY ONLY <2>6, <2>8
    <3>3. x = s[k + 1] /\ y = t[k + 1]
      BY ONLY <1>2, <2>3, <3>1
    <3> QED  BY ONLY <3>2, <3>3
  <2> QED  BY <2>1, <2>7, <2>8
<1>4. ASSUME x < y PROVE Below(s, t)
  <2>1. k # q
    BY <1>2, <1>4
  <2>2. k < q /\ k + 1 \in 1 .. q /\ (k + 1) - 1 = k
    BY <1>2, <2>1
  <2>3. \A j \in 1 .. ((k + 1) - 1) : j <= p /\ s[j] = t[j]
    BY <1>2, <2>2
  <2>4. CASE k = p
    <3>1. k + 1 = p + 1
      BY <2>4
    <3> QED  BY ONLY <1>1, <2>2, <2>3, <3>1 DEF Below
  <2>5. CASE k < p
    <3>1. k + 1 <= p
      BY <2>5
    <3>2. s[k + 1] < t[k + 1]
      BY ONLY <1>2, <1>4, <2>2, <2>5
    <3> QED  BY ONLY <1>1, <2>2, <2>3, <3>1, <3>2 DEF Below
  <2> QED  BY <1>2, <2>4, <2>5
<1>5. ASSUME x = y PROVE s = t
  <2>1. p = q /\ k = p
    BY <1>2, <1>5
  <2>2. \A j \in 1 .. p : s[j] = t[j]
    BY <1>2, <2>1
  <2> QED  BY <1>1, <2>1, <2>2, SeqEqual
<1>6. ASSUME s = t PROVE x = y
  <2>1. p = q
    BY <1>1, <1>6
  <2>2. CASE k = p
    BY <1>2, <2>1, <2>2
  <2>3. CASE k < p
    BY ONLY <1>2, <1>6, <2>1, <2>3
  <2> QED  BY <1>2, <2>2, <2>3
<1>7. Below(s, t) <=> x < y
  BY <1>3, <1>4
<1>8. s = t <=> x = y
  BY <1>5, <1>6
<1> QED  BY ONLY <1>7, <1>8, r < 0 <=> x < y, r = 0 <=> x = y DEF SameOrder

(* The bytes from s on, counted from 1. *)
LEMMA BytesAre ==
  ASSUME NEW m, NEW s \in Int, NEW n \in Nat
  PROVE  Len(Bytes(m, s, n)) = n /\ \A i \in 1 .. n : Bytes(m, s, n)[i] = m[s + (i - 1)]
BY DEF Bytes

(* The bytes from s on, counted from 0. *)
LEMMA BytesRead ==
  ASSUME NEW S \in SUBSET Int, NEW m \in [S -> Nat], NEW s \in Int, NEW n \in Nat, Within(m, s, n)
  PROVE  /\ Bytes(m, s, n) \in Seq(Nat) /\ Len(Bytes(m, s, n)) = n
         /\ \A k \in 0 .. n - 1 : Bytes(m, s, n)[k + 1] = m[s + k] /\ m[s + k] \in Nat
<1>1. \A x \in Int : s <= x /\ x < s + n => x \in S
  BY WithinIs
<1>2. ASSUME NEW k \in 0 .. n - 1
      PROVE  Bytes(m, s, n)[k + 1] = m[s + k] /\ m[s + k] \in Nat
  <2>1. k + 1 \in 1 .. n /\ (k + 1) - 1 = k
    OBVIOUS
  <2>2. Bytes(m, s, n)[k + 1] = m[s + k]
    BY ONLY <2>1, BytesAre, s \in Int, n \in Nat
  <2>3. s + k \in S
    BY <1>1
  <2> QED  BY <2>2, <2>3
<1>3. ASSUME NEW i \in 1 .. n PROVE m[s + (i - 1)] \in Nat
  <2>1. s + (i - 1) \in S
    BY <1>1
  <2> QED  BY <2>1
<1>4. Bytes(m, s, n) \in Seq(Nat)
  BY <1>3 DEF Bytes
<1> QED  BY <1>2, <1>4, BytesAre

(* memcmp. *)
LEMMA Compared ==
  ASSUME NEW S \in SUBSET Int, NEW m \in [S -> Nat], NEW v1 \in Int, NEW v2 \in Int, NEW n \in Nat,
         Within(m, v1, n), Within(m, v2, n)
  PROVE  SameOrder(memcmp(m, v1, v2, n), Bytes(m, v1, n), Bytes(m, v2, n))
<1> DEFINE s == Bytes(m, v1, n)
           t == Bytes(m, v2, n)
           stop == {i \in Int : i = n \/ m[v1 + i] # m[v2 + i]}
<1>1. PICK k \in Int : /\ Advance(stop, 0) = k /\ 0 <= k /\ k <= n /\ k \in stop
                        /\ \A a \in Int : 0 <= a /\ a < k => a \notin stop
  <2>1. n \in stop /\ 0 \in Int /\ n \in Int /\ 0 <= n
    OBVIOUS
  <2> HIDE DEF stop
  <2> QED  BY <2>1, AdvanceStops
<1>2. memcmp(m, v1, v2, n) = IF k = n THEN 0 ELSE m[v1 + k] - m[v2 + k]
  BY <1>1 DEF memcmp
<1>3. /\ s \in Seq(Nat) /\ t \in Seq(Nat) /\ Len(s) = n /\ Len(t) = n
      /\ \A i \in 0 .. n - 1 : /\ s[i + 1] = m[v1 + i] /\ t[i + 1] = m[v2 + i]
                                 /\ m[v1 + i] \in Nat /\ m[v2 + i] \in Nat
  BY BytesRead
<1> HIDE DEF s, t
<1>4. PICK x, y \in Nat : IF k = n THEN x = 0 /\ y = 0 ELSE x = m[v1 + k] /\ y = m[v2 + k] /\ x # y
  <2>1. CASE k = n
    BY <2>1
  <2>2. CASE k # n
    <3>1. k \in 0 .. n - 1
      BY <1>1, <2>2
    <3>2. m[v1 + k] # m[v2 + k]
      BY <1>1, <2>2
    <3> QED  BY <1>3, <2>2, <3>1, <3>2
  <2> QED  BY <2>1, <2>2
<1>5. PICK r \in Int : r = x - y /\ (r < 0 <=> x < y) /\ (r = 0 <=> x = y)
  OBVIOUS
<1>6. memcmp(m, v1, v2, n) = r
  BY ONLY <1>2, <1>4, <1>5, x \in Nat, y \in Nat
<1>7. Parted(s, t, k, x, y)
  <2>1. ASSUME NEW j \in 1 .. k PROVE s[j] = t[j]
    <3>1. PICK i \in Int : j = i + 1 /\ 0 <= i /\ i < k
      <4>1. j - 1 \in Int /\ j = (j - 1) + 1 /\ 0 <= j - 1 /\ j - 1 < k
        OBVIOUS
      <4> QED  BY <4>1
    <3>2. i \in 0 .. n - 1
      BY <1>1, <3>1
    <3>3. m[v1 + i] = m[v2 + i]
      BY <1>1, <3>1
    <3> QED  BY ONLY <1>3, <3>1, <3>2, <3>3
  <2>2. k < n => k \in 0 .. n - 1 /\ k # n
    BY <1>1
  <2>3. k = n => x = y /\ x <= y /\ y <= x
    BY <1>4
  <2> QED  BY ONLY <1>1, <1>3, <1>4, <2>1, <2>2, <2>3 DEF Parted
<1>8. SameOrder(r, s, t)
  BY <1>1, <1>3, <1>5, <1>7, OrderAt
<1> QED  BY <1>6, <1>8 DEF s, t

(* What a finished copy means for the caller. *)
LEMMA CopiedHolds ==
  ASSUME NEW S \in SUBSET Int, NEW m \in [S -> Nat], NEW d \in Int, NEW s \in Int, NEW n \in Nat
  PROVE  Holds(m, Copied(m, d, s, 0, n), d, Bytes(m, s, n))
<1>1. PICK bytes : /\ bytes = Bytes(m, s, n)
                   /\ Len(bytes) = n /\ \A i \in 1 .. n : bytes[i] = m[s + (i - 1)]
  BY BytesAre
<1>2. ASSUME NEW a \in S
      PROVE  (IF d + 0 <= a /\ a < d + n THEN m[s + (a - d)] ELSE m[a])
                = IF a \in d .. (d + (n - 1)) THEN bytes[a - d + 1] ELSE m[a]
  <2>1. a \in Int
    OBVIOUS
  <2>2. (d + 0 <= a /\ a < d + n) <=> a \in d .. (d + (n - 1))
    BY <2>1
  <2>3. d + 0 <= a /\ a < d + n => a - d + 1 \in 1 .. n /\ (a - d + 1) - 1 = a - d
    BY <2>1
  <2> QED  BY <1>1, <2>2, <2>3
<1> QED  BY ONLY m \in [S -> Nat], <1>1, <1>2 DEF Holds, Copied

(* What MemoryAgrees says of the n bytes from d on. *)
RangeRight(m, S, d, n) ==
    /\ \A c \in {m[a] : a \in S} : Holds(m, memset(m, d, c, n), d, [i \in 1 .. n |-> c])
    /\ \A s \in S : Within(m, s, n) =>
          /\ Holds(m, memmove(m, d, s, n), d, Bytes(m, s, n))
          /\ d <= s \/ d >= s + n => Holds(m, memcpy(m, d, s, n), d, Bytes(m, s, n))
          /\ SameOrder(memcmp(m, d, s, n), Bytes(m, d, n), Bytes(m, s, n))

(* All four functions on one range. *)
LEMMA RangeIsRight ==
  ASSUME NEW S \in SUBSET Int, NEW m \in [S -> 0 .. 255],
         NEW d \in S, NEW n \in Nat, Within(m, d, n)
  PROVE  RangeRight(m, S, d, n)
<1>1. n \in Nat /\ d \in Int /\ m \in [S -> Nat] /\ DOMAIN m = S
  OBVIOUS
<1>2. ASSUME NEW c PROVE Holds(m, memset(m, d, c, n), d, [i \in 1 .. n |-> c])
  <2> DEFINE bytes == [i \in 1 .. n |-> c]
  <2>1. memset(m, d, c, n) = [a \in S |-> IF d <= a /\ a < d + n THEN c ELSE m[a]]
    BY <1>1, FillAll
  <2>2. Len(bytes) = n /\ \A i \in 1 .. n : bytes[i] = c
    BY <1>1
  <2> HIDE DEF bytes
  <2>3. ASSUME NEW a \in S
        PROVE  (IF d <= a /\ a < d + n THEN c ELSE m[a])
                  = IF a \in d .. (d + (n - 1)) THEN bytes[a - d + 1] ELSE m[a]
    <3>1. a \in Int
      OBVIOUS
    <3>2. (d <= a /\ a < d + n) <=> a \in d .. (d + (n - 1))
      BY <1>1, <3>1
    <3>3. d <= a /\ a < d + n => a - d + 1 \in 1 .. n
      BY <1>1, <3>1
    <3> QED  BY <2>2, <3>2, <3>3
  <2>4. Holds(m, memset(m, d, c, n), d, bytes)
    BY ONLY <1>1, <2>1, <2>2, <2>3 DEF Holds
  <2> QED  BY <2>4 DEF bytes
<1>3. ASSUME NEW s \in Int PROVE Holds(m, Copied(m, d, s, 0, n), d, Bytes(m, s, n))
  BY <1>1, CopiedHolds
<1>4. ASSUME NEW s \in S, Within(m, s, n)
      PROVE  /\ Holds(m, memmove(m, d, s, n), d, Bytes(m, s, n))
             /\ d <= s \/ d >= s + n => Holds(m, memcpy(m, d, s, n), d, Bytes(m, s, n))
             /\ SameOrder(memcmp(m, d, s, n), Bytes(m, d, n), Bytes(m, s, n))
  <2>1. s \in Int
    OBVIOUS
  <2>2. d <= s \/ d >= s + n => memcpy(m, d, s, n) = Copied(m, d, s, 0, n)
    BY <1>1, <1>4, <2>1, CopyForwards
  <2>3. memmove(m, d, s, n) = Copied(m, d, s, 0, n)
    <3>1. CASE d < s
      <4>1. d <= s
        BY <1>1, <2>1, <3>1
      <4> QED  BY <2>2, <3>1, <4>1 DEF memmove
    <3>2. CASE ~(d < s)
      <4>1. s <= d
        BY <1>1, <2>1, <3>2
      <4>2. MoveDown(m, d, s, n) = Copied(m, d, s, 0, n)
        BY <1>1, <1>4, <2>1, <4>1, CopyDown
      <4> QED  BY <3>2, <4>2 DEF memmove
    <3> QED  BY <3>1, <3>2
  <2>4. SameOrder(memcmp(m, d, s, n), Bytes(m, d, n), Bytes(m, s, n))
    BY <1>1, <1>4, <2>1, Compared
  <2> QED  BY <1>3, <2>1, <2>2, <2>3, <2>4
<1>5. \A c \in {m[a] : a \in S} : Holds(m, memset(m, d, c, n), d, [i \in 1 .. n |-> c])
  BY ONLY <1>2
<1> QED  BY ONLY <1>4, <1>5 DEF RangeRight

(* memset, memmove, memcpy and memcmp (string.c, x86.h), for every memory   *)
(* and all ranges within it: each writes what it promises and nothing else, *)
(* memmove also if the ranges overlap in either direction, whether it moves *)
(* double words or bytes; memcmp orders the ranges as unsigned bytes.       *)
THEOREM MemoryTheorem == \A S \in SUBSET Int : \A m \in [S -> 0 .. 255] : MemoryAgrees(m)
<1> TAKE S \in SUBSET Int
<1> TAKE m \in [S -> 0 .. 255]
<1>1. DOMAIN m = S
  OBVIOUS
<1>2. \A d \in S, n \in 0 .. Cardinality(S) : Within(m, d, n) => RangeRight(m, S, d, n)
  <2> TAKE d \in S, n \in 0 .. Cardinality(S)
  <2>1. n \in Nat
    OBVIOUS
  <2> QED  BY <2>1, RangeIsRight
<1> QED  BY ONLY <1>1, <1>2 DEF MemoryAgrees, RangeRight

-----------------------------------------------------------------------------
(* Strings.  The n bytes in front of the terminator. *)
Terminated(m, s, n) ==
    Within(m, s, n + 1) /\ m[s + n] = NUL /\ \A k \in 0 .. n - 1 : m[s + k] # NUL

(* The text of a string is the bytes in front of its terminator. *)
LEMMA TextIs ==
  ASSUME NEW lo \in Int, NEW hi \in Int, NEW m \in [lo .. hi -> Nat], NEW s \in lo .. hi, IsString(m, s)
  PROVE  \E n \in Nat : Terminated(m, s, n) /\ Text(m, s) = Bytes(m, s, n)
<1> DEFINE End(e) == e >= s /\ m[e] = NUL /\ \A a \in s .. (e - 1) : m[a] # NUL
<1>1. PICK z \in lo .. hi : z >= s /\ m[z] = NUL
  BY DEF IsString
<1>2. PICK n \in {k \in Nat : s + k \in lo .. hi /\ m[s + k] = NUL} :
         \A k \in {k \in Nat : s + k \in lo .. hi /\ m[s + k] = NUL} : n <= k
  <2>1. z - s \in Nat /\ s + (z - s) = z
    BY <1>1
  <2>2. z - s \in {k \in Nat : s + k \in lo .. hi /\ m[s + k] = NUL}
    BY <1>1, <2>1
  <2> QED  BY <2>2, LeastNatural
<1>3. ASSUME NEW k \in 0 .. n - 1 PROVE m[s + k] # NUL
  <2>1. s + k \in lo .. hi /\ k \in Nat /\ ~(n <= k)
    BY <1>2
  <2> QED  BY <1>2, <2>1
<1>4. PICK x \in lo .. hi : x = s + n /\ m[x] = NUL
  BY <1>2
<1>5. End(x)
  <2>1. ASSUME NEW a \in s .. (x - 1) PROVE m[a] # NUL
    <3>1. PICK k \in 0 .. n - 1 : a = s + k
      <4>1. a - s \in 0 .. n - 1 /\ a = s + (a - s)
        BY <1>4
      <4> QED  BY <4>1
    <3> QED  BY <1>3, <3>1
  <2> QED  BY <1>4, <2>1
<1>6. ASSUME NEW e \in lo .. hi, End(e) PROVE e = x
  <2>1. ~(x < e)
    <3>1. x < e => x \in s .. (e - 1)
      BY <1>4
    <3> QED  BY <1>4, <1>6, <3>1
  <2>2. ~(e < x)
    <3>1. e < x => e \in s .. (x - 1)
      BY <1>6
    <3> QED  BY <1>5, <1>6, <3>1
  <2> QED  BY <2>1, <2>2
<1>7. x = CHOOSE e \in lo .. hi : End(e)
  <2> HIDE DEF End
  <2> QED  BY <1>5, <1>6
<1>8. Text(m, s) = [i \in 1 .. (x - s) |-> m[s + (i - 1)]]
  BY <1>7 DEF Text
<1>9. Text(m, s) = Bytes(m, s, n)
  <2>1. x - s = n
    BY <1>4
  <2> QED  BY ONLY <1>8, <2>1 DEF Bytes
<1>10. Terminated(m, s, n)
  <2>1. s .. (s + ((n + 1) - 1)) \subseteq lo .. hi
    BY <1>4
  <2> QED  BY <1>2, <1>3, <2>1 DEF Terminated, Within
<1> QED  BY <1>9, <1>10

(* A string and its terminator are in the memory. *)
LEMMA BytesInside ==
  ASSUME NEW S \in SUBSET Int, NEW m \in [S -> Nat], NEW s \in Int, NEW n \in Nat, Terminated(m, s, n)
  PROVE  /\ \A k \in 0 .. n : s + k \in S /\ m[s + k] \in Nat
         /\ \A k \in Nat : k <= n => Within(m, s, k)
<1>1. Within(m, s, n + 1) /\ n + 1 \in Int
  BY DEF Terminated
<1>2. \A x \in Int : s <= x /\ x < s + (n + 1) => x \in S
  BY <1>1, WithinIs
<1>3. ASSUME NEW k \in Nat, k <= n PROVE Within(m, s, k)
  <2>1. s .. (s + (k - 1)) \subseteq S
    BY <1>2, <1>3
  <2> QED  BY <2>1 DEF Within
<1>4. \A k \in 0 .. n : s + k \in S
  BY <1>2
<1> QED  BY <1>3, <1>4

(* strlen. *)
LEMMA StrlenIs ==
  ASSUME NEW m, NEW s \in Int, NEW n \in Nat, Terminated(m, s, n)
  PROVE  strlen(m, s) = n
<1> DEFINE stop == {a \in Int : m[a] = NUL}
<1>1. PICK e \in Int : e = s + n /\ s <= e /\ e - s = n
  OBVIOUS
<1>2. e \in stop
  BY <1>1 DEF Terminated
<1>3. ASSUME NEW a \in Int, s <= a, a < e PROVE a \notin stop
  <2>1. PICK k \in 0 .. n - 1 : a = s + k
    <3>1. a - s \in 0 .. n - 1 /\ a = s + (a - s)
      BY <1>1, <1>3
    <3> QED  BY <3>1
  <2> QED  BY <2>1 DEF Terminated
<1>4. Advance(stop, s) = e
  <2> HIDE DEF stop
  <2> QED  BY <1>1, <1>2, <1>3, AdvanceIs
<1> QED  BY <1>1, <1>4 DEF strlen

(* What is left of n bytes when at most c are wanted. *)
Capped(n, c) == IF c < n THEN c ELSE n

(* strnlen. *)
LEMMA StrnlenIs ==
  ASSUME NEW m, NEW s \in Int, NEW n \in Nat, Terminated(m, s, n), NEW c \in Nat
  PROVE  strnlen(m, s, c) = Capped(n, c)
<1> DEFINE stop == {k \in Int : k = c \/ m[s + k] = NUL}
<1>1. PICK e \in Int : e = Capped(n, c) /\ 0 <= e /\ e <= n /\ e <= c /\ (e = n \/ e = c)
  BY DEF Capped
<1>2. e \in stop
  BY <1>1 DEF Terminated
<1>3. ASSUME NEW k \in Int, 0 <= k, k < e PROVE k \notin stop
  <2>1. k \in 0 .. n - 1 /\ k # c
    BY <1>1, <1>3
  <2> QED  BY <2>1 DEF Terminated
<1>4. Advance(stop, 0) = e
  <2> HIDE DEF stop
  <2> QED  BY <1>1, <1>2, <1>3, AdvanceIs
<1> QED  BY <1>1, <1>4 DEF strnlen

(* At most c bytes of a text are its first bytes. *)
LEMMA CutBytes ==
  ASSUME NEW m, NEW s \in Int, NEW n \in Nat, NEW c \in Nat
  PROVE  Cut(Bytes(m, s, n), c) = Bytes(m, s, Capped(n, c)) /\ Capped(n, c) \in Nat
<1>1. PICK b : b = Bytes(m, s, n) /\ Len(b) = n /\ b = [i \in 1 .. n |-> m[s + (i - 1)]]
  <2>1. Len(Bytes(m, s, n)) = n
    BY BytesAre
  <2>2. Bytes(m, s, n) = [i \in 1 .. n |-> m[s + (i - 1)]]
    BY DEF Bytes
  <2> QED  BY ONLY <2>1, <2>2
<1>2. PICK e \in Nat : e = Capped(n, c) /\ e <= n /\ e = (IF c < n THEN c ELSE n)
  BY DEF Capped
<1>3. SubSeq(b, 1, e) = [i \in 1 .. e |-> b[i]]
  <2>1. SubSeq(b, 1, e) = [i \in 1 .. (1 + e - 1) |-> b[1 + i - 1]]
    OBVIOUS
  <2>2. \A i \in 1 .. e : (1 + i) - 1 = i /\ 1 + i - 1 = i
    OBVIOUS
  <2>3. 1 + e - 1 = e
    OBVIOUS
  <2> QED  BY <2>1, <2>2, <2>3
<1>4. [i \in 1 .. e |-> b[i]] = [i \in 1 .. e |-> m[s + (i - 1)]]
  <2>1. \A i \in 1 .. e : i \in 1 .. n
    BY <1>2
  <2> QED  BY ONLY <1>1, <2>1
<1>5. Cut(b, c) = SubSeq(b, 1, e)
  BY <1>1, <1>2 DEF Cut
<1> QED  BY ONLY <1>1, <1>2, <1>3, <1>4, <1>5 DEF Bytes

(* strchr and strfind. *)
Found(m, s, n, c) == {i \in 1 .. n : Bytes(m, s, n)[i] = c}

(* Both find the first c, or the end. *)
LEMMA FindIs ==
  ASSUME NEW S \in SUBSET Int, NEW m \in [S -> Nat], NEW s \in Int, NEW n \in Nat, Terminated(m, s, n),
         NEW c, c # NUL
  PROVE  /\ strchr(m, s, c) = IF Found(m, s, n, c) = {} THEN NULL ELSE s + Min(Found(m, s, n, c)) - 1
         /\ strfind(m, s, c) = IF Found(m, s, n, c) = {} THEN s + n ELSE s + Min(Found(m, s, n, c)) - 1
<1> DEFINE stop == {a \in Int : m[a] = NUL \/ m[a] = c}
           found == Found(m, s, n, c)
<1>1. PICK e \in Int : e = s + n /\ s <= e /\ e \in stop /\ m[e] = NUL
  BY DEF Terminated
<1>2. PICK k \in Int : /\ Advance(stop, s) = k /\ s <= k /\ k <= e /\ k \in stop
                       /\ \A a \in Int : s <= a /\ a < k => a \notin stop
  <2> HIDE DEF stop
  <2> QED  BY <1>1, AdvanceStops
<1>3. strfind(m, s, c) = k
  BY <1>2 DEF strfind
<1>4. strchr(m, s, c) = IF m[k] = NUL THEN NULL ELSE k
  BY <1>3 DEF strchr
<1>5. \A i \in 1 .. n : i \in found <=> m[s + (i - 1)] = c
  BY BytesAre DEF Found
<1>6. \A i \in found : i \in 1 .. n
  BY DEF Found
<1> HIDE DEF found
<1>7. CASE k = e
  <2>1. found = {}
    <3> SUFFICES ASSUME NEW i \in found PROVE FALSE
      OBVIOUS
    <3>1. PICK a \in Int : a = s + (i - 1) /\ s <= a /\ a < k
      BY <1>1, <1>6, <1>7
    <3>2. m[a] = c
      BY <1>5, <1>6, <3>1
    <3> QED  BY <1>2, <3>1, <3>2
  <2> QED  BY <1>1, <1>3, <1>4, <1>7, <2>1 DEF found
<1>8. CASE k # e
  <2>1. PICK i \in 1 .. n : k = s + (i - 1) /\ s + i - 1 = k
    <3>1. (k - s) + 1 \in 1 .. n /\ k = s + (((k - s) + 1) - 1) /\ s + ((k - s) + 1) - 1 = k
      BY <1>1, <1>2, <1>8
    <3> QED  BY <3>1
  <2>2. m[k] # NUL /\ m[k] = c
    <3>1. i - 1 \in 0 .. n - 1
      BY <2>1
    <3>2. m[k] # NUL
      BY <2>1, <3>1 DEF Terminated
    <3> QED  BY <1>2, <3>2
  <2>3. i \in found
    BY <1>5, <2>1, <2>2
  <2>4. ASSUME NEW j \in found PROVE i <= j
    <3>1. PICK a \in Int : a = s + (j - 1) /\ s <= a /\ (a < k <=> j < i)
      BY <1>6, <2>1
    <3>2. m[a] = c
      BY <1>5, <1>6, <3>1
    <3>3. ~(a < k)
      BY <1>2, <3>1, <3>2
    <3> QED  BY <1>6, <3>1, <3>3
  <2>5. Min(found) = i
    <3>1. \A j \in found : (\A l \in found : j <= l) => j = i
      BY <1>6, <2>3, <2>4
    <3> QED  BY <2>3, <2>4, <3>1 DEF Min
  <2>6. k = s + Min(found) - 1
    BY ONLY <2>1, <2>5
  <2> QED  BY <1>3, <1>4, <2>2, <2>3, <2>6 DEF found
<1> QED  BY <1>7, <1>8

(* Where a comparison of two texts stops: after c bytes at the latest. *)
MayStop(stop, m, s1, s2, c) ==
    \A i \in Nat : i < c => (i \in stop <=> (m[s1 + i] = NUL \/ m[s1 + i] # m[s2 + i]))

Stopped(m, s1, s2, p, q, c, k) ==
    /\ k <= p /\ k <= q /\ k <= c
    /\ \A j \in 0 .. k - 1 : m[s1 + j] = m[s2 + j]
    /\ k = c \/ m[s1 + k] = NUL \/ m[s1 + k] # m[s2 + k]

(* The loop of a comparison ends by the end of the shorter text. *)
LEMMA StopsAt ==
  ASSUME NEW m, NEW s1 \in Int, NEW s2 \in Int, NEW p \in Nat, NEW q \in Nat,
         Terminated(m, s1, p), Terminated(m, s2, q), NEW c \in Nat, NEW stop,
         MayStop(stop, m, s1, s2, c), p < c \/ c \in stop
  PROVE  \E k \in Nat : Advance(stop, 0) = k /\ Stopped(m, s1, s2, p, q, c, k)
<1>1. m[s1 + p] = NUL /\ m[s2 + q] = NUL
  BY DEF Terminated
<1>2. (p < c => p \in stop) /\ (q < c => q \in stop)
  BY <1>1 DEF MayStop
<1>3. PICK e \in Nat : e \in stop /\ e <= c
  <2>1. CASE p < c
    BY <1>2, <2>1
  <2>2. CASE ~(p < c)
    BY <2>2
  <2> QED  BY <2>1, <2>2
<1>4. PICK k \in Int : /\ Advance(stop, 0) = k /\ 0 <= k /\ k <= e /\ k \in stop
                       /\ \A a \in Int : 0 <= a /\ a < k => a \notin stop
  <2>1. 0 \in Int /\ e \in Int /\ 0 <= e
    OBVIOUS
  <2> QED  BY <1>3, <2>1, AdvanceStops
<1>5. k \in Nat /\ k <= c
  BY <1>3, <1>4
<1>6. k <= p /\ k <= q
  <2>1. ~(p < k)
    BY <1>2, <1>4, <1>5
  <2>2. ~(q < k)
    BY <1>2, <1>4, <1>5
  <2> QED  BY <1>5, <2>1, <2>2
<1>7. ASSUME NEW j \in 0 .. k - 1 PROVE m[s1 + j] = m[s2 + j]
  <2>1. j \in Nat /\ j < c /\ j \notin stop
    BY <1>4, <1>5
  <2> QED  BY <2>1 DEF MayStop
<1>8. k = c \/ m[s1 + k] = NUL \/ m[s1 + k] # m[s2 + k]
  <2>1. k < c \/ k = c
    BY <1>5
  <2> QED  BY <1>4, <1>5, <2>1 DEF MayStop
<1> QED  BY <1>4, <1>5, <1>6, <1>7, <1>8 DEF Stopped

(* What it has found there. *)
Facing(m, s1, s2, k, c, x, y) ==
    IF k = c THEN x = 0 /\ y = 0 ELSE x = m[s1 + k] /\ y = m[s2 + k]

(* The texts part where the comparison has stopped. *)
LEMMA TextsParted ==
  ASSUME NEW S \in SUBSET Int, NEW m \in [S -> Nat], NEW s1 \in Int, NEW s2 \in Int,
         NEW p \in Nat, NEW q \in Nat, Terminated(m, s1, p), Terminated(m, s2, q),
         NEW c \in Nat, NEW k \in Nat, Stopped(m, s1, s2, p, q, c, k),
         NEW x \in Nat, NEW y \in Nat, Facing(m, s1, s2, k, c, x, y)
  PROVE  /\ Parted(Bytes(m, s1, Capped(p, c)), Bytes(m, s2, Capped(q, c)), k, x, y)
         /\ Bytes(m, s1, Capped(p, c)) \in Seq(Nat) /\ Bytes(m, s2, Capped(q, c)) \in Seq(Nat)
<1>1. /\ k <= p /\ k <= q /\ k <= c
      /\ \A j \in 0 .. k - 1 : m[s1 + j] = m[s2 + j]
      /\ k = c \/ m[s1 + k] = NUL \/ m[s1 + k] # m[s2 + k]
  BY DEF Stopped
<1>2. PICK a, b \in Nat : /\ a = Capped(p, c) /\ b = Capped(q, c) /\ a <= p /\ b <= q /\ a <= c /\ b <= c
                          /\ (a = p \/ a = c) /\ (b = q \/ b = c)
  BY DEF Capped
<1>3. Within(m, s1, a) /\ Within(m, s2, b)
  BY <1>2, BytesInside
<1> DEFINE s == Bytes(m, s1, a)
           t == Bytes(m, s2, b)
<1>4. /\ s \in Seq(Nat) /\ Len(s) = a /\ \A i \in 0 .. a - 1 : s[i + 1] = m[s1 + i]
      /\ t \in Seq(Nat) /\ Len(t) = b /\ \A i \in 0 .. b - 1 : t[i + 1] = m[s2 + i]
  <2>1. s \in Seq(Nat) /\ Len(s) = a /\ \A i \in 0 .. a - 1 : s[i + 1] = m[s1 + i]
    BY ONLY <1>3, BytesRead, S \in SUBSET Int, m \in [S -> Nat], s1 \in Int, a \in Nat
  <2>2. t \in Seq(Nat) /\ Len(t) = b /\ \A i \in 0 .. b - 1 : t[i + 1] = m[s2 + i]
    BY ONLY <1>3, BytesRead, S \in SUBSET Int, m \in [S -> Nat], s2 \in Int, b \in Nat
  <2> HIDE DEF s, t
  <2> QED  BY ONLY <2>1, <2>2
<1> HIDE DEF s, t
<1>5. /\ m[s1 + p] = NUL /\ \A i \in 0 .. p - 1 : m[s1 + i] # NUL
      /\ m[s2 + q] = NUL /\ \A i \in 0 .. q - 1 : m[s2 + i] # NUL
  BY DEF Terminated
<1>6. k <= a /\ k <= b
  BY <1>1, <1>2
<1>7. ASSUME NEW j \in 1 .. k PROVE s[j] = t[j]
  <2>1. PICK i \in 0 .. k - 1 : j = i + 1
    <3>1. j - 1 \in 0 .. k - 1 /\ j = (j - 1) + 1
      OBVIOUS
    <3> QED  BY <3>1
  <2>2. i \in 0 .. a - 1 /\ i \in 0 .. b - 1
    BY <1>6, <2>1
  <2> QED  BY <1>1, <1>4, <2>1, <2>2
<1>8. k < a => x = s[k + 1]
  <2> SUFFICES ASSUME k < a PROVE x = s[k + 1]
    OBVIOUS
  <2>1. k \in 0 .. a - 1 /\ k # c
    BY <1>2
  <2> QED  BY <1>4, <2>1 DEF Facing
<1>9. k < b => y = t[k + 1]
  <2> SUFFICES ASSUME k < b PROVE y = t[k + 1]
    OBVIOUS
  <2>1. k \in 0 .. b - 1 /\ k # c
    BY <1>2
  <2> QED  BY <1>4, <2>1 DEF Facing
<1>10. k = a => x = 0
  <2> SUFFICES ASSUME k = a, k # c PROVE x = 0
    BY DEF Facing
  <2>1. k = p
    BY <1>1, <1>2
  <2> QED  BY <1>5, <2>1 DEF Facing, NUL
<1>11. k = b => y = 0
  <2> SUFFICES ASSUME k = b, k # c PROVE y = 0
    BY DEF Facing
  <2>1. k = q
    BY <1>1, <1>2
  <2> QED  BY <1>5, <2>1 DEF Facing, NUL
<1>12. ASSUME x = y PROVE k = a /\ k = b
  <2>1. CASE k = c
    BY <1>2, <1>6, <2>1
  <2>2. CASE k # c
    <3>1. x = m[s1 + k] /\ y = m[s2 + k]
      BY <2>2 DEF Facing
    <3>2. m[s1 + k] = NUL /\ m[s2 + k] = NUL
      BY <1>1, <1>12, <2>2, <3>1
    <3>3. k \notin 0 .. p - 1 /\ k \notin 0 .. q - 1
      BY <1>5, <3>2
    <3>4. k = p /\ k = q
      BY <1>1, <3>3
    <3> QED  BY <1>2, <1>6, <3>4
  <2> QED  BY <2>1, <2>2
<1>13. Parted(s, t, k, x, y)
  <2>1. (k = a => x <= y) /\ (k = b => y <= x)
    BY <1>10, <1>11
  <2> QED  BY ONLY <1>4, <1>6, <1>7, <1>8, <1>9, <1>12, <2>1 DEF Parted
<1> QED  BY ONLY <1>2, <1>4, <1>13 DEF s, t

(* strcmp. *)
LEMMA StrcmpIs ==
  ASSUME NEW S \in SUBSET Int, NEW m \in [S -> Nat], NEW s1 \in Int, NEW s2 \in Int,
         NEW p \in Nat, NEW q \in Nat, Terminated(m, s1, p), Terminated(m, s2, q)
  PROVE  SameOrder(strcmp(m, s1, s2), Bytes(m, s1, p), Bytes(m, s2, q))
<1> DEFINE stop == {i \in Int : m[s1 + i] # m[s2 + i] \/ m[s1 + i] = NUL}
<1>1. PICK c \in Nat : p < c /\ q < c /\ Capped(p, c) = p /\ Capped(q, c) = q
  <2>1. p + q + 1 \in Nat /\ p < p + q + 1 /\ q < p + q + 1
    OBVIOUS
  <2>2. \A d \in Nat : p < d /\ q < d => Capped(p, d) = p /\ Capped(q, d) = q
    BY DEF Capped
  <2> QED  BY <2>1, <2>2
<1>2. PICK k \in Nat : Advance(stop, 0) = k /\ Stopped(m, s1, s2, p, q, c, k)
  <2>1. MayStop(stop, m, s1, s2, c)
    BY DEF MayStop
  <2> HIDE DEF stop
  <2> QED  BY <1>1, <2>1, StopsAt
<1>3. PICK x, y \in Nat : x = m[s1 + k] /\ y = m[s2 + k]
  <2>1. k \in 0 .. p /\ k \in 0 .. q
    BY <1>2 DEF Stopped
  <2> QED  BY <2>1, BytesInside
<1>4. Facing(m, s1, s2, k, c, x, y)
  <2>1. k # c
    BY <1>1, <1>2 DEF Stopped
  <2> QED  BY <1>3, <2>1 DEF Facing
<1>5. PICK r \in Int : /\ r = IF x = y THEN 0 ELSE IF x < y THEN -1 ELSE 1
                       /\ (r < 0 <=> x < y) /\ (r = 0 <=> x = y)
  OBVIOUS
<1>6. strcmp(m, s1, s2) = IF m[s1 + k] = m[s2 + k] THEN 0 ELSE IF m[s1 + k] < m[s2 + k] THEN -1 ELSE 1
  BY <1>2 DEF strcmp
<1>7. strcmp(m, s1, s2) = r
  BY ONLY <1>3, <1>5, <1>6
<1> DEFINE s == Bytes(m, s1, p)
           t == Bytes(m, s2, q)
<1>8. Parted(s, t, k, x, y) /\ s \in Seq(Nat) /\ t \in Seq(Nat)
  <2> HIDE DEF stop
  <2> QED  BY <1>1, <1>2, <1>4, TextsParted
<1> HIDE DEF s, t
<1>9. SameOrder(r, s, t)
  BY <1>5, <1>8, OrderAt
<1> QED  BY ONLY <1>7, <1>9 DEF s, t

(* strncmp. *)
LEMMA StrncmpIs ==
  ASSUME NEW S \in SUBSET Int, NEW m \in [S -> Nat], NEW s1 \in Int, NEW s2 \in Int,
         NEW p \in Nat, NEW q \in Nat, Terminated(m, s1, p), Terminated(m, s2, q), NEW c \in Nat
  PROVE  SameOrder(strncmp(m, s1, s2, c), Bytes(m, s1, Capped(p, c)), Bytes(m, s2, Capped(q, c)))
<1> DEFINE stop == {i \in Int : i = c \/ m[s1 + i] = NUL \/ m[s1 + i] # m[s2 + i]}
<1>1. PICK k \in Nat : Advance(stop, 0) = k /\ Stopped(m, s1, s2, p, q, c, k)
  <2>1. MayStop(stop, m, s1, s2, c)
    BY DEF MayStop
  <2>2. c \in stop
    OBVIOUS
  <2> HIDE DEF stop
  <2> QED  BY <2>1, <2>2, StopsAt
<1>2. PICK x, y \in Nat : Facing(m, s1, s2, k, c, x, y)
  <2>1. m[s1 + k] \in Nat /\ m[s2 + k] \in Nat
    <3>1. k \in 0 .. p /\ k \in 0 .. q
      BY <1>1 DEF Stopped
    <3> QED  BY <3>1, BytesInside
  <2> QED  BY <2>1 DEF Facing
<1>3. PICK r \in Int : r = x - y /\ (r < 0 <=> x < y) /\ (r = 0 <=> x = y)
  OBVIOUS
<1>4. strncmp(m, s1, s2, c) = IF k = c THEN 0 ELSE m[s1 + k] - m[s2 + k]
  BY <1>1 DEF strncmp
<1>5. strncmp(m, s1, s2, c) = r
  <2>1. CASE k = c
    <3>1. x = 0 /\ y = 0
      BY <1>2, <2>1 DEF Facing
    <3> QED  BY <1>3, <1>4, <2>1, <3>1
  <2>2. CASE k # c
    <3>1. x = m[s1 + k] /\ y = m[s2 + k]
      BY <1>2, <2>2 DEF Facing
    <3> QED  BY ONLY <1>3, <1>4, <2>2, <3>1
  <2> QED  BY <2>1, <2>2
<1> DEFINE s == Bytes(m, s1, Capped(p, c))
           t == Bytes(m, s2, Capped(q, c))
<1>6. Parted(s, t, k, x, y) /\ s \in Seq(Nat) /\ t \in Seq(Nat)
  <2> HIDE DEF stop
  <2> QED  BY <1>1, <1>2, TextsParted
<1> HIDE DEF s, t
<1>7. SameOrder(r, s, t)
  BY <1>3, <1>6, OrderAt
<1> QED  BY ONLY <1>5, <1>7 DEF s, t

(* A position that a byte of a text is copied to and one that is read do   *)
(* not meet before the byte has been read.                                 *)
LEMMA StrcpyIs ==
  ASSUME NEW S \in SUBSET Int, NEW m \in [S -> Nat], NEW dst \in Int, NEW src \in Int, NEW n \in Nat,
         Terminated(m, src, n), Within(m, dst, n + 1), dst <= src \/ dst >= src + (n + 1)
  PROVE  strcpy(m, dst, src) = Copied(m, dst, src, 0, n + 1)
<1> DEFINE copy(k) == rep_movs(m, dst, src, 1, [j \in 1 .. k |-> j - 1])
           stop == {k \in Int : copy(k)[src + k] = NUL}
<1>1. n + 1 \in Int /\ Within(m, src, n + 1)
  BY DEF Terminated
<1>2. Copied(m, dst, src, 0, 0) = m
  <2>1. \A a \in S : ~(dst + 0 <= a /\ a < dst + 0)
    OBVIOUS
  <2> QED  BY <2>1 DEF Copied
<1>3. ASSUME NEW k \in Nat, k <= n + 1 PROVE copy(k) = Copied(m, dst, src, 0, k)
  <2> DEFINE offset == [j \in 1 .. k |-> j - 1]
             at == [j \in 0 .. k |-> j]
  <2>1. Upwards(at, offset, 1, k, n + 1)
    <3>1. Len(offset) = k
      OBVIOUS
    <3>2. \A j \in 0 .. k : at[j] \in Nat /\ at[j] <= n + 1
      BY <1>3
    <3>3. \A j \in 1 .. k : offset[j] = at[j - 1] /\ at[j] = at[j - 1] + 1
      OBVIOUS
    <3> HIDE DEF offset, at
    <3> QED  BY ONLY <3>1, <3>2, <3>3 DEF Upwards
  <2>2. at[0] = 0 /\ at[k] = k /\ 1 \in Nat
    OBVIOUS
  <2> HIDE DEF offset, at
  <2>3. rep_movs(Copied(m, dst, src, 0, at[0]), dst, src, 1, offset) = Copied(m, dst, src, 0, at[k])
    BY ONLY <1>1, <2>1, <2>2, CopyUp, S \in SUBSET Int, m \in [S -> Nat], dst \in Int, src \in Int,
            k \in Nat, Within(m, dst, n + 1), dst <= src \/ dst >= src + (n + 1)
  <2>4. rep_movs(m, dst, src, 1, offset) = Copied(m, dst, src, 0, k)
    BY ONLY <1>2, <2>2, <2>3
  <2> QED  BY ONLY <2>4 DEF offset
<1>4. ASSUME NEW k \in 0 .. n PROVE copy(k)[src + k] = m[src + k]
  <2>1. src + k \in S
    BY BytesInside
  <2>2. ~(dst + 0 <= src + k /\ src + k < dst + k)
    OBVIOUS
  <2>3. Copied(m, dst, src, 0, k)[src + k] = m[src + k]
    BY <2>1, <2>2 DEF Copied
  <2>4. copy(k) = Copied(m, dst, src, 0, k)
    BY <1>3
  <2> QED  BY ONLY <2>3, <2>4
<1>5. n \in stop
  <2>1. copy(n)[src + n] = NUL
    BY <1>4 DEF Terminated
  <2> QED  BY <2>1
<1>6. ASSUME NEW k \in Int, 0 <= k, k < n PROVE k \notin stop
  <2>1. k \in 0 .. n - 1 /\ k \in 0 .. n
    BY <1>6
  <2>2. copy(k)[src + k] # NUL
    BY <1>4, <2>1 DEF Terminated
  <2> QED  BY <2>2
<1>7. strcpy(m, dst, src) = copy(Advance(stop, 0) + 1)
  BY DEF strcpy
<1>8. copy(n + 1) = Copied(m, dst, src, 0, n + 1)
  BY <1>3
<1> HIDE DEF copy, stop
<1>9. Advance(stop, 0) = n
  BY <1>5, <1>6, AdvanceIs
<1> QED  BY ONLY <1>7, <1>8, <1>9

(* strncpy: one more byte at a, from src. *)
Padding(t, a) ==
    [mem |-> Poke(t.mem, a, t.mem[t.src]),
     src |-> IF t.mem[t.src] # NUL THEN t.src + 1 ELSE t.src]

PadTurns(y, m, dst, src, n) ==
    y = [k \in 0 .. n |->
            IF k = 0 THEN [mem |-> m, src |-> src] ELSE Padding(y[k - 1], dst + (k - 1))]

(* The turns of strncpy. *)
LEMMA PadTurnsExist ==
  ASSUME NEW m, NEW dst, NEW src, NEW n \in Nat
  PROVE  \E y : PadTurns(y, m, dst, src, n)
<1> DEFINE Bad == {k \in Nat : ~ \E y : PadTurns(y, m, dst, src, k)}
           start == [mem |-> m, src |-> src]
<1> HIDE DEF start
<1> SUFFICES ASSUME Bad # {} PROVE FALSE
  OBVIOUS
<1>1. PICK k \in Bad : \A j \in Bad : k <= j
  BY LeastNatural
<1>2. k # 0
  <2> DEFINE z == [j \in 0 .. 0 |-> start]
  <2>1. z = [j \in 0 .. 0 |-> IF j = 0 THEN start ELSE Padding(z[j - 1], dst + (j - 1))]
    OBVIOUS
  <2>2. PadTurns(z, m, dst, src, 0)
    BY <2>1 DEF PadTurns, start
  <2> QED  BY <2>2
<1>3. k - 1 \in Nat /\ k - 1 \notin Bad /\ k \in Nat
  BY <1>1, <1>2
<1>4. PICK y : PadTurns(y, m, dst, src, k - 1)
  BY <1>3
<1> DEFINE Newest == Padding(y[k - 1], dst + (k - 1))
           z == [j \in 0 .. k |-> IF j = k THEN Newest ELSE y[j]]
<1>5. ASSUME NEW j \in 0 .. k
      PROVE  z[j] = IF j = 0 THEN start ELSE Padding(z[j - 1], dst + (j - 1))
  <2>1. CASE j = k
    <3>1. z[j] = Newest /\ z[k - 1] = y[k - 1]
      BY <2>1, <1>2, <1>3
    <3> QED  BY <3>1, <2>1, <1>2
  <2>2. CASE j # k
    <3>1. j \in 0 .. (k - 1) /\ z[j] = y[j]
      BY <2>2, <1>3
    <3>2. y[j] = IF j = 0 THEN start ELSE Padding(y[j - 1], dst + (j - 1))
      BY <3>1, <1>4 DEF PadTurns, start
    <3>3. j # 0 => z[j - 1] = y[j - 1]
      BY <3>1, <1>3
    <3> QED  BY <3>1, <3>2, <3>3
  <2> QED  BY <2>1, <2>2
<1> HIDE DEF Newest
<1>6. PadTurns(z, m, dst, src, k)
  BY <1>5 DEF PadTurns, start
<1> HIDE DEF z
<1> QED  BY <1>1, <1>6

(* After k of its bytes: the text of n bytes, then NUL. *)
Padded(m, dst, src, n, k) ==
    [a \in DOMAIN m |->
        IF dst <= a /\ a < dst + k THEN (IF a - dst < n THEN m[src + (a - dst)] ELSE NUL) ELSE m[a]]

PadState(m, dst, src, n, k) ==
    [mem |-> Padded(m, dst, src, n, k), src |-> src + Capped(n, k)]

(* The byte read is the text's next one, or its terminator. *)
LEMMA PadReads ==
  ASSUME NEW S \in SUBSET Int, NEW m \in [S -> Nat], NEW dst \in Int, NEW src \in Int, NEW n \in Nat,
         Terminated(m, src, n), dst <= src \/ dst > src + n, NEW h \in Nat
  PROVE  Padded(m, dst, src, n, h)[src + Capped(n, h)] = IF h < n THEN m[src + h] ELSE NUL
<1>1. PICK p \in Int : p = src + Capped(n, h) /\ (h < n => p = src + h) /\ (~(h < n) => p = src + n)
  BY DEF Capped
<1>2. p \in S
  <2>1. Capped(n, h) \in 0 .. n
    BY DEF Capped
  <2> QED  BY <1>1, <2>1, BytesInside
<1>3. Padded(m, dst, src, n, h)[p] =
         IF dst <= p /\ p < dst + h THEN (IF p - dst < n THEN m[src + (p - dst)] ELSE NUL) ELSE m[p]
  BY <1>2 DEF Padded
<1>4. CASE h < n
  <2>1. ~(dst <= p /\ p < dst + h) /\ p = src + h
    BY <1>1, <1>4
  <2> QED  BY ONLY <1>1, <1>3, <1>4, <2>1
<1>5. CASE ~(h < n)
  <2>1. p = src + n /\ m[p] = NUL
    BY <1>1, <1>5 DEF Terminated
  <2>2. dst <= p /\ p < dst + h => ~(p - dst < n)
    BY <2>1
  <2> QED  BY ONLY <1>1, <1>3, <1>5, <2>1, <2>2
<1> QED  BY <1>4, <1>5

(* A turn of strncpy copies or pads one byte more. *)
LEMMA PadOnce ==
  ASSUME NEW S \in SUBSET Int, NEW m \in [S -> Nat], NEW dst \in Int, NEW src \in Int, NEW n \in Nat,
         Terminated(m, src, n), dst <= src \/ dst > src + n, NEW h \in Nat, dst + h \in S
  PROVE  Padding(PadState(m, dst, src, n, h), dst + h) = PadState(m, dst, src, n, h + 1)
<1> DEFINE w == Padded(m, dst, src, n, h)
           p == src + Capped(n, h)
           c == IF h < n THEN m[src + h] ELSE NUL
<1>1. w[p] = c
  BY PadReads
<1>2. Poke(w, dst + h, c) = Padded(m, dst, src, n, h + 1)
  <2>1. DOMAIN w = S /\ S \cup {dst + h} = S
    BY DEF Padded
  <2>2. ASSUME NEW a \in S
        PROVE  (IF a = dst + h THEN c ELSE w[a])
                  = IF dst <= a /\ a < dst + (h + 1)
                    THEN (IF a - dst < n THEN m[src + (a - dst)] ELSE NUL) ELSE m[a]
    <3>1. w[a] = IF dst <= a /\ a < dst + h
                 THEN (IF a - dst < n THEN m[src + (a - dst)] ELSE NUL) ELSE m[a]
      BY DEF Padded
    <3> HIDE DEF w
    <3>2. CASE a = dst + h
      <4>1. dst <= a /\ a < dst + (h + 1) /\ a - dst = h
        BY <3>2
      <4> QED  BY <3>2, <4>1
    <3>3. CASE a # dst + h
      <4>1. (dst <= a /\ a < dst + (h + 1)) <=> (dst <= a /\ a < dst + h)
        BY <3>3
      <4> QED  BY ONLY <3>1, <3>3, <4>1
    <3> QED  BY <3>2, <3>3
  <2> HIDE DEF w, c
  <2>3. Poke(w, dst + h, c) = [a \in S |-> IF a = dst + h THEN c ELSE w[a]]
    BY ONLY <2>1 DEF Poke
  <2>4. Padded(m, dst, src, n, h + 1) =
           [a \in S |-> IF dst <= a /\ a < dst + (h + 1)
                        THEN (IF a - dst < n THEN m[src + (a - dst)] ELSE NUL) ELSE m[a]]
    BY DEF Padded
  <2> QED  BY ONLY <2>2, <2>3, <2>4
<1>3. (IF c # NUL THEN p + 1 ELSE p) = src + Capped(n, h + 1)
  <2>1. CASE h < n
    <3>1. m[src + h] # NUL
      <4>1. h \in 0 .. n - 1
        BY <2>1
      <4> QED  BY <4>1 DEF Terminated
    <3>2. Capped(n, h) = h /\ Capped(n, h + 1) = h + 1
      BY <2>1 DEF Capped
    <3>3. (src + h) + 1 = src + (h + 1)
      OBVIOUS
    <3> QED  BY ONLY <2>1, <3>1, <3>2, <3>3
  <2>2. CASE ~(h < n)
    <3>1. Capped(n, h) = n /\ Capped(n, h + 1) = n
      BY <2>2 DEF Capped
    <3> QED  BY ONLY <2>2, <3>1
  <2> QED  BY <2>1, <2>2
<1> DEFINE t == [mem |-> w, src |-> p]
<1>4. t.mem = w /\ t.src = p
  OBVIOUS
<1> HIDE DEF w, p, c, t
<1>5. Padding(t, dst + h) = [mem |-> Poke(w, dst + h, c), src |-> IF c # NUL THEN p + 1 ELSE p]
  BY ONLY <1>1, <1>4 DEF Padding
<1> QED  BY ONLY <1>2, <1>3, <1>5 DEF t, w, p, PadState

(* strncpy. *)
LEMMA StrncpyIs ==
  ASSUME NEW S \in SUBSET Int, NEW m \in [S -> Nat], NEW dst \in Int, NEW src \in Int, NEW n \in Nat,
         Terminated(m, src, n), dst <= src \/ dst > src + n, NEW len \in Nat, Within(m, dst, len)
  PROVE  strncpy(m, dst, src, len) = Padded(m, dst, src, n, len)
<1> DEFINE y == CHOOSE z : PadTurns(z, m, dst, src, len)
<1>1. PadTurns(y, m, dst, src, len)
  BY PadTurnsExist
<1>2. strncpy(m, dst, src, len) = y[len].mem
  BY DEF strncpy, PadTurns, Padding
<1> HIDE DEF y
<1>3. y[0] = [mem |-> m, src |-> src] /\ \A k \in 1 .. len : y[k] = Padding(y[k - 1], dst + (k - 1))
  <2>1. \A k \in 1 .. len : k \in 0 .. len /\ k # 0
    OBVIOUS
  <2> QED  BY <1>1, <2>1 DEF PadTurns
<1> DEFINE State(k) == PadState(m, dst, src, n, k)
<1>4. State(0) = [mem |-> m, src |-> src]
  <2>1. \A a \in S : ~(dst <= a /\ a < dst + 0)
    OBVIOUS
  <2>2. Padded(m, dst, src, n, 0) = m
    BY <2>1 DEF Padded
  <2>3. src + Capped(n, 0) = src
    BY DEF Capped
  <2> QED  BY <2>2, <2>3 DEF PadState
<1> DEFINE Bad == {k \in Nat : k <= len /\ y[k] # State(k)}
<1>5. ASSUME Bad # {} PROVE FALSE
  <2> HIDE DEF State
  <2>1. PICK k \in Bad : \A j \in Bad : k <= j
    BY <1>5, LeastNatural
  <2>2. k # 0
    BY <1>3, <1>4
  <2>3. PICK h \in Nat : h = k - 1 /\ k = h + 1 /\ k \in 1 .. len /\ h \notin Bad /\ h < len
    <3>1. k - 1 \in Nat /\ ~(k <= k - 1) /\ k \in 1 .. len /\ k = (k - 1) + 1 /\ k - 1 < len
      BY <2>2
    <3> QED  BY <2>1, <3>1
  <2>4. y[h] = State(h)
    BY <2>3
  <2>5. y[k] = Padding(State(h), dst + h)
    BY ONLY <1>3, <2>3, <2>4
  <2>6. dst + h \in S
    BY <2>3, WithinIs
  <2>7. Padding(State(h), dst + h) = State(h + 1)
    BY <2>6, PadOnce DEF State
  <2> QED  BY <2>1, <2>3, <2>5, <2>7
<1>6. y[len] = State(len)
  <2>1. len \notin Bad
    BY <1>5
  <2> HIDE DEF State
  <2> QED  BY <2>1
<1> QED  BY <1>2, <1>6 DEF PadState

(* All the functions that only read. *)
LEMMA ReadersRight ==
  ASSUME NEW lo \in Int, NEW hi \in Int, NEW m \in [lo .. hi -> Nat],
         NEW s \in lo .. hi, NEW t \in lo .. hi, IsString(m, s), IsString(m, t),
         NEW n \in Nat, NEW c, c # NUL
  PROVE  ReadersAgree(m, s, t, n, c)
<1>1. PICK p \in Nat : Terminated(m, s, p) /\ Text(m, s) = Bytes(m, s, p)
  BY TextIs
<1>2. PICK q \in Nat : Terminated(m, t, q) /\ Text(m, t) = Bytes(m, t, q)
  BY TextIs
<1>3. s \in Int /\ t \in Int /\ lo .. hi \in SUBSET Int
  OBVIOUS
<1>4. Len(Bytes(m, s, p)) = p
  BY <1>3, BytesAre
<1>5. strlen(m, s) = Len(Bytes(m, s, p))
  BY <1>1, <1>3, <1>4, StrlenIs
<1>6. strnlen(m, s, n) = Len(Cut(Bytes(m, s, p), n))
  <2>1. Cut(Bytes(m, s, p), n) = Bytes(m, s, Capped(p, n))
    BY <1>3, CutBytes
  <2>2. Capped(p, n) \in Nat
    BY DEF Capped
  <2>3. Len(Bytes(m, s, Capped(p, n))) = Capped(p, n)
    BY <1>3, <2>2, BytesAre
  <2>4. strnlen(m, s, n) = Capped(p, n)
    BY <1>1, <1>3, StrnlenIs
  <2> QED  BY ONLY <2>1, <2>3, <2>4
<1>7. SameOrder(strcmp(m, s, t), Bytes(m, s, p), Bytes(m, t, q))
  BY <1>1, <1>2, <1>3, StrcmpIs
<1>8. SameOrder(strncmp(m, s, t, n), Cut(Bytes(m, s, p), n), Cut(Bytes(m, t, q), n))
  <2>1. Cut(Bytes(m, s, p), n) = Bytes(m, s, Capped(p, n))
    BY <1>3, CutBytes
  <2>2. Cut(Bytes(m, t, q), n) = Bytes(m, t, Capped(q, n))
    BY <1>3, CutBytes
  <2>3. SameOrder(strncmp(m, s, t, n), Bytes(m, s, Capped(p, n)), Bytes(m, t, Capped(q, n)))
    BY <1>1, <1>2, <1>3, StrncmpIs
  <2> QED  BY ONLY <2>1, <2>2, <2>3
<1> DEFINE found == Found(m, s, p, c)
<1>9. /\ strchr(m, s, c) = IF found = {} THEN NULL ELSE s + Min(found) - 1
      /\ strfind(m, s, c) = IF found = {} THEN s + p ELSE s + Min(found) - 1
  BY <1>1, <1>3, FindIs
<1>10. found = {i \in 1 .. Len(Bytes(m, s, p)) : Bytes(m, s, p)[i] = c}
  BY ONLY <1>4 DEF Found
<1> HIDE DEF found
<1> QED  BY ONLY <1>1, <1>2, <1>4, <1>5, <1>6, <1>7, <1>8, <1>9, <1>10 DEF ReadersAgree

(* The n bytes of a text and its terminator are n + 1 bytes of memory. *)
LEMMA WithTerminator ==
  ASSUME NEW m, NEW s \in Int, NEW n \in Nat, Terminated(m, s, n)
  PROVE  /\ Bytes(m, s, n) \o <<NUL>> = Bytes(m, s, n + 1)
         /\ Len(Bytes(m, s, n + 1)) = n + 1
         /\ \A i \in 1 .. n + 1 : Bytes(m, s, n + 1)[i] = m[s + (i - 1)]
<1>1. PICK b : /\ b = Bytes(m, s, n) /\ Len(b) = n /\ b = [i \in 1 .. n |-> m[s + (i - 1)]]
               /\ \A i \in 1 .. n : b[i] = m[s + (i - 1)]
  <2>1. Bytes(m, s, n) = [i \in 1 .. n |-> m[s + (i - 1)]]
    BY DEF Bytes
  <2> QED  BY <2>1, BytesAre
<1>2. PICK e : /\ e = Bytes(m, s, n + 1) /\ Len(e) = n + 1 /\ e = [i \in 1 .. n + 1 |-> m[s + (i - 1)]]
               /\ \A i \in 1 .. n + 1 : e[i] = m[s + (i - 1)]
  <2>1. Bytes(m, s, n + 1) = [i \in 1 .. n + 1 |-> m[s + (i - 1)]]
    BY DEF Bytes
  <2>2. n + 1 \in Nat
    OBVIOUS
  <2> QED  BY <2>1, <2>2, BytesAre
<1>3. m[s + n] = NUL
  BY DEF Terminated
<1> DEFINE x == b \o <<NUL>>
<1>4. x = [i \in 1 .. (n + 1) |-> IF i <= n THEN b[i] ELSE NUL]
  <2> DEFINE B == {m[s + (i - 1)] : i \in 1 .. n}
  <2>1. \A i \in 1 .. n : m[s + (i - 1)] \in B
    OBVIOUS
  <2> HIDE DEF B
  <2>2. b \in Seq(B)
    BY <1>1, <2>1
  <2>3. Len(<<NUL>>) = 1 /\ <<NUL>>[1] = NUL /\ <<NUL>> \in Seq({NUL})
    OBVIOUS
  <2>4. x = [i \in 1 .. (Len(b) + Len(<<NUL>>)) |-> IF i <= Len(b) THEN b[i] ELSE <<NUL>>[i - Len(b)]]
    BY <2>2, <2>3
  <2>5. \A i \in 1 .. (n + 1) : ~(i <= n) => i - n = 1
    OBVIOUS
  <2> HIDE DEF x
  <2> QED  BY ONLY <1>1, <2>3, <2>4, <2>5
<1>5. \A i \in 1 .. (n + 1) : (IF i <= n THEN b[i] ELSE NUL) = m[s + (i - 1)]
  <2> TAKE i \in 1 .. (n + 1)
  <2>1. CASE i <= n
    <3>1. i \in 1 .. n
      BY <2>1
    <3> QED  BY <1>1, <2>1, <3>1
  <2>2. CASE ~(i <= n)
    <3>1. i - 1 = n
      BY <2>2
    <3> QED  BY <1>3, <2>2, <3>1
  <2> QED  BY <2>1, <2>2
<1>6. x = e
  <2> HIDE DEF x
  <2> QED  BY ONLY <1>2, <1>4, <1>5
<1> QED  BY ONLY <1>1, <1>2, <1>6

(* strcpy and strncpy, onto memory the text does not lie in, or below it. *)
LEMMA CopiesRight ==
  ASSUME NEW S \in SUBSET Int, NEW m \in [S -> Nat], NEW d \in Int, NEW s \in Int, NEW n \in Nat,
         Terminated(m, s, n), d <= s \/ d > s + n
  PROVE  /\ Within(m, d, n + 1) => Holds(m, strcpy(m, d, s), d, Bytes(m, s, n + 1))
         /\ \A len \in Nat : Within(m, d, len) =>
               Holds(m, strncpy(m, d, s, len), d,
                     [i \in 1 .. len |-> IF i < n + 1 THEN Bytes(m, s, n + 1)[i] ELSE NUL])
<1>1. ASSUME Within(m, d, n + 1) PROVE Holds(m, strcpy(m, d, s), d, Bytes(m, s, n + 1))
  <2>1. d <= s \/ d >= s + (n + 1)
    OBVIOUS
  <2>2. strcpy(m, d, s) = Copied(m, d, s, 0, n + 1)
    BY <1>1, <2>1, StrcpyIs
  <2>3. n + 1 \in Nat
    OBVIOUS
  <2> QED  BY <2>2, <2>3, CopiedHolds
<1>2. ASSUME NEW len \in Nat, Within(m, d, len)
      PROVE  Holds(m, strncpy(m, d, s, len), d,
                   [i \in 1 .. len |-> IF i < n + 1 THEN Bytes(m, s, n + 1)[i] ELSE NUL])
  <2> DEFINE bytes == [i \in 1 .. len |-> IF i < n + 1 THEN Bytes(m, s, n + 1)[i] ELSE NUL]
  <2>1. strncpy(m, d, s, len) = Padded(m, d, s, n, len)
    BY <1>2, StrncpyIs
  <2>2. Len(bytes) = len
    OBVIOUS
  <2>3. ASSUME NEW i \in 1 .. len PROVE bytes[i] = IF i - 1 < n THEN m[s + (i - 1)] ELSE NUL
    <3>1. i < n + 1 <=> i - 1 < n
      OBVIOUS
    <3>2. i - 1 < n => i \in 1 .. n + 1
      OBVIOUS
    <3>3. bytes[i] = IF i < n + 1 THEN Bytes(m, s, n + 1)[i] ELSE NUL
      OBVIOUS
    <3>4. i - 1 < n => Bytes(m, s, n + 1)[i] = m[s + (i - 1)]
      BY <3>2, WithTerminator
    <3> HIDE DEF bytes
    <3> QED  BY ONLY <3>1, <3>3, <3>4
  <2> HIDE DEF bytes
  <2>4. ASSUME NEW a \in S
        PROVE  (IF d <= a /\ a < d + len THEN (IF a - d < n THEN m[s + (a - d)] ELSE NUL) ELSE m[a])
                  = IF a \in d .. (d + (len - 1)) THEN bytes[a - d + 1] ELSE m[a]
    <3>1. (d <= a /\ a < d + len) <=> a \in d .. (d + (len - 1))
      OBVIOUS
    <3>2. d <= a /\ a < d + len => a - d + 1 \in 1 .. len /\ (a - d + 1) - 1 = a - d
      OBVIOUS
    <3>3. d <= a /\ a < d + len => bytes[a - d + 1] = IF a - d < n THEN m[s + (a - d)] ELSE NUL
      BY <2>3, <3>2
    <3> QED  BY ONLY <3>1, <3>3
  <2>5. Holds(m, Padded(m, d, s, n, len), d, bytes)
    BY ONLY <2>2, <2>4, m \in [S -> Nat] DEF Holds, Padded
  <2> QED  BY ONLY <2>1, <2>5 DEF bytes
<1> QED  BY <1>1, <1>2

(* The string functions, on the bytes from lo to hi. *)
LEMMA StringsRight ==
  ASSUME NEW lo \in Int, NEW hi \in Int, NEW m \in [lo .. hi -> 0 .. 255]
  PROVE  StringFunctionsAgree(m)
<1> DEFINE Addr == lo .. hi
<1>1. DOMAIN m = Addr /\ m \in [Addr -> Nat] /\ Addr \in SUBSET Int
  <2>1. \A x \in 0 .. 255 : x \in Nat
    OBVIOUS
  <2>2. \A x \in Addr : x \in Int
    OBVIOUS
  <2> HIDE DEF Addr
  <2>3. m \in [Addr -> 0 .. 255]
    BY DEF Addr
  <2> QED  BY <2>1, <2>2, <2>3
<1>2. MemoryAgrees(m)
  BY <1>1, MemoryTheorem
<1>3. ASSUME NEW s \in Addr, NEW t \in Addr, IsString(m, s), IsString(m, t),
             NEW n \in 0 .. Cardinality(Addr), NEW c \in {m[a] : a \in Addr} \ {NUL}
      PROVE  ReadersAgree(m, s, t, n, c)
  <2>1. n \in Nat /\ c # NUL
    OBVIOUS
  <2> QED  BY <1>1, <1>3, <2>1, ReadersRight
<1>4. ASSUME NEW s \in Addr, IsString(m, s), NEW d \in Addr
      PROVE  LET text == Text(m, s) \o <<NUL>> IN
             /\ (d <= s \/ d > s + Len(Text(m, s))) /\ Len(text) <= Max(Addr) + 1 - d =>
                   Holds(m, strcpy(m, d, s), d, text)
             /\ \A n \in 0 .. Max(Addr) + 1 - d : (d <= s \/ d > s + Len(Text(m, s))) =>
                   Holds(m, strncpy(m, d, s, n), d,
                         [i \in 1 .. n |-> IF i < Len(text) THEN text[i] ELSE NUL])
  <2>1. PICK p \in Nat : Terminated(m, s, p) /\ Text(m, s) = Bytes(m, s, p)
    BY <1>1, <1>4, TextIs
  <2>2. Len(Bytes(m, s, p)) = p /\ s \in Int /\ d \in Int
    BY BytesAre
  <2>3. PICK text : text = Bytes(m, s, p + 1) /\ Len(text) = p + 1 /\ Bytes(m, s, p) \o <<NUL>> = text
    BY <2>1, <2>2, WithTerminator
  <2>4. Max(Addr) = hi
    <3>1. hi \in Addr /\ \A x \in Addr : hi >= x
      OBVIOUS
    <3>2. \A y \in Addr : (\A x \in Addr : y >= x) => y = hi
      OBVIOUS
    <3> HIDE DEF Addr
    <3> QED  BY ONLY <3>1, <3>2 DEF Max
  <2>5. \A n \in Nat : n <= hi + 1 - d => Within(m, d, n)
    BY <1>1 DEF Within
  <2>6. ASSUME d <= s \/ d > s + p, p + 1 <= hi + 1 - d PROVE Holds(m, strcpy(m, d, s), d, text)
    <3>1. Within(m, d, p + 1)
      BY <2>5, <2>6
    <3> QED  BY <1>1, <2>1, <2>2, <2>3, <2>6, <3>1, CopiesRight
  <2>7. ASSUME d <= s \/ d > s + p, NEW n \in 0 .. hi + 1 - d
        PROVE  Holds(m, strncpy(m, d, s, n), d, [i \in 1 .. n |-> IF i < p + 1 THEN text[i] ELSE NUL])
    <3>1. Within(m, d, n) /\ n \in Nat
      BY <2>5
    <3>2. Holds(m, strncpy(m, d, s, n), d,
                [i \in 1 .. n |-> IF i < p + 1 THEN Bytes(m, s, p + 1)[i] ELSE NUL])
      BY <1>1, <2>1, <2>2, <2>7, <3>1, CopiesRight
    <3> QED  BY ONLY <2>3, <3>2
  <2> HIDE DEF Addr
  <2>8. (d <= s \/ d > s + Len(Text(m, s))) /\ Len(text) <= Max(Addr) + 1 - d =>
           Holds(m, strcpy(m, d, s), d, text)
    BY ONLY <2>1, <2>2, <2>3, <2>4, <2>6
  <2>9. \A n \in 0 .. Max(Addr) + 1 - d : (d <= s \/ d > s + Len(Text(m, s))) =>
           Holds(m, strncpy(m, d, s, n), d, [i \in 1 .. n |-> IF i < Len(text) THEN text[i] ELSE NUL])
    BY ONLY <2>1, <2>2, <2>3, <2>4, <2>7
  <2>10. Text(m, s) \o <<NUL>> = text
    BY ONLY <2>1, <2>3
  <2> QED  BY ONLY <2>8, <2>9, <2>10
<1> HIDE DEF Addr
<1> QED  BY ONLY <1>1, <1>2, <1>3, <1>4 DEF StringFunctionsAgree

-----------------------------------------------------------------------------
(* strtol.                                                                 *)

(* Behind the text stands NUL; any other character is in it. *)
LEMMA CharIs ==
  ASSUME NEW C, NEW text \in Seq(C), NEW i \in Nat
  PROVE  /\ CharAt(text, i) # "NUL" => i < Len(text) /\ CharAt(text, i) = text[i + 1]
         /\ i >= Len(text) => CharAt(text, i) = "NUL"
BY DEF CharAt

(* NUL is no digit. *)
LEMMA DigitIs ==
  /\ \A c : Digit(c) \in Int
  /\ Digit("NUL") = 99
<1>1. ASSUME NEW c PROVE Digit(c) \in Int
  <2>1. CASE \E d \in 1 .. 36 : Digits[d] = c
    <3>1. PICK d \in 1 .. 36 : d = CHOOSE e \in 1 .. 36 : Digits[e] = c
      BY <2>1
    <3>2. Digit(c) = d - 1
      BY <2>1, <3>1 DEF Digit
    <3> QED  BY <3>2
  <2>2. CASE (~ \E d \in 1 .. 36 : Digits[d] = c) /\ \E d \in 1 .. 26 : Capitals[d] = c
    <3>1. PICK d \in 1 .. 26 : d = CHOOSE e \in 1 .. 26 : Capitals[e] = c
      BY <2>2
    <3>2. Digit(c) = d + 9
      BY <2>2, <3>1 DEF Digit
    <3> QED  BY <3>2
  <2>3. CASE (~ \E d \in 1 .. 36 : Digits[d] = c) /\ ~ \E d \in 1 .. 26 : Capitals[d] = c
    BY <2>3 DEF Digit
  <2> QED  BY <2>1, <2>2, <2>3
<1>2. /\ \A d \in 1 .. 36 : Digits[d] # "NUL"
      /\ \A d \in 1 .. 26 : Capitals[d] # "NUL"
  BY DEF Digits, Capitals
<1> QED  BY <1>1, <1>2 DEF Digit

(* The loop over the blanks. *)
LEMMA BlanksSkipped ==
  ASSUME NEW C, NEW text \in Seq(C)
  PROVE  \E b \in Nat : /\ SkipBlanks(text, 0) = b /\ b <= Len(text)
                        /\ \A i \in 1 .. b : text[i] \in {" ", "\t"}
                        /\ CharAt(text, b) \notin {" ", "\t"}
<1> DEFINE stop == {i \in Int : CharAt(text, i) \notin {" ", "\t"}}
<1>1. PICK e \in Nat : e = Len(text) /\ e \in stop
  <2>1. Len(text) \in Nat /\ CharAt(text, Len(text)) = "NUL"
    BY CharIs
  <2>2. "NUL" \notin {" ", "\t"}
    OBVIOUS
  <2>3. Len(text) \in stop
    BY ONLY <2>1, <2>2
  <2> QED  BY <2>1, <2>3
<1>2. PICK b \in Int : /\ Advance(stop, 0) = b /\ 0 <= b /\ b <= e /\ b \in stop
                       /\ \A a \in Int : 0 <= a /\ a < b => a \notin stop
  <2>1. 0 \in Int /\ e \in Int /\ 0 <= e
    OBVIOUS
  <2> HIDE DEF stop
  <2> QED  BY <1>1, <2>1, AdvanceStops
<1>3. ASSUME NEW i \in 1 .. b PROVE text[i] \in {" ", "\t"}
  <2>1. PICK a \in Int : i = a + 1 /\ 0 <= a /\ a < b /\ a \in Nat
    <3>1. i - 1 \in Int /\ i - 1 \in Nat /\ i = (i - 1) + 1 /\ 0 <= i - 1 /\ i - 1 < b
      OBVIOUS
    <3> QED  BY <3>1
  <2>2. a \notin stop
    <3> HIDE DEF stop
    <3> QED  BY <1>2, <2>1
  <2>3. CharAt(text, a) \in {" ", "\t"}
    BY ONLY <2>2, a \in Int
  <2>4. CharAt(text, a) # "NUL"
    BY ONLY <2>3
  <2>5. text[i] = CharAt(text, a)
    BY ONLY <2>1, <2>4, CharIs, text \in Seq(C)
  <2> QED  BY ONLY <2>3, <2>5
<1>4. CharAt(text, b) \notin {" ", "\t"}
  <2>1. b \in stop
    <3> HIDE DEF stop
    <3> QED  BY <1>2
  <2> QED  BY ONLY <2>1
<1>5. SkipBlanks(text, 0) = b /\ b \in Nat /\ b <= Len(text)
  <2>1. SkipBlanks(text, 0) = Advance(stop, 0)
    BY DEF SkipBlanks
  <2> HIDE DEF stop
  <2> QED  BY <1>1, <1>2, <2>1
<1> QED  BY ONLY <1>3, <1>4, <1>5

(* The characters w are in the text behind the first a. *)
Reads(text, a, w) == a + Len(w) <= Len(text) /\ \A k \in 1 .. Len(w) : text[a + k] = w[k]

(* The sign that strtol skips. *)
LEMMA SignIs ==
  ASSUME NEW C, NEW text \in Seq(C), NEW b \in Nat, b <= Len(text)
  PROVE  \E sign \in {<<>>, <<"+">>, <<"-">>} :
            /\ Reads(text, b, sign)
            /\ sign = <<>> => CharAt(text, b) \notin {"+", "-"}
            /\ CharAt(text, b) = "-" <=> sign = <<"-">>
            /\ b + Len(sign) = IF CharAt(text, b) = "-" \/ CharAt(text, b) = "+" THEN b + 1 ELSE b
<1>1. CASE CharAt(text, b) = "-"
  <2>1. b < Len(text) /\ text[b + 1] = "-"
    BY <1>1, CharIs
  <2>2. Reads(text, b, <<"-">>)
    BY <2>1 DEF Reads
  <2>3. Len(<<"-">>) = 1 /\ <<"-">> # <<>>
    OBVIOUS
  <2> QED  BY <1>1, <2>2, <2>3
<1>2. CASE CharAt(text, b) = "+"
  <2>1. b < Len(text) /\ text[b + 1] = "+"
    BY <1>2, CharIs
  <2>2. Reads(text, b, <<"+">>)
    BY <2>1 DEF Reads
  <2>3. Len(<<"+">>) = 1 /\ <<"+">> # <<>> /\ <<"+">> # <<"-">>
    OBVIOUS
  <2> QED  BY <1>2, <2>2, <2>3
<1>3. CASE CharAt(text, b) \notin {"+", "-"}
  <2>1. Reads(text, b, <<>>)
    BY DEF Reads
  <2>2. b + Len(<<>>) = b /\ <<>> # <<"-">>
    OBVIOUS
  <2> QED  BY <1>3, <2>1, <2>2
<1> QED  BY <1>1, <1>2, <1>3

PrefixRight(text, base, pre, from) ==
    /\ pre = <<"0", "x">> => base \in {0, 16}
    /\ pre = <<"0">> => base = 0 /\ CharAt(text, from) # "x"
    /\ pre = <<>> => (base = 0 => CharAt(text, from) # "0")
    /\ pre = <<>> /\ base = 16 => ~(CharAt(text, from) = "0" /\ CharAt(text, from + 1) = "x")

(* The prefix that strtol skips and the base it leaves. *)
LEMMA PrefixIs ==
  ASSUME NEW C, NEW text \in Seq(C), NEW s \in Nat, s <= Len(text), NEW base \in 0 .. 36
  PROVE  \E pre \in {<<>>, <<"0">>, <<"0", "x">>} :
            /\ Reads(text, s, pre) /\ PrefixRight(text, base, pre, s + Len(pre))
            /\ Prefix(text, s, base) = <<s + Len(pre), Radix(pre, base)>>
<1>1. <<>> # <<"0">> /\ <<>> # <<"0", "x">> /\ <<"0">> # <<"0", "x">>
  OBVIOUS
<1>2. Len(<<>>) = 0 /\ Len(<<"0">>) = 1 /\ Len(<<"0", "x">>) = 2
  OBVIOUS
<1>3. CharAt(text, s) = "0" => s < Len(text) /\ text[s + 1] = "0"
  BY CharIs
<1>4. CharAt(text, s + 1) = "x" => s + 1 < Len(text) /\ text[s + 2] = "x"
  <2>1. s + 1 \in Nat /\ (s + 1) + 1 = s + 2
    OBVIOUS
  <2> QED  BY <2>1, CharIs
<1>5. CASE base \in {0, 16} /\ CharAt(text, s) = "0" /\ CharAt(text, s + 1) = "x"
  <2>1. Reads(text, s, <<"0", "x">>)
    BY <1>3, <1>4, <1>5 DEF Reads
  <2>2. PrefixRight(text, base, <<"0", "x">>, s + 2)
    BY ONLY <1>1, <1>5 DEF PrefixRight
  <2>3. Radix(<<"0", "x">>, base) = 16
    BY <1>1 DEF Radix
  <2>4. Prefix(text, s, base) = <<s + 2, 16>>
    BY <1>5 DEF Prefix
  <2> QED  BY <1>2, <2>1, <2>2, <2>3, <2>4
<1>6. CASE base = 0 /\ CharAt(text, s) = "0" /\ CharAt(text, s + 1) # "x"
  <2>1. Reads(text, s, <<"0">>)
    BY <1>3, <1>6 DEF Reads
  <2>2. PrefixRight(text, base, <<"0">>, s + 1)
    BY ONLY <1>1, <1>6 DEF PrefixRight
  <2>3. Radix(<<"0">>, base) = 8
    BY <1>1 DEF Radix
  <2>4. Prefix(text, s, base) = <<s + 1, 8>>
    BY <1>6 DEF Prefix
  <2> QED  BY <1>2, <2>1, <2>2, <2>3, <2>4
<1>7. CASE \/ base = 0 /\ CharAt(text, s) # "0"
           \/ base = 16 /\ ~(CharAt(text, s) = "0" /\ CharAt(text, s + 1) = "x")
           \/ base \notin {0, 16}
  <2>1. Reads(text, s, <<>>)
    BY DEF Reads
  <2>2. PrefixRight(text, base, <<>>, s)
    BY <1>1, <1>7 DEF PrefixRight
  <2>3. Radix(<<>>, base) = IF base = 0 THEN 10 ELSE base
    BY <1>1 DEF Radix
  <2>4. Prefix(text, s, base) = <<s, IF base = 0 THEN 10 ELSE base>>
    BY <1>7 DEF Prefix
  <2>5. s + 0 = s
    OBVIOUS
  <2> QED  BY <1>2, <2>1, <2>2, <2>3, <2>4, <2>5
<1> QED  BY <1>5, <1>6, <1>7

(* What has been read behind each digit of d. *)
Next10(v, base, digit) == v * base + digit
Horner(y, d, base, n) == y = [k \in 0 .. n |-> IF k = 0 THEN 0 ELSE Next10(y[k - 1], base, d[k])]

(* Reading n digits gives a number. *)
LEMMA HornerExists ==
  ASSUME NEW d, NEW base, NEW n \in Nat
  PROVE  \E y : Horner(y, d, base, n)
<1> DEFINE Bad == {k \in Nat : ~ \E y : Horner(y, d, base, k)}
<1> SUFFICES ASSUME Bad # {} PROVE FALSE
  OBVIOUS
<1>1. PICK k \in Bad : \A j \in Bad : k <= j
  BY LeastNatural
<1>2. k # 0
  <2> DEFINE z == [j \in 0 .. 0 |-> 0]
  <2>1. z = [j \in 0 .. 0 |-> IF j = 0 THEN 0 ELSE Next10(z[j - 1], base, d[j])]
    OBVIOUS
  <2>2. Horner(z, d, base, 0)
    BY <2>1 DEF Horner
  <2> QED  BY <2>2
<1>3. k - 1 \in Nat /\ k - 1 \notin Bad /\ k \in Nat
  BY <1>1, <1>2
<1>4. PICK y : Horner(y, d, base, k - 1)
  BY <1>3
<1> DEFINE Newest == Next10(y[k - 1], base, d[k])
           z == [j \in 0 .. k |-> IF j = k THEN Newest ELSE y[j]]
<1>5. ASSUME NEW j \in 0 .. k
      PROVE  z[j] = IF j = 0 THEN 0 ELSE Next10(z[j - 1], base, d[j])
  <2>1. CASE j = k
    <3>1. z[j] = Newest /\ z[k - 1] = y[k - 1]
      BY <2>1, <1>2, <1>3
    <3> QED  BY <3>1, <2>1, <1>2
  <2>2. CASE j # k
    <3>1. j \in 0 .. (k - 1) /\ z[j] = y[j]
      BY <2>2, <1>3
    <3>2. y[j] = IF j = 0 THEN 0 ELSE Next10(y[j - 1], base, d[j])
      BY <3>1, <1>4 DEF Horner
    <3>3. j # 0 => z[j - 1] = y[j - 1]
      BY <3>1, <1>3
    <3> QED  BY <3>1, <3>2, <3>3
  <2> QED  BY <2>1, <2>2
<1> HIDE DEF Newest
<1>6. Horner(z, d, base, k)
  BY <1>5 DEF Horner
<1> HIDE DEF z
<1> QED  BY <1>1, <1>6

(* It depends on the digits only. *)
LEMMA HornerUnique ==
  ASSUME NEW d, NEW e, NEW base, NEW n \in Nat, \A k \in 1 .. n : d[k] = e[k],
         NEW y, NEW z, Horner(y, d, base, n), Horner(z, e, base, n)
  PROVE  y[n] = z[n]
<1>1. y[0] = 0 /\ \A k \in 1 .. n : y[k] = Next10(y[k - 1], base, d[k])
  <2>1. \A k \in 1 .. n : k \in 0 .. n /\ k # 0
    OBVIOUS
  <2> QED  BY <2>1 DEF Horner
<1>2. z[0] = 0 /\ \A k \in 1 .. n : z[k] = Next10(z[k - 1], base, e[k])
  <2>1. \A k \in 1 .. n : k \in 0 .. n /\ k # 0
    OBVIOUS
  <2> QED  BY <2>1 DEF Horner
<1> DEFINE Bad == {k \in Nat : k <= n /\ y[k] # z[k]}
<1>3. ASSUME Bad # {} PROVE FALSE
  <2>1. PICK k \in Bad : \A j \in Bad : k <= j
    BY <1>3, LeastNatural
  <2>2. k # 0
    BY <1>1, <1>2
  <2>3. k - 1 \in Nat /\ k - 1 \notin Bad /\ k - 1 <= n /\ k \in 1 .. n
    BY <2>1, <2>2
  <2>4. y[k - 1] = z[k - 1]
    BY <2>3
  <2>5. y[k] = z[k]
    BY ONLY <1>1, <1>2, <2>3, <2>4, \A j \in 1 .. n : d[j] = e[j]
  <2> QED  BY <2>1, <2>5
<1> QED  BY <1>3

(* The digits of the base behind the first s characters end behind the     *)
(* first `end`, and num is what reading them gives.                        *)
Scanned(text, s, base, num, end) ==
    /\ s <= end /\ end <= Len(text)
    /\ \A i \in (s + 1) .. end : Digit(text[i]) < base
    /\ Digit(CharAt(text, end)) >= base
    /\ num.end = end /\ num.val = NumberOf(SubSeq(text, s + 1, end), base)

(* The loop over the digits. *)
LEMMA DigitsScanned ==
  ASSUME NEW C, NEW text \in Seq(C), NEW s \in Nat, s <= Len(text), NEW base \in 1 .. 36
  PROVE  \E end \in Nat : Scanned(text, s, base, ScanDigits(text, s, base), end)
<1> DEFINE stop == {i \in Int : Digit(CharAt(text, i)) >= base}
<1>1. PICK e \in Nat : e = Len(text) /\ e \in stop /\ s <= e
  <2>1. Len(text) \in Nat /\ CharAt(text, Len(text)) = "NUL"
    BY CharIs
  <2>2. 99 >= base
    OBVIOUS
  <2>3. Digit(CharAt(text, Len(text))) = 99
    BY ONLY <2>1, DigitIs
  <2>4. Digit(CharAt(text, Len(text))) >= base
    BY ONLY <2>2, <2>3
  <2> QED  BY <2>1, <2>4
<1>2. PICK end \in Int : /\ Advance(stop, s) = end /\ s <= end /\ end <= e /\ end \in stop
                         /\ \A a \in Int : s <= a /\ a < end => a \notin stop
  <2>1. s \in Int /\ e \in Int
    OBVIOUS
  <2> HIDE DEF stop
  <2> QED  BY <1>1, <2>1, AdvanceStops
<1>3. end \in Nat /\ end <= Len(text) /\ end - s \in Nat
  <2> HIDE DEF stop
  <2> QED  BY <1>1, <1>2
<1>4. ASSUME NEW a \in Nat, s <= a, a < end PROVE CharAt(text, a) = text[a + 1] /\ Digit(text[a + 1]) < base
  <2>1. a \notin stop
    <3> HIDE DEF stop
    <3> QED  BY <1>2, <1>4
  <2>2. CharAt(text, a) = text[a + 1]
    <3>1. a < Len(text)
      BY <1>3, <1>4
    <3> QED  BY <3>1 DEF CharAt
  <2>3. ~(Digit(CharAt(text, a)) >= base)
    <3>1. a \in Int
      OBVIOUS
    <3> QED  BY ONLY <2>1, <3>1
  <2>4. Digit(text[a + 1]) \in Int
    BY DigitIs
  <2> HIDE DEF stop
  <2> QED  BY <2>2, <2>3, <2>4
<1>5. ASSUME NEW i \in (s + 1) .. end PROVE Digit(text[i]) < base
  <2>1. i - 1 \in Nat /\ s <= i - 1 /\ i - 1 < end /\ (i - 1) + 1 = i
    OBVIOUS
  <2> QED  BY <1>4, <2>1
<1>6. Digit(CharAt(text, end)) >= base
  <2>1. end \in stop
    <3> HIDE DEF stop
    <3> QED  BY <1>2
  <2> QED  BY ONLY <2>1
<1> DEFINE n == end - s
           val == CHOOSE f : f = [k \in 0 .. (end - s) |->
                     IF k = 0 THEN 0 ELSE f[k - 1] * base + Digit(CharAt(text, s + k - 1))]
<1>7. ScanDigits(text, s, base) = [val |-> val[n], end |-> end]
  <2>1. Advance({i \in Int : Digit(CharAt(text, i)) >= base}, s) = end
    BY <1>2
  <2> HIDE DEF stop
  <2> QED  BY ONLY <2>1 DEF ScanDigits
<1> DEFINE digits == SubSeq(text, s + 1, end)
<1>8. Len(digits) = n /\ \A k \in 1 .. n : digits[k] = text[s + k]
  <2>1. Len(digits) = n
    BY <1>3
  <2>2. ASSUME NEW k \in 1 .. n PROVE digits[k] = text[s + k]
    <3>1. (s + 1) + k - 1 = s + k
      OBVIOUS
    <3> QED  BY <1>3, <3>1
  <2> QED  BY <2>1, <2>2
<1> DEFINE d == [k \in 1 .. n |-> Digit(digits[k])]
           value == CHOOSE f : f = [k \in 0 .. Len(digits) |->
                       IF k = 0 THEN 0 ELSE f[k - 1] * base + Digit(digits[k])]
<1>9. NumberOf(digits, base) = value[n]
  <2> HIDE DEF n
  <2> QED  BY <1>8 DEF NumberOf
<1> HIDE DEF stop, val, value
<1>10. Horner(value, d, base, n)
  <2>1. PICK y : Horner(y, d, base, n)
    BY <1>3, HornerExists
  <2>2. \A f : Horner(f, d, base, n) <=>
           f = [k \in 0 .. Len(digits) |-> IF k = 0 THEN 0 ELSE f[k - 1] * base + Digit(digits[k])]
    <3>1. \A k \in 0 .. n : k = 0 \/ k \in 1 .. n
      BY <1>3
    <3>2. \A k \in 1 .. n : d[k] = Digit(digits[k])
      OBVIOUS
    <3>3. Len(digits) = n
      BY <1>8
    <3> HIDE DEF d, digits
    <3> QED  BY <3>1, <3>2, <3>3 DEF Horner, Next10
  <2> QED  BY <2>1, <2>2 DEF value
<1>11. Horner(val, d, base, n)
  <2>1. PICK y : Horner(y, d, base, n)
    BY <1>3, HornerExists
  <2>2. \A k \in 1 .. n : d[k] = Digit(CharAt(text, s + k - 1))
    <3> TAKE k \in 1 .. n
    <3>1. s + k - 1 \in Nat /\ s <= s + k - 1 /\ s + k - 1 < end /\ (s + k - 1) + 1 = s + k
      BY <1>3
    <3>2. CharAt(text, s + k - 1) = text[s + k]
      BY <1>4, <3>1
    <3> QED  BY <1>8, <3>2
  <2>3. \A f : Horner(f, d, base, n) <=>
           f = [k \in 0 .. (end - s) |->
                  IF k = 0 THEN 0 ELSE f[k - 1] * base + Digit(CharAt(text, s + k - 1))]
    <3>1. \A k \in 0 .. n : k = 0 \/ k \in 1 .. n
      BY <1>3
    <3> HIDE DEF d
    <3> QED  BY <2>2, <3>1 DEF Horner, Next10
  <2> QED  BY <2>1, <2>3 DEF val
<1> HIDE DEF n, d, digits
<1>12. n \in Nat
  BY <1>3 DEF n
<1>13. val[n] = value[n]
  BY <1>10, <1>11, <1>12, HornerUnique
<1>14. /\ ScanDigits(text, s, base).end = end
       /\ ScanDigits(text, s, base).val = NumberOf(SubSeq(text, s + 1, end), base)
  BY ONLY <1>7, <1>9, <1>13 DEF digits
<1>15. Scanned(text, s, base, ScanDigits(text, s, base), end)
  BY ONLY <1>2, <1>3, <1>5, <1>6, <1>14 DEF Scanned
<1> QED  BY <1>3, <1>15

(* A sign and a prefix, one behind the other. *)
LEMMA ReadsBoth ==
  ASSUME NEW C, NEW text \in Seq(C), NEW b \in Nat,
         NEW D, NEW u \in Seq(D), NEW w \in Seq(D), Reads(text, b, u), Reads(text, b + Len(u), w)
  PROVE  SubSeq(text, b + 1, (b + Len(u)) + Len(w)) = u \o w
<1>1. PICK p, q \in Nat : p = Len(u) /\ q = Len(w)
  OBVIOUS
<1>2. /\ b + p <= Len(text) /\ \A k \in 1 .. p : text[b + k] = u[k]
      /\ (b + p) + q <= Len(text) /\ \A k \in 1 .. q : text[(b + p) + k] = w[k]
  BY ONLY <1>1, Reads(text, b, u), Reads(text, b + Len(u), w) DEF Reads
<1> DEFINE x == SubSeq(text, b + 1, (b + p) + q)
           y == u \o w
<1>3. x \in Seq(C \cup D) /\ Len(x) = p + q /\ \A k \in 1 .. (p + q) : x[k] = text[b + k]
  <2>1. text \in Seq(C \cup D)
    OBVIOUS
  <2>2. x \in Seq(C \cup D) /\ Len(x) = p + q
    BY <1>2, <2>1
  <2>3. ASSUME NEW k \in 1 .. (p + q) PROVE x[k] = text[b + k]
    <3>1. (b + 1) + k - 1 = b + k
      OBVIOUS
    <3> QED  BY <1>2, <3>1
  <2> QED  BY <2>2, <2>3
<1>4. /\ y \in Seq(C \cup D) /\ Len(y) = p + q
      /\ \A k \in 1 .. (p + q) : y[k] = IF k <= p THEN u[k] ELSE w[k - p]
  <2>1. u \in Seq(C \cup D) /\ w \in Seq(C \cup D)
    OBVIOUS
  <2>2. /\ y \in Seq(C \cup D) /\ Len(y) = Len(u) + Len(w)
        /\ \A k \in 1 .. (Len(u) + Len(w)) : y[k] = IF k <= Len(u) THEN u[k] ELSE w[k - Len(u)]
    BY ONLY <2>1, ConcatProperties
  <2> HIDE DEF y
  <2> QED  BY ONLY <1>1, <2>2
<1>5. ASSUME NEW k \in 1 .. (p + q) PROVE text[b + k] = IF k <= p THEN u[k] ELSE w[k - p]
  <2>1. CASE k <= p
    <3>1. k \in 1 .. p
      BY <2>1
    <3> QED  BY <1>2, <2>1, <3>1
  <2>2. CASE ~(k <= p)
    <3>1. k - p \in 1 .. q /\ (b + p) + (k - p) = b + k
      BY <2>2
    <3> QED  BY <1>2, <2>2, <3>1
  <2> QED  BY <2>1, <2>2
<1> HIDE DEF x, y
<1>6. Len(x) = Len(y) /\ \A k \in 1 .. Len(x) : x[k] = y[k]
  BY ONLY <1>3, <1>4, <1>5
<1>7. x = y
  BY ONLY <1>3, <1>4, <1>6, SeqEqual
<1> QED  BY ONLY <1>1, <1>7 DEF x, y

(* strtol, from the blanks to the last digit. *)
LEMMA StrtolRight ==
  ASSUME NEW C, NEW text \in Seq(C), NEW base \in 0 .. 36
  PROVE  StrtolAgrees(text, base)
<1>1. PICK b \in Nat : /\ SkipBlanks(text, 0) = b /\ b <= Len(text)
                       /\ \A i \in 1 .. b : text[i] \in {" ", "\t"}
                       /\ CharAt(text, b) \notin {" ", "\t"}
  BY BlanksSkipped
<1>2. PICK sign \in {<<>>, <<"+">>, <<"-">>} :
            /\ Reads(text, b, sign)
            /\ sign = <<>> => CharAt(text, b) \notin {"+", "-"}
            /\ CharAt(text, b) = "-" <=> sign = <<"-">>
            /\ b + Len(sign) = IF CharAt(text, b) = "-" \/ CharAt(text, b) = "+" THEN b + 1 ELSE b
  BY <1>1, SignIs
<1>3. PICK s \in Nat : s = b + Len(sign) /\ s <= Len(text) /\ b <= s
  BY <1>2 DEF Reads
<1>4. PICK pre \in {<<>>, <<"0">>, <<"0", "x">>} :
            /\ Reads(text, s, pre) /\ PrefixRight(text, base, pre, s + Len(pre))
            /\ Prefix(text, s, base) = <<s + Len(pre), Radix(pre, base)>>
  BY <1>3, PrefixIs
<1>5. PICK from \in Nat : from = s + Len(pre) /\ from <= Len(text) /\ s <= from
  BY <1>4 DEF Reads
<1>6. PICK radix \in 1 .. 36 : radix = Radix(pre, base)
  <2>1. base # 0 => base \in 1 .. 36
    OBVIOUS
  <2>2. CASE pre = <<"0", "x">>
    BY <2>2 DEF Radix
  <2>3. CASE pre = <<"0">>
    BY <2>3 DEF Radix
  <2>4. CASE pre = <<>>
    BY <2>1, <2>4 DEF Radix
  <2> QED  BY <2>2, <2>3, <2>4
<1> DEFINE num == ScanDigits(text, from, radix)
<1>7. PICK end \in Nat : Scanned(text, from, radix, num, end)
  <2>1. from \in Nat /\ from <= Len(text) /\ radix \in 1 .. 36
    BY <1>5
  <2> QED  BY ONLY <2>1, text \in Seq(C), DigitsScanned
<1> DEFINE number == NumberOf(SubSeq(text, from + 1, end), radix)
<1>8. /\ strtol(text, base).val = IF sign = <<"-">> THEN -number ELSE number
      /\ strtol(text, base).end = end
  <2>1. Prefix(text, s, base)[1] = from /\ Prefix(text, s, base)[2] = radix
    BY ONLY <1>4, <1>5, <1>6
  <2>2. s = IF CharAt(text, b) = "-" \/ CharAt(text, b) = "+" THEN b + 1 ELSE b
    BY ONLY <1>2, <1>3
  <2>3. num.val = number /\ num.end = end
    BY ONLY <1>7 DEF Scanned
  <2>4. strtol(text, base) = [val |-> IF CharAt(text, b) = "-" THEN -num.val ELSE num.val, end |-> num.end]
    BY ONLY <1>1, <2>1, <2>2 DEF strtol
  <2>5. CharAt(text, b) = "-" <=> sign = <<"-">>
    BY ONLY <1>2
  <2> HIDE DEF num, number
  <2> QED  BY ONLY <2>3, <2>4, <2>5
<1>9. SubSeq(text, b + 1, from) = sign \o pre
  <2> DEFINE Letters == {"+", "-", "0", "x"}
  <2>1. sign \in Seq(Letters)
    <3>1. <<>> \in Seq(Letters) /\ <<"+">> \in Seq(Letters) /\ <<"-">> \in Seq(Letters)
      OBVIOUS
    <3> QED  BY ONLY <3>1, sign \in {<<>>, <<"+">>, <<"-">>}
  <2>2. pre \in Seq(Letters)
    <3>1. <<>> \in Seq(Letters) /\ <<"0">> \in Seq(Letters) /\ <<"0", "x">> \in Seq(Letters)
      OBVIOUS
    <3> QED  BY ONLY <3>1, pre \in {<<>>, <<"0">>, <<"0", "x">>}
  <2>3. Reads(text, b, sign) /\ Reads(text, b + Len(sign), pre)
    BY ONLY <1>2, <1>3, <1>4
  <2>4. SubSeq(text, b + 1, (b + Len(sign)) + Len(pre)) = sign \o pre
    BY ONLY <2>1, <2>2, <2>3, text \in Seq(C), b \in Nat, ReadsBoth
  <2> QED  BY ONLY <1>3, <1>5, <2>4
<1> HIDE DEF num, number
<1>10. PICK r : r = strtol(text, base)
  OBVIOUS
<1>11. b \in 0 .. r.end /\ from <= r.end /\ b + Len(sign) + Len(pre) = from
  <2>1. from <= end
    BY ONLY <1>7 DEF Scanned
  <2>2. r.end = end
    BY ONLY <1>8, <1>10
  <2>3. b \in 0 .. end
    BY ONLY <1>3, <1>5, <2>1, b \in Nat, s \in Nat, from \in Nat, end \in Nat
  <2>4. b + Len(sign) + Len(pre) = from
    BY ONLY <1>3, <1>5
  <2> QED  BY ONLY <2>1, <2>2, <2>3, <2>4
<1>12. /\ \A i \in 1 .. b : text[i] \in {" ", "\t"}
       /\ sign = <<>> => CharAt(text, b) \notin {" ", "\t", "+", "-"}
  BY ONLY <1>1, <1>2
<1>13. /\ pre = <<"0", "x">> => base \in {0, 16}
       /\ pre = <<"0">> => base = 0 /\ CharAt(text, from) # "x"
       /\ pre = <<>> => (base = 0 => CharAt(text, from) # "0")
       /\ pre = <<>> /\ base = 16 => ~(CharAt(text, from) = "0" /\ CharAt(text, from + 1) = "x")
  BY ONLY <1>4, <1>5 DEF PrefixRight
<1>14. /\ \A i \in (from + 1) .. r.end : Digit(text[i]) < Radix(pre, base)
       /\ Digit(CharAt(text, r.end)) >= Radix(pre, base)
       /\ r.val = IF sign = <<"-">> THEN -NumberOf(SubSeq(text, from + 1, r.end), Radix(pre, base))
                  ELSE NumberOf(SubSeq(text, from + 1, r.end), Radix(pre, base))
  BY ONLY <1>6, <1>7, <1>8, <1>10 DEF Scanned, number
<1>15. ReadAs(r, text, base, b, sign, pre)
  BY ONLY <1>9, <1>11, <1>12, <1>13, <1>14 DEF ReadAs
<1> QED
  BY ONLY <1>10, <1>11, <1>15,
          sign \in {<<>>, <<"+">>, <<"-">>}, pre \in {<<>>, <<"0">>, <<"0", "x">>} DEF StrtolAgrees

(* The string functions of string.c and x86.h, for every stretch of memory  *)
(* without gaps, every string in it and every place to copy to: lengths,    *)
(* searches and comparisons are those of the texts, as unsigned bytes, and  *)
(* copies write the text, padded by strncpy, and nothing else.  strtol, for *)
(* every text and base: the number its digits stand for and where they end. *)
(* So StringsAgree holds of all of them, not only of those in a question.   *)
THEOREM StringsTheorem ==
  /\ \A lo, hi \in Int : \A m \in [lo .. hi -> 0 .. 255] : StringFunctionsAgree(m)
  /\ \A C : \A text \in Seq(C), base \in 0 .. 36 : StrtolAgrees(text, base)
  /\ StringsAgree
<1>1. \A lo, hi \in Int : \A m \in [lo .. hi -> 0 .. 255] : StringFunctionsAgree(m)
  BY StringsRight
<1>2. \A C : \A text \in Seq(C), base \in 0 .. 36 : StrtolAgrees(text, base)
  BY StrtolRight
<1>3. ASSUME NEW m \in Memories PROVE StringFunctionsAgree(m)
  <2>1. CASE m \in [0 .. 5 -> {0, 97, 200}]
    <3>1. 0 \in Int /\ 5 \in Int /\ m \in [0 .. 5 -> 0 .. 255]
      BY <2>1
    <3> QED  BY ONLY <1>1, <3>1
  <2>2. CASE m = [a \in 0 .. 9 |-> 225 - 25 * a]
    <3>1. 0 \in Int /\ 9 \in Int /\ m \in [0 .. 9 -> 0 .. 255]
      BY <2>2
    <3> QED  BY ONLY <1>1, <3>1
  <2> QED  BY <2>1, <2>2 DEF Memories
<1>4. ASSUME NEW text \in Texts, NEW base \in Bases PROVE StrtolAgrees(text, base)
  <2> DEFINE Letter == {" ", "+", "-", "0", "1", "9", "x", "b", "B", "z"}
  <2>1. text \in Seq(Letter)
    <3>1. PICK n \in 0 .. 4 : text \in [1 .. n -> Letter]
      BY DEF Texts
    <3>2. n \in Nat
      OBVIOUS
    <3> HIDE DEF Letter
    <3> QED  BY ONLY <3>1, <3>2
  <2>2. base \in 0 .. 36
    BY DEF Bases
  <2> QED  BY ONLY <1>2, <2>1, <2>2
<1>5. StringsAgree
  BY ONLY <1>3, <1>4 DEF StringsAgree
<1> QED  BY ONLY <1>1, <1>2, <1>5
=============================================================================

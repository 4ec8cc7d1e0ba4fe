------------------------------ MODULE ScreenProof ------------------------------
(***************************************************************************)
(* Proofs about the console's output, for every size of the screen, every  *)
(* text of the main line and every set of messages of the handlers, made   *)
(* of any characters C: first when cons_putc masks interrupts (lab 2),     *)
(* then when a handler may print into a call of the main line (lab 1).     *)
(*                                                                         *)
(* The invariants read the steps that a context has left as the place it   *)
(* has come to.  With masking they say what crt_buf, crt_pos and the       *)
(* register are there, relative to the terminal that has the whole         *)
(* character already; without, only between what bounds they are.          *)
(***************************************************************************)
EXTENDS Screen, SequenceTheorems, TLAPS

Sizes == CRT_ROWS \in Nat \ {0} /\ CRT_COLS \in Nat \ {0}

Printing(C) == MainText \in Seq(C) /\ Messages \subseteq Seq(C)

(* What may appear on the screen or at a port, and the steps of cons_putc. *)
Shown(C) == C \cup {BS, Blank}
Step(C) == {<<op>> : op \in Op} \cup (Op \X Shown(C))

-----------------------------------------------------------------------------
(* The steps that are left, from the last one back.  Ports: the bytes w go *)
(* to a port; Close: what is left behind cga_putc.                         *)

Then(op, s) == << <<op>> >> \o s
WriteThen(c, s) == << <<"write", c>> >> \o s

Ports(port, w) == [i \in 1 .. Len(w) |-> <<port, w[i]>>]
Close(w) == Ports("serial", w) \o << <<"restore">> >>
Body(l, c, w) == Ports("lpt", l) \o (<< <<"cga", c>> >> \o Close(w))
Whole(c) == Then("save", Body(PortBytes(c), c, PortBytes(c)))

(* The end of cga_putc: the scrolling, the check, the cursor. *)
Cursor(s) == Then("cursor", s)
Up(s) == Then("up", Cursor(s))
LoadUp(s) == Then("load", Up(s))
Clear(s) == Then("clear", LoadUp(s))
Move(s) == Then("move", Clear(s))
Checks(s) == Then("check", Cursor(s))

(* The four cases of its switch. *)
Home(s) == Then("home", Checks(s))
Column(s) == Then("column", Home(s))
Return(s) == Then("load", Column(s))
Down(s) == Then("down", Return(s))
Newline(s) == Then("load", Down(s))
Wipe(s) == Then("blank", Checks(s))
Back(s) == Then("dec", Wipe(s))
Backspace(s) == Then("load", Back(s))
Write(c, s) == WriteThen(c, Checks(s))
IncWrite(c, s) == Then("inc", Write(c, s))
LoadInc(c, s) == Then("load", IncWrite(c, s))
Inc(s) == Then("inc", Checks(s))
WriteInc(c, s) == WriteThen(c, Inc(s))
LoadWrite(c, s) == Then("load", WriteInc(c, s))

-----------------------------------------------------------------------------
(* The invariant                                                           *)

(* The screen b with the position p is that of the terminal t; or will be, *)
(* once it has scrolled if it must.                                        *)
Same(t, b, p) == p = t.pos /\ \A i \in Cell : b[i] = t.buf[i]
SameOnce(t, b, p) == IF p < CRT_SIZE THEN Same(t, b, p) ELSE Same(t, ScrolledUp(b), p - CRT_COLS)

Agrees(b, p) == Same(shown, b, p)
Fits(b, p) == SameOnce(shown, b, p)

Cleared(b) == [i \in Video |-> IF i \in CRT_SIZE - CRT_COLS .. CRT_SIZE - 1 THEN Blank ELSE b[i]]

(* What holds in the middle of cga_putc, where the steps that are left are *)
(* s and then those behind it.                                             *)
Scrolling(t, s) ==
    LET r == reg[depth] IN
    \/ t = Cursor(s) /\ Agrees(crt_buf, crt_pos)
    \/ t = Up(s) /\ Agrees(crt_buf, r - CRT_COLS)
    \/ t = LoadUp(s) /\ Agrees(crt_buf, crt_pos - CRT_COLS)
    \/ t = Clear(s) /\ Agrees(Cleared(crt_buf), crt_pos - CRT_COLS)
    \/ t = Move(s) /\ Agrees(ScrolledUp(crt_buf), crt_pos - CRT_COLS)
    \/ t = Checks(s) /\ Fits(crt_buf, crt_pos)

Moving(t, s) ==
    LET r == reg[depth] IN
    \/ t = Home(s) /\ Fits(crt_buf, r)
    \/ t = Column(s) /\ r = crt_pos /\ Fits(crt_buf, LineStart(crt_pos))
    \/ t = Return(s) /\ Fits(crt_buf, LineStart(crt_pos))
    \/ t = Down(s) /\ Fits(crt_buf, LineStart(r + CRT_COLS))
    \/ t = Newline(s) /\ Fits(crt_buf, LineStart(crt_pos + CRT_COLS))

Wiping(t, s) ==
    LET r == reg[depth] IN
    \/ t = Wipe(s) /\ crt_pos \in Cell /\ Fits([crt_buf EXCEPT ![crt_pos] = Blank], crt_pos)
    \/ t = Back(s) /\ r - 1 \in Cell /\ Fits([crt_buf EXCEPT ![r - 1] = Blank], r - 1)
    \/ /\ t = Backspace(s) /\ crt_pos - 1 \in Cell
       /\ Fits([crt_buf EXCEPT ![crt_pos - 1] = Blank], crt_pos - 1)

Writing(t, s, c) ==
    LET r == reg[depth] IN
    \/ /\ t = Write(c, s) /\ r \in Cell /\ crt_pos = r + 1
       /\ Fits([crt_buf EXCEPT ![r] = c], r + 1)
    \/ t = IncWrite(c, s) /\ r \in Cell /\ Fits([crt_buf EXCEPT ![r] = c], r + 1)
    \/ t = LoadInc(c, s) /\ crt_pos \in Cell /\ Fits([crt_buf EXCEPT ![crt_pos] = c], crt_pos + 1)
    \/ t = Inc(s) /\ Fits(crt_buf, r + 1)
    \/ t = WriteInc(c, s) /\ r \in Cell /\ Fits([crt_buf EXCEPT ![r] = c], r + 1)
    \/ t = LoadWrite(c, s) /\ crt_pos \in Cell /\ Fits([crt_buf EXCEPT ![crt_pos] = c], crt_pos + 1)

WithinCga(C, t, s) ==
    Scrolling(t, s) \/ Moving(t, s) \/ Wiping(t, s) \/ \E c \in C : Writing(t, s, c)

(* Outside of cga_putc. *)
Kept == Agrees(crt_buf, crt_pos) /\ cursor = crt_pos

Outside(C, t) == t = <<>> \/ \E c \in C : t = Whole(c)

Terminal(D) == [buf : [Cell -> D], pos : Cell]

TypeInv(C) ==
    /\ depth \in Context /\ iflag \in BOOLEAN
    /\ flag \in [Context -> BOOLEAN] /\ reg \in [Context -> Int]
    /\ text \in [Context -> Seq(C)] /\ todo \in [Context -> Seq(Step(C))]
    /\ crt_buf \in [Video -> Shown(C)] /\ crt_pos \in Int
    /\ shown \in Terminal(Shown(C))
    /\ unsent \in Seq(Shown(C))

(* The section between local_intr_save and local_intr_restore belongs to   *)
(* one context at a time: a handler runs only while the main line is       *)
(* outside.                                                                *)
SectionInv(C) ==
    /\ ~flag[Handler]
    /\ depth = Handler => ~iflag
    /\ depth = Main => todo[Handler] = <<>>
    /\ iflag \/ depth = Handler => Outside(C, todo[Main])

(* How far the running context is, and what the ports and the screen have. *)
ProgressInv(C) ==
    LET t == todo[depth] IN
    \/ Outside(C, t) /\ Kept /\ unsent = <<>>
    \/ /\ Kept
       /\ \E l, w \in Seq(Shown(C)), c \in C : t = Body(l, c, w) /\ unsent \o l = w
    \/ t = Close(unsent) /\ Kept
    \/ WithinCga(C, t, Close(unsent))

Inv(C) == masked \in BOOLEAN /\ (masked = TRUE => TypeInv(C) /\ SectionInv(C) /\ ProgressInv(C))

-----------------------------------------------------------------------------
(* Sizes                                                                   *)

(* A whole number of lines. *)
LEMMA ScreenSize ==
  ASSUME Sizes
  PROVE  /\ CRT_COLS \in Nat /\ CRT_COLS >= 1 /\ CRT_SIZE \in Nat /\ CRT_COLS <= CRT_SIZE
         /\ Cell \subseteq Video /\ 0 \in Cell
<1>1. PICK r, c \in Nat : r = CRT_ROWS /\ c = CRT_COLS /\ r >= 1 /\ c >= 1
  BY DEF Sizes
<1>2. PICK m \in Nat : m = r - 1
  BY <1>1
<1>3. PICK n \in Nat : n = m * c
  OBVIOUS
<1>4. r * c = n + c
  <2>1. r = m + 1
    BY <1>2
  <2>2. (m + 1) * c = m * c + c
    OBVIOUS
  <2> QED  BY <1>3, <2>1, <2>2
<1>5. CRT_SIZE = n + c
  BY <1>1, <1>4 DEF CRT_SIZE
<1>6. Cell \subseteq Video /\ 0 \in Cell
  BY <1>1, <1>5 DEF Cell, Video
<1> QED  BY <1>1, <1>5, <1>6

(* The start of the line of a position that is at most one line below the  *)
(* screen.                                                                 *)
LEMMA LineStarts ==
  ASSUME Sizes, NEW p \in Nat
  PROVE  /\ LineStart(p) \in Nat /\ LineStart(p) <= p
         /\ p < CRT_SIZE + CRT_COLS => LineStart(p) <= CRT_SIZE
<1>1. PICK r, c \in Nat : r = CRT_ROWS /\ c = CRT_COLS /\ r >= 1 /\ c >= 1
  BY DEF Sizes
<1>2. PICK q \in Nat, m \in Nat : p = c * q + m /\ m < c /\ p % CRT_COLS = m
  <2>1. p = c * (p \div c) + (p % c) /\ p \div c \in Nat /\ p % c \in Nat /\ p % c < c
    BY <1>1
  <2> QED  BY <1>1, <2>1
<1>3. PICK s \in Nat, z \in Nat : s = c * q /\ z = c * r /\ CRT_SIZE = z
  BY <1>1 DEF CRT_SIZE
<1>4. LineStart(p) = s
  BY <1>2, <1>3 DEF LineStart
<1>5. ASSUME q > r PROVE s >= z + c
  <2>1. PICK d \in Nat : q = r + 1 + d
    BY <1>5
  <2>2. c * q = c * r + c + c * d /\ c * d >= 0
    BY ONLY <2>1, c \in Nat, r \in Nat, d \in Nat
  <2> QED  BY <1>3, <2>2
<1>6. ASSUME q <= r PROVE s <= z
  <2>1. PICK d \in Nat : r = q + d
    BY <1>6
  <2>2. c * r = c * q + c * d /\ c * d >= 0
    BY ONLY <2>1, c \in Nat, q \in Nat, d \in Nat
  <2> QED  BY <1>3, <2>2
<1>7. p < z + c => s <= z
  BY <1>2, <1>3, <1>5, <1>6
<1> QED  BY <1>1, <1>2, <1>3, <1>4, <1>7

-----------------------------------------------------------------------------
(* Sequences of steps                                                      *)

LEMMA Cons ==
  ASSUME NEW S, NEW x \in S, NEW s \in Seq(S)
  PROVE  /\ <<x>> \o s \in Seq(S) /\ <<x>> \o s # <<>>
         /\ Head(<<x>> \o s) = x /\ Tail(<<x>> \o s) = s
<1> DEFINE z == <<x>> \o s
<1>1. <<x>> \in Seq(S) /\ Len(<<x>>) = 1 /\ <<x>>[1] = x
  OBVIOUS
<1>2. /\ z \in Seq(S) /\ Len(z) = 1 + Len(s)
      /\ \A i \in 1 .. 1 + Len(s) : z[i] = IF i <= 1 THEN <<x>>[i] ELSE s[i - 1]
  BY <1>1, ConcatProperties
<1>3. Len(s) \in Nat
  OBVIOUS
<1> HIDE DEF z
<1>4. z # <<>> /\ Head(z) = x
  BY <1>1, <1>2, <1>3
<1>5. Tail(z) = s
  <2>1. /\ Tail(z) \in Seq(S) /\ Len(Tail(z)) = Len(z) - 1
        /\ \A i \in 1 .. Len(Tail(z)) : Tail(z)[i] = z[i + 1]
    BY <1>2, <1>4, HeadTailProperties
  <2>2. \A i \in 1 .. Len(s) : Tail(z)[i] = s[i]
    BY <1>2, <1>3, <2>1
  <2> QED  BY <1>2, <1>3, <2>1, <2>2, SeqEqual
<1> QED  BY <1>2, <1>4, <1>5 DEF z

(* An element in front of a sequence, and another sequence behind. *)
LEMMA Front ==
  ASSUME NEW S, NEW a \in S, NEW t \in Seq(S), NEW s \in Seq(S)
  PROVE  (<<a>> \o t) \o s = <<a>> \o (t \o s) /\ t \o s \in Seq(S)
<1>1. <<a>> \in Seq(S)
  OBVIOUS
<1>2. (<<a>> \o t) \o s = <<a>> \o (t \o s)
  BY <1>1, ConcatAssociative
<1>3. t \o s \in Seq(S)
  BY ConcatProperties
<1> QED  BY <1>2, <1>3

-----------------------------------------------------------------------------
(* The steps of cons_putc                                                  *)

(* t begins with the step x, u is behind it. *)
Begins(C, t, x, u) == t \in Seq(Step(C)) /\ t # <<>> /\ Head(t) = x /\ Tail(t) = u

LEMMA StepIs ==
  ASSUME NEW C
  PROVE  /\ \A op \in Op : <<op>> \in Step(C)
         /\ \A op \in Op, c \in Shown(C) : <<op, c>> \in Step(C)
         /\ C \subseteq Shown(C) /\ Blank \in Shown(C) /\ BS \in Shown(C)
BY DEF Step, Shown

LEMMA ThenBegins ==
  ASSUME NEW C, NEW s \in Seq(Step(C))
  PROVE  /\ \A op \in Op : Begins(C, Then(op, s), <<op>>, s)
         /\ \A c \in C : Begins(C, WriteThen(c, s), <<"write", c>>, s)
<1>1. ASSUME NEW op \in Op PROVE Begins(C, Then(op, s), <<op>>, s)
  <2>1. <<op>> \in Step(C)
    BY StepIs
  <2> QED  BY <2>1, Cons DEF Begins, Then
<1>2. ASSUME NEW c \in C PROVE Begins(C, WriteThen(c, s), <<"write", c>>, s)
  <2>1. <<"write", c>> \in Step(C)
    BY StepIs DEF Op
  <2> QED  BY <2>1, Cons DEF Begins, WriteThen
<1> QED  BY <1>1, <1>2

LEMMA CgaBegins ==
  ASSUME NEW C, NEW s \in Seq(Step(C))
  PROVE  /\ Begins(C, Cursor(s), <<"cursor">>, s)
         /\ Begins(C, Up(s), <<"up">>, Cursor(s))
         /\ Begins(C, LoadUp(s), <<"load">>, Up(s))
         /\ Begins(C, Clear(s), <<"clear">>, LoadUp(s))
         /\ Begins(C, Move(s), <<"move">>, Clear(s))
         /\ Begins(C, Checks(s), <<"check">>, Cursor(s))
         /\ Begins(C, Home(s), <<"home">>, Checks(s))
         /\ Begins(C, Column(s), <<"column">>, Home(s))
         /\ Begins(C, Return(s), <<"load">>, Column(s))
         /\ Begins(C, Down(s), <<"down">>, Return(s))
         /\ Begins(C, Newline(s), <<"load">>, Down(s))
         /\ Begins(C, Wipe(s), <<"blank">>, Checks(s))
         /\ Begins(C, Back(s), <<"dec">>, Wipe(s))
         /\ Begins(C, Backspace(s), <<"load">>, Back(s))
         /\ Begins(C, Inc(s), <<"inc">>, Checks(s))
<1>0. {"cursor", "up", "load", "clear", "move", "check", "home", "column", "down", "blank", "dec", "inc"}
         \subseteq Op
  BY DEF Op
<1>1. ASSUME NEW t \in Seq(Step(C)), NEW op \in Op
      PROVE  Begins(C, Then(op, t), <<op>>, t) /\ Then(op, t) \in Seq(Step(C))
  BY ThenBegins DEF Begins
<1>2. Begins(C, Cursor(s), <<"cursor">>, s) /\ Cursor(s) \in Seq(Step(C))
  BY <1>0, <1>1 DEF Cursor
<1>3. Begins(C, Up(s), <<"up">>, Cursor(s)) /\ Up(s) \in Seq(Step(C))
  BY <1>0, <1>1, <1>2 DEF Up
<1>4. Begins(C, LoadUp(s), <<"load">>, Up(s)) /\ LoadUp(s) \in Seq(Step(C))
  BY <1>0, <1>1, <1>3 DEF LoadUp
<1>5. Begins(C, Clear(s), <<"clear">>, LoadUp(s)) /\ Clear(s) \in Seq(Step(C))
  BY <1>0, <1>1, <1>4 DEF Clear
<1>6. Begins(C, Move(s), <<"move">>, Clear(s))
  BY <1>0, <1>1, <1>5 DEF Move
<1>7. Begins(C, Checks(s), <<"check">>, Cursor(s)) /\ Checks(s) \in Seq(Step(C))
  BY <1>0, <1>1, <1>2 DEF Checks
<1>8. Begins(C, Home(s), <<"home">>, Checks(s)) /\ Home(s) \in Seq(Step(C))
  BY <1>0, <1>1, <1>7 DEF Home
<1>9. Begins(C, Column(s), <<"column">>, Home(s)) /\ Column(s) \in Seq(Step(C))
  BY <1>0, <1>1, <1>8 DEF Column
<1>10. Begins(C, Return(s), <<"load">>, Column(s)) /\ Return(s) \in Seq(Step(C))
  BY <1>0, <1>1, <1>9 DEF Return
<1>11. Begins(C, Down(s), <<"down">>, Return(s)) /\ Down(s) \in Seq(Step(C))
  BY <1>0, <1>1, <1>10 DEF Down
<1>12. Begins(C, Newline(s), <<"load">>, Down(s))
  BY <1>0, <1>1, <1>11 DEF Newline
<1>13. Begins(C, Wipe(s), <<"blank">>, Checks(s)) /\ Wipe(s) \in Seq(Step(C))
  BY <1>0, <1>1, <1>7 DEF Wipe
<1>14. Begins(C, Back(s), <<"dec">>, Wipe(s)) /\ Back(s) \in Seq(Step(C))
  BY <1>0, <1>1, <1>13 DEF Back
<1>15. Begins(C, Backspace(s), <<"load">>, Back(s))
  BY <1>0, <1>1, <1>14 DEF Backspace
<1>16. Begins(C, Inc(s), <<"inc">>, Checks(s))
  BY <1>0, <1>1, <1>7 DEF Inc
<1> QED  BY <1>2, <1>3, <1>4, <1>5, <1>6, <1>7, <1>8, <1>9, <1>10, <1>11, <1>12, <1>13, <1>14,
            <1>15, <1>16

LEMMA WriteBegins ==
  ASSUME NEW C, NEW s \in Seq(Step(C)), NEW c \in C
  PROVE  /\ Begins(C, Write(c, s), <<"write", c>>, Checks(s))
         /\ Begins(C, IncWrite(c, s), <<"inc">>, Write(c, s))
         /\ Begins(C, LoadInc(c, s), <<"load">>, IncWrite(c, s))
         /\ Begins(C, WriteInc(c, s), <<"write", c>>, Inc(s))
         /\ Begins(C, LoadWrite(c, s), <<"load">>, WriteInc(c, s))
<1>0. "inc" \in Op /\ "load" \in Op /\ Checks(s) \in Seq(Step(C)) /\ Inc(s) \in Seq(Step(C))
  BY CgaBegins DEF Op, Begins
<1>1. Begins(C, Write(c, s), <<"write", c>>, Checks(s)) /\ Write(c, s) \in Seq(Step(C))
  BY <1>0, ThenBegins DEF Write, Begins
<1>2. Begins(C, IncWrite(c, s), <<"inc">>, Write(c, s)) /\ IncWrite(c, s) \in Seq(Step(C))
  BY <1>0, <1>1, ThenBegins DEF IncWrite, Begins
<1>3. Begins(C, LoadInc(c, s), <<"load">>, IncWrite(c, s))
  BY <1>0, <1>2, ThenBegins DEF LoadInc
<1>4. Begins(C, WriteInc(c, s), <<"write", c>>, Inc(s)) /\ WriteInc(c, s) \in Seq(Step(C))
  BY <1>0, ThenBegins DEF WriteInc, Begins
<1>5. Begins(C, LoadWrite(c, s), <<"load">>, WriteInc(c, s))
  BY <1>0, <1>4, ThenBegins DEF LoadWrite
<1> QED  BY <1>1, <1>2, <1>3, <1>4, <1>5

(* The bytes of a port. *)
PortsBegin(C, port, w, z) ==
  /\ Ports(port, w) \in Seq(Step(C)) /\ Ports(port, w) \o z \in Seq(Step(C))
  /\ w = <<>> => Ports(port, w) \o z = z
  /\ w # <<>> => Begins(C, Ports(port, w) \o z, <<port, Head(w)>>, Ports(port, Tail(w)) \o z)

LEMMA PortSteps ==
  ASSUME NEW C, NEW port \in {"lpt", "serial"}, NEW w \in Seq(Shown(C)), NEW z \in Seq(Step(C))
  PROVE  PortsBegin(C, port, w, z)
<1>0. PICK S, D : S = Step(C) /\ D = Shown(C) /\ (\A d \in D : <<port, d>> \in S)
  BY StepIs DEF Op
<1> w \in Seq(D) /\ z \in Seq(S)
  BY <1>0
<1> DEFINE P == Ports(port, w)
<1>1. P \in Seq(S) /\ Len(P) = Len(w) /\ \A i \in 1 .. Len(w) : P[i] = <<port, w[i]>>
  BY <1>0 DEF Ports
<1>2. P \o z \in Seq(S)
  BY <1>1, ConcatProperties
<1>3. w = <<>> => P \o z = z
  <2>1. w = <<>> => P = <<>>
    BY <1>1
  <2> QED  BY <2>1, ConcatEmptySeq
<1>4. ASSUME w # <<>>
      PROVE  P \o z # <<>> /\ Head(P \o z) = <<port, Head(w)>> /\ Tail(P \o z) = Ports(port, Tail(w)) \o z
  <2> DEFINE Q == Ports(port, Tail(w))
  <2>1. /\ Head(w) = w[1] /\ Head(w) \in D /\ Tail(w) \in Seq(D) /\ Len(Tail(w)) = Len(w) - 1
        /\ Len(w) \in Nat /\ Len(w) >= 1
        /\ \A i \in 1 .. Len(w) - 1 : Tail(w)[i] = w[i + 1]
    BY <1>4, HeadTailProperties, EmptySeq
  <2>2. Q \in Seq(S) /\ Len(Q) = Len(w) - 1 /\ \A i \in 1 .. Len(w) - 1 : Q[i] = <<port, w[i + 1]>>
    BY <1>0, <2>1 DEF Ports
  <2> HIDE DEF Q
  <2>3. P = << <<port, Head(w)>> >> \o Q
    <3> DEFINE x == <<port, Head(w)>>
               R == <<x>> \o Q
    <3>1. x \in S
      BY <1>0, <2>1
    <3>2. <<x>> \in Seq(S) /\ Len(<<x>>) = 1 /\ <<x>>[1] = x
      BY <3>1
    <3>3. /\ R \in Seq(S) /\ Len(R) = 1 + Len(Q)
          /\ \A i \in 1 .. 1 + Len(Q) : R[i] = IF i <= 1 THEN <<x>>[i] ELSE Q[i - 1]
      BY <2>2, <3>2, ConcatProperties
    <3> HIDE DEF R
    <3>4. Len(R) = Len(w)
      BY <2>1, <2>2, <3>3
    <3>5. ASSUME NEW i \in 1 .. Len(w) PROVE P[i] = R[i]
      <4>1. CASE i = 1
        <5>1. 1 \in 1 .. Len(w) /\ 1 \in 1 .. 1 + Len(Q)
          BY <2>1, <2>2
        <5>2. P[1] = x
          BY <1>1, <2>1, <5>1
        <5>3. R[1] = x
          BY <3>2, <3>3, <5>1
        <5> QED  BY <4>1, <5>2, <5>3
      <4>2. CASE i # 1
        <5>1. i - 1 \in 1 .. Len(w) - 1 /\ i \in 1 .. 1 + Len(Q) /\ ~(i <= 1) /\ (i - 1) + 1 = i
          BY <2>1, <2>2, <4>2
        <5>2. R[i] = Q[i - 1] /\ Q[i - 1] = <<port, w[(i - 1) + 1]>>
          BY <2>2, <3>3, <5>1
        <5> QED  BY <1>1, <5>1, <5>2
      <4> QED  BY <4>1, <4>2
    <3>6. P = R
      BY <1>1, <3>3, <3>4, <3>5, SeqEqual
    <3> QED  BY <3>6 DEF R
  <2>4. P \o z = << <<port, Head(w)>> >> \o (Q \o z) /\ Q \o z \in Seq(S)
    <3>1. <<port, Head(w)>> \in S
      BY <1>0, <2>1
    <3> QED  BY <2>2, <2>3, <3>1, Front
  <2>5. <<port, Head(w)>> \in S
    BY <1>0, <2>1
  <2> QED  BY <2>4, <2>5, Cons DEF Q
<1> QED  BY <1>0, <1>1, <1>2, <1>3, <1>4 DEF P, Begins, PortsBegin

(* What is left inside the section. *)
LEMMA CloseBegins ==
  ASSUME NEW C, NEW w \in Seq(Shown(C))
  PROVE  /\ Close(w) \in Seq(Step(C))
         /\ w = <<>> => Begins(C, Close(w), <<"restore">>, <<>>)
         /\ w # <<>> => Begins(C, Close(w), <<"serial", Head(w)>>, Close(Tail(w)))
<1>0. <<"restore">> \in Step(C) /\ <<>> \in Seq(Step(C))
  BY StepIs DEF Op
<1> DEFINE e == << <<"restore">> >>
<1>1. e \in Seq(Step(C)) /\ e # <<>> /\ Head(e) = <<"restore">> /\ Tail(e) = <<>>
  <2>1. e = e \o <<>>
    BY <1>0, ConcatEmptySeq
  <2> QED  BY <1>0, <2>1, Cons
<1> HIDE DEF e
<1>2. Close(w) = Ports("serial", w) \o e /\ Close(Tail(w)) = Ports("serial", Tail(w)) \o e
  BY DEF Close, e
<1>3. PICK z \in Seq(Step(C)) : z = e
  BY <1>1
<1>4. PortsBegin(C, "serial", w, z)
  BY PortSteps
<1> QED  BY <1>1, <1>2, <1>3, <1>4 DEF Begins, PortsBegin

LEMMA SectionBegins ==
  ASSUME NEW C, NEW l \in Seq(Shown(C)), NEW w \in Seq(Shown(C)), NEW c \in C
  PROVE  /\ Body(l, c, w) \in Seq(Step(C)) /\ Body(l, c, w) # <<>>
         /\ l = <<>> => Begins(C, Body(l, c, w), <<"cga", c>>, Close(w))
         /\ l # <<>> => Begins(C, Body(l, c, w), <<"lpt", Head(l)>>, Body(Tail(l), c, w))
<1>0. <<"cga", c>> \in Step(C) /\ Close(w) \in Seq(Step(C))
  BY StepIs, CloseBegins DEF Op
<1> DEFINE g == << <<"cga", c>> >> \o Close(w)
<1>1. g \in Seq(Step(C)) /\ Begins(C, g, <<"cga", c>>, Close(w))
  BY <1>0, Cons DEF Begins
<1> HIDE DEF g
<1>2. Body(l, c, w) = Ports("lpt", l) \o g /\ Body(Tail(l), c, w) = Ports("lpt", Tail(l)) \o g
  BY DEF Body, g
<1>3. PICK z \in Seq(Step(C)) : z = g
  BY <1>1
<1>4. PortsBegin(C, "lpt", l, z)
  BY PortSteps
<1> QED  BY <1>1, <1>2, <1>3, <1>4 DEF Begins, PortsBegin

(* Concatenation is associative: any grouping of five sequences is the      *)
(* same.                                                                   *)
Cat(a, b) == a \o b
Assoc(T) == \A a, b, c \in T : Cat(Cat(a, b), c) = Cat(a, Cat(b, c))
Closed(T) == \A a, b \in T : Cat(a, b) \in T

LEMMA Cats ==
  ASSUME NEW S
  PROVE  Closed(Seq(S)) /\ Assoc(Seq(S))
<1>1. ASSUME NEW a \in Seq(S), NEW b \in Seq(S), NEW c \in Seq(S)
      PROVE  Cat(Cat(a, b), c) = Cat(a, Cat(b, c)) /\ Cat(a, b) \in Seq(S)
  <2>1. (a \o b) \o c = a \o (b \o c)
    BY ConcatAssociative
  <2>2. a \o b \in Seq(S)
    BY ConcatProperties
  <2> QED  BY <2>1, <2>2, Zenon DEF Cat
<1> QED  BY <1>1, Zenon DEF Closed, Assoc

Grouped(a, b, c, d, e) == (((a \o b) \o c) \o d) \o e = a \o (b \o (c \o (d \o e)))

LEMMA Groups ==
  ASSUME NEW T, Closed(T), Assoc(T), NEW a \in T, NEW b \in T, NEW c \in T, NEW d \in T, NEW e \in T
  PROVE  Grouped(a, b, c, d, e)
<1>1. PICK x, y, z, u \in T : x = Cat(a, b) /\ y = Cat(x, c) /\ z = Cat(d, e) /\ u = Cat(c, z)
  BY DEF Closed
<1>3. Cat(Cat(y, d), e) = Cat(y, z)
  BY <1>1 DEF Assoc
<1>4. Cat(y, z) = Cat(x, u)
  BY <1>1 DEF Assoc
<1>5. Cat(x, u) = Cat(a, Cat(b, u))
  BY <1>1 DEF Assoc
<1>6. Cat(Cat(Cat(Cat(a, b), c), d), e) = Cat(a, Cat(b, Cat(c, Cat(d, e))))
  BY <1>1, <1>3, <1>4, <1>5, Zenon
<1> QED  BY <1>6, Zenon DEF Cat, Grouped

(* cons_putc as cprintf begins it. *)
LEMMA PutcIs ==
  ASSUME NEW C, NEW c \in C
  PROVE  /\ PortBytes(c) \in Seq(Shown(C)) /\ Putc(TRUE, c) = Whole(c)
         /\ Begins(C, Whole(c), <<"save">>, Body(PortBytes(c), c, PortBytes(c)))
<1> DEFINE w == PortBytes(c)
           S == Step(C)
           l == Ports("lpt", w)
           r == Ports("serial", w)
           save == << <<"save">> >>
           g == << <<"cga", c>> >>
           e == << <<"restore">> >>
<1>1. w \in Seq(Shown(C))
  BY StepIs DEF PortBytes
<1>2. <<"save">> \in S /\ <<"restore">> \in S /\ <<"cga", c>> \in S /\ "save" \in Op
  BY StepIs DEF Op
<1>3. save \in Seq(S) /\ g \in Seq(S) /\ e \in Seq(S)
  BY <1>2
<1>4. l \in Seq(S) /\ r \in Seq(S)
  BY <1>1, <1>3, PortSteps DEF PortsBegin
<1>5. ToPort("lpt", c) = l /\ ToPort("serial", c) = r
  BY DEF ToPort, Ports
<1>6. Putc(TRUE, c) = (((save \o l) \o g) \o r) \o e
  BY <1>5 DEF Putc
<1>7. Whole(c) = save \o (l \o (g \o (r \o e)))
  BY DEF Whole, Then, Body, Close
<1> HIDE DEF w, S, l, r, save, g, e
<1>8. (((save \o l) \o g) \o r) \o e = save \o (l \o (g \o (r \o e)))
  <2>1. PICK T : T = Seq(S)
    OBVIOUS
  <2>2. Closed(T) /\ Assoc(T) /\ save \in T /\ l \in T /\ g \in T /\ r \in T /\ e \in T
    BY <1>3, <1>4, <2>1, Cats
  <2>3. Grouped(save, l, g, r, e)
    BY <2>2, Groups
  <2> QED  BY <2>3, Zenon DEF Grouped
<1>9. Begins(C, Whole(c), <<"save">>, Body(PortBytes(c), c, PortBytes(c)))
  BY <1>1, <1>2, SectionBegins, ThenBegins DEF Whole, w
<1> QED  BY <1>1, <1>6, <1>7, <1>8, <1>9 DEF w

(* The steps of cga_putc, one by one. *)
(* Tuples, element by element. *)
LEMMA Pair ==
  ASSUME NEW S, NEW a \in S, NEW b \in S
  PROVE  <<a, b>> = <<a>> \o <<b>>
<1>1. <<a, b>> \in Seq(S) /\ <<a>> \in Seq(S) /\ <<b>> \in Seq(S)
  OBVIOUS
<1>2. PICK z \in Seq(S) : z = <<a>> \o <<b>>
  BY <1>1, ConcatProperties
<1>3. Len(z) = 2 /\ z[1] = a /\ z[2] = b
  BY <1>1, <1>2, ConcatProperties
<1>4. \A i \in 1 .. 2 : <<a, b>>[i] = z[i]
  BY <1>3
<1>5. <<a, b>> = z
  BY <1>1, <1>3, <1>4, SeqEqual
<1> QED  BY <1>2, <1>5

Two(a, b, s) == (<<>> \o <<a, b>>) \o s = <<a>> \o (<<b>> \o s)
Four(a, b, c, d, s) == <<a, b, c, d>> \o s = <<a>> \o (<<b>> \o (<<c>> \o (<<d>> \o s)))
Five(a, b, c, d, e, s) ==
    (<<a, b, c>> \o <<d, e>>) \o s = <<a>> \o (<<b>> \o (<<c>> \o (<<d>> \o (<<e>> \o s))))
Seven(x, y, a, b, c, d, e, s) ==
    (<<x, y, a, b, c>> \o <<d, e>>) \o s
      = <<x>> \o (<<y>> \o (<<a>> \o (<<b>> \o (<<c>> \o (<<d>> \o (<<e>> \o s))))))

LEMMA ShortList ==
  ASSUME NEW S, NEW a \in S, NEW b \in S, NEW s \in Seq(S)
  PROVE  Two(a, b, s)
<1>1. PICK T : T = Seq(S)
  OBVIOUS
<1>2. PICK A, B, u \in T : A = <<a>> /\ B = <<b>> /\ u = s
  <2>1. <<a>> \in Seq(S) /\ <<b>> \in Seq(S)
    OBVIOUS
  <2> QED  BY <1>1, <2>1
<1>3. Cat(Cat(A, B), u) = Cat(A, Cat(B, u))
  BY <1>1, Cats DEF Assoc
<1>4. <<a, b>> = <<a>> \o <<b>>
  BY Pair
<1>5. <<>> \o <<a, b>> = <<a, b>>
  BY ConcatEmptySeq
<1> QED  BY <1>2, <1>3, <1>4, <1>5, Zenon DEF Cat, Two

LEMMA Lists ==
  ASSUME NEW S, NEW a \in S, NEW b \in S, NEW c \in S, NEW d \in S, NEW e \in S, NEW s \in Seq(S)
  PROVE  Four(a, b, c, d, s) /\ Five(a, b, c, d, e, s)
<1>0. /\ <<a>> \in Seq(S) /\ <<b>> \in Seq(S) /\ <<c>> \in Seq(S) /\ <<d>> \in Seq(S) /\ <<e>> \in Seq(S)
  OBVIOUS
<1>01. <<a, b>> = <<a>> \o <<b>>
  BY Pair
<1>02. <<d, e>> = <<d>> \o <<e>>
  BY Pair
<1>03. <<a, b, c>> = <<a, b>> \o <<c>>
  OBVIOUS
<1>04. <<a, b, c, d>> = <<a, b, c>> \o <<d>>
  OBVIOUS
<1>1. PICK T : T = Seq(S)
  OBVIOUS
<1>2. Closed(T) /\ Assoc(T)
  BY <1>1, Cats
<1>3. PICK A, B, D, E, F \in T : A = <<a>> /\ B = <<b>> /\ D = <<c>> /\ E = <<d>> /\ F = <<e>>
  BY <1>0, <1>1
<1>4. <<a, b>> = Cat(A, B) /\ <<d, e>> = Cat(E, F)
  BY <1>01, <1>02, <1>3, Zenon DEF Cat
<1>5. <<a, b, c>> = Cat(Cat(A, B), D)
  BY <1>03, <1>3, <1>4, Zenon DEF Cat
<1>6. <<a, b, c, d>> = Cat(Cat(Cat(A, B), D), E)
  BY <1>04, <1>3, <1>5, Zenon DEF Cat
<1>7. PICK u \in T : u = s
  BY <1>1
<1>9. Grouped(A, B, D, E, u)
  BY <1>2, <1>3, <1>7, Groups
<1>10. Cat(Cat(Cat(A, B), D), Cat(E, F)) \in T /\ Cat(E, Cat(F, u)) \in T /\ Cat(F, u) \in T
  BY <1>2, <1>3 DEF Closed
<1>11. Cat(Cat(Cat(Cat(A, B), D), Cat(E, F)), u) = Cat(Cat(Cat(A, B), D), Cat(Cat(E, F), u))
  <2>1. PICK x, y \in T : x = Cat(Cat(A, B), D) /\ y = Cat(E, F)
    BY <1>2, <1>3 DEF Closed
  <2> QED  BY <1>2, <2>1 DEF Assoc
<1>12. Cat(Cat(E, F), u) = Cat(E, Cat(F, u))
  BY <1>2, <1>3 DEF Assoc
<1>13. Grouped(A, B, D, E, Cat(F, u))
  BY <1>2, <1>3, <1>10, Groups
<1>16. <<a, b, c, d>> \o s = <<a>> \o (<<b>> \o (<<c>> \o (<<d>> \o s)))
  BY <1>3, <1>6, <1>7, <1>9, Zenon DEF Cat, Grouped
<1>17. (<<a, b, c>> \o <<d, e>>) \o s = Cat(A, Cat(B, Cat(D, Cat(E, Cat(F, u)))))
  <2>1. (<<a, b, c>> \o <<d, e>>) \o s = Cat(Cat(Cat(Cat(A, B), D), Cat(E, F)), u)
    BY <1>4, <1>5, <1>7, Zenon DEF Cat
  <2>2. Cat(Cat(Cat(A, B), D), Cat(E, Cat(F, u))) = Cat(A, Cat(B, Cat(D, Cat(E, Cat(F, u)))))
    <3>1. PICK x, v \in T : x = Cat(Cat(A, B), D) /\ v = Cat(F, u)
      BY <1>2, <1>3, <1>10 DEF Closed
    <3>2. Cat(Cat(x, E), v) = Cat(x, Cat(E, v))
      BY <1>2, <3>1 DEF Assoc
    <3>3. Cat(Cat(Cat(Cat(A, B), D), E), Cat(F, u)) = Cat(A, Cat(B, Cat(D, Cat(E, Cat(F, u)))))
      BY <1>13, Zenon DEF Cat, Grouped
    <3> QED  BY <3>1, <3>2, <3>3
  <2> QED  BY <1>11, <1>12, <2>1, <2>2
<1>18. <<a>> \o (<<b>> \o (<<c>> \o (<<d>> \o (<<e>> \o s)))) = Cat(A, Cat(B, Cat(D, Cat(E, Cat(F, u)))))
  BY <1>3, <1>7, Zenon DEF Cat
<1> QED  BY <1>16, <1>17, <1>18, Zenon DEF Four, Five

LEMMA LongList ==
  ASSUME NEW S, NEW x \in S, NEW y \in S, NEW a \in S, NEW b \in S, NEW c \in S, NEW d \in S,
         NEW e \in S, NEW s \in Seq(S)
  PROVE  Seven(x, y, a, b, c, d, e, s)
<1>1. PICK T : T = Seq(S)
  OBVIOUS
<1>2. Closed(T) /\ Assoc(T)
  BY <1>1, Cats
<1>3. PICK X, Y, A, B, u \in T : X = <<x>> /\ Y = <<y>> /\ A = <<a, b, c>> /\ B = <<d, e>> /\ u = s
  <2>1. <<x>> \in Seq(S) /\ <<y>> \in Seq(S)
    OBVIOUS
  <2>2. <<a, b, c>> \in Seq(S)
    OBVIOUS
  <2>3. <<d, e>> \in Seq(S)
    OBVIOUS
  <2> QED  BY <1>1, <2>1, <2>2, <2>3
<1>4. <<x, y, a, b, c>> = Cat(Cat(X, Y), A)
  <2>1. <<x, y, a, b, c>> = (<<x>> \o <<y>>) \o <<a, b, c>>
    OBVIOUS
  <2> QED  BY <1>3, <2>1, Zenon DEF Cat
<1>5. Grouped(X, Y, A, B, u)
  BY <1>2, <1>3, Groups
<1>6. Cat(A, B) \in T
  BY <1>2, <1>3 DEF Closed
<1>7. Cat(Cat(A, B), u) = Cat(A, Cat(B, u))
  BY <1>2, <1>3 DEF Assoc
<1>8. Five(a, b, c, d, e, s)
  BY Lists
<1>9. Cat(Cat(Cat(Cat(X, Y), A), B), u) = Cat(X, Cat(Y, Cat(Cat(A, B), u)))
  <2>1. Cat(Cat(Cat(Cat(X, Y), A), B), u) = Cat(X, Cat(Y, Cat(A, Cat(B, u))))
    BY <1>5, Zenon DEF Grouped, Cat
  <2> QED  BY <1>7, <2>1
<1>10. (<<x, y, a, b, c>> \o <<d, e>>) \o s = Cat(Cat(Cat(Cat(X, Y), A), B), u)
  BY <1>3, <1>4, Zenon DEF Cat
<1>11. Cat(X, Cat(Y, Cat(Cat(A, B), u))) = <<x>> \o (<<y>> \o ((<<a, b, c>> \o <<d, e>>) \o s))
  BY <1>3, Zenon DEF Cat
<1> QED  BY <1>8, <1>9, <1>10, <1>11, Zenon DEF Five, Seven

-----------------------------------------------------------------------------
(* Which step is next                                                      *)

At(t, op) == t # <<>> /\ Head(t)[1] = op

LEMMA BeginsAt ==
  ASSUME NEW C, NEW t, NEW op, NEW u
  PROVE  /\ Begins(C, t, <<op>>, u) => At(t, op)
         /\ \A c : Begins(C, t, <<op, c>>, u) => At(t, op)
BY DEF Begins, At

LEMMA CgaHeads ==
  ASSUME NEW C, NEW s \in Seq(Step(C))
  PROVE  /\ At(Cursor(s), "cursor") /\ At(Up(s), "up") /\ At(LoadUp(s), "load")
         /\ At(Clear(s), "clear") /\ At(Move(s), "move") /\ At(Checks(s), "check")
         /\ At(Home(s), "home") /\ At(Column(s), "column") /\ At(Return(s), "load")
         /\ At(Down(s), "down") /\ At(Newline(s), "load")
         /\ At(Wipe(s), "blank") /\ At(Back(s), "dec") /\ At(Backspace(s), "load")
         /\ At(Inc(s), "inc")
BY CgaBegins, BeginsAt

LEMMA WriteHeads ==
  ASSUME NEW C, NEW s \in Seq(Step(C)), NEW c \in C
  PROVE  /\ At(Write(c, s), "write") /\ At(IncWrite(c, s), "inc") /\ At(LoadInc(c, s), "load")
         /\ At(WriteInc(c, s), "write") /\ At(LoadWrite(c, s), "load")
BY WriteBegins, BeginsAt

(* Where the running context is when its next step is op. *)
AtOutside(C, op, t) ==
  /\ op = "save" => Kept /\ unsent = <<>> /\ \E c \in C : t = Whole(c)
  /\ op = "lpt" => /\ Kept
                   /\ \E l, w \in Seq(Shown(C)), c \in C :
                        t = Body(l, c, w) /\ unsent \o l = w /\ l # <<>>
  /\ op = "cga" => Kept /\ \E c \in C : t = Body(<<>>, c, unsent)
  /\ op = "serial" => Kept /\ t = Close(unsent) /\ unsent # <<>>
  /\ op = "restore" => Kept /\ t = Close(unsent) /\ unsent = <<>>

AtScrolling(op, t, s, r) ==
  /\ op = "cursor" => t = Cursor(s) /\ Agrees(crt_buf, crt_pos)
  /\ op = "up" => t = Up(s) /\ Agrees(crt_buf, r - CRT_COLS)
  /\ op = "clear" => t = Clear(s) /\ Agrees(Cleared(crt_buf), crt_pos - CRT_COLS)
  /\ op = "move" => t = Move(s) /\ Agrees(ScrolledUp(crt_buf), crt_pos - CRT_COLS)
  /\ op = "check" => t = Checks(s) /\ Fits(crt_buf, crt_pos)

AtMoving(op, t, s, r) ==
  /\ op = "home" => t = Home(s) /\ Fits(crt_buf, r)
  /\ op = "column" => t = Column(s) /\ r = crt_pos /\ Fits(crt_buf, LineStart(crt_pos))
  /\ op = "down" => t = Down(s) /\ Fits(crt_buf, LineStart(r + CRT_COLS))

AtWriting(C, op, t, s, r) ==
  /\ op = "blank" => t = Wipe(s) /\ crt_pos \in Cell /\ Fits([crt_buf EXCEPT ![crt_pos] = Blank], crt_pos)
  /\ op = "dec" => t = Back(s) /\ r - 1 \in Cell /\ Fits([crt_buf EXCEPT ![r - 1] = Blank], r - 1)
  /\ op = "write" => \E c \in C :
       /\ r \in Cell /\ Fits([crt_buf EXCEPT ![r] = c], r + 1)
       /\ \/ t = Write(c, s) /\ crt_pos = r + 1
          \/ t = WriteInc(c, s)
  /\ op = "inc" => \/ t = Inc(s) /\ Fits(crt_buf, r + 1)
                   \/ \E c \in C : /\ t = IncWrite(c, s) /\ r \in Cell
                                   /\ Fits([crt_buf EXCEPT ![r] = c], r + 1)

AtLoad(C, op, t, s) ==
  op = "load" =>
    \/ t = LoadUp(s) /\ Agrees(crt_buf, crt_pos - CRT_COLS)
    \/ t = Return(s) /\ Fits(crt_buf, LineStart(crt_pos))
    \/ t = Newline(s) /\ Fits(crt_buf, LineStart(crt_pos + CRT_COLS))
    \/ /\ t = Backspace(s) /\ crt_pos - 1 \in Cell
       /\ Fits([crt_buf EXCEPT ![crt_pos - 1] = Blank], crt_pos - 1)
    \/ \E c \in C : /\ t = LoadInc(c, s) \/ t = LoadWrite(c, s)
                    /\ crt_pos \in Cell /\ Fits([crt_buf EXCEPT ![crt_pos] = c], crt_pos + 1)

AtPlace(C, op, t, s, r) ==
  /\ AtOutside(C, op, t) /\ AtScrolling(op, t, s, r) /\ AtMoving(op, t, s, r)
  /\ AtWriting(C, op, t, s, r) /\ AtLoad(C, op, t, s)

CallOps == {"save", "restore", "lpt", "cga", "serial"}

LEMMA WhichStep ==
  ASSUME NEW C, TypeInv(C), ProgressInv(C), NEW op, At(todo[depth], op)
  PROVE  AtPlace(C, op, todo[depth], Close(unsent), reg[depth])
<1> DEFINE t == todo[depth]
           s == Close(unsent)
           r == reg[depth]
<1>0. unsent \in Seq(Shown(C)) /\ Head(t)[1] = op /\ t # <<>>
  BY DEF TypeInv, At
<1>1. CASE Outside(C, t) /\ Kept /\ unsent = <<>>
  <2>1. PICK c \in C : t = Whole(c)
    BY <1>0, <1>1 DEF Outside
  <2>2. op = "save"
    BY <1>0, <2>1, PutcIs, BeginsAt DEF At
  <2> QED  BY <1>1, <2>1, <2>2 DEF AtPlace, AtOutside, AtScrolling, AtMoving, AtWriting, AtLoad
<1>2. ASSUME Kept, NEW l \in Seq(Shown(C)), NEW w \in Seq(Shown(C)), NEW c \in C,
             t = Body(l, c, w), unsent \o l = w
      PROVE  AtPlace(C, op, t, s, r)
  <2>1. CASE l = <<>>
    <3>1. op = "cga"
      <4>1. Begins(C, t, <<"cga", c>>, Close(w))
        BY <1>2, <2>1, SectionBegins
      <4> QED  BY <1>0, <4>1, BeginsAt DEF At
    <3>2. w = unsent
      BY <1>0, <1>2, <2>1, ConcatEmptySeq
    <3> QED  BY <1>2, <2>1, <3>1, <3>2 DEF AtPlace, AtOutside, AtScrolling, AtMoving, AtWriting, AtLoad
  <2>2. CASE l # <<>>
    <3>1. op = "lpt"
      <4>1. Begins(C, t, <<"lpt", Head(l)>>, Body(Tail(l), c, w))
        BY <1>2, <2>2, SectionBegins
      <4> QED  BY <1>0, <4>1, BeginsAt DEF At
    <3> QED  BY <1>2, <2>2, <3>1 DEF AtPlace, AtOutside, AtScrolling, AtMoving, AtWriting, AtLoad
  <2> QED  BY <2>1, <2>2
<1>3. CASE t = s /\ Kept
  <2>2. /\ unsent = <<>> => op = "restore"
        /\ unsent # <<>> => op = "serial"
    <3>1. /\ unsent = <<>> => Begins(C, t, <<"restore">>, <<>>)
          /\ unsent # <<>> => Begins(C, t, <<"serial", Head(unsent)>>, Close(Tail(unsent)))
      BY <1>0, <1>3, CloseBegins
    <3> QED  BY <1>0, <3>1, BeginsAt DEF At
  <2> QED  BY <1>3, <2>2 DEF AtPlace, AtOutside, AtScrolling, AtMoving, AtWriting, AtLoad
<1>4. s \in Seq(Step(C))
  BY <1>0, CloseBegins
<1>5. CASE Scrolling(t, s)
  BY <1>0, <1>4, <1>5, CgaHeads
  DEF At, Scrolling, AtPlace, AtOutside, AtScrolling, AtMoving, AtWriting, AtLoad
<1>6. CASE Moving(t, s)
  BY <1>0, <1>4, <1>6, CgaHeads
  DEF At, Moving, AtPlace, AtOutside, AtScrolling, AtMoving, AtWriting, AtLoad
<1>7. CASE Wiping(t, s)
  BY <1>0, <1>4, <1>7, CgaHeads
  DEF At, Wiping, AtPlace, AtOutside, AtScrolling, AtMoving, AtWriting, AtLoad
<1>8. ASSUME NEW c \in C, Writing(t, s, c) PROVE AtPlace(C, op, t, s, r)
  <2>1. /\ At(Write(c, s), "write") /\ At(IncWrite(c, s), "inc") /\ At(LoadInc(c, s), "load")
        /\ At(WriteInc(c, s), "write") /\ At(LoadWrite(c, s), "load") /\ At(Inc(s), "inc")
    BY <1>4, CgaHeads, WriteHeads
  <2>2. op \in {"write", "inc", "load"}
    BY <1>0, <1>8, <2>1 DEF At, Writing
  <2>3. AtWriting(C, op, t, s, r) /\ AtLoad(C, op, t, s)
    BY <1>0, <1>8, <2>1 DEF At, Writing, AtWriting, AtLoad
  <2> QED  BY <2>2, <2>3 DEF AtPlace, AtOutside, AtScrolling, AtMoving
<1> QED  BY <1>1, <1>2, <1>3, <1>5, <1>6, <1>7, <1>8 DEF ProgressInv, WithinCga

(* Outside of cga_putc, and inside. *)
LEMMA WhichOuter ==
  ASSUME NEW C, TypeInv(C), ProgressInv(C)
  PROVE  /\ todo[depth] = <<>> => Kept /\ unsent = <<>>
         /\ Outside(C, todo[depth]) => Kept /\ unsent = <<>>
         /\ ~InCga(depth) => Kept
<1> DEFINE t == todo[depth]
           s == Close(unsent)
<1>0. unsent \in Seq(Shown(C)) /\ s \in Seq(Step(C))
  BY CloseBegins DEF TypeInv
<1>1. t # <<>> => AtPlace(C, Head(t)[1], t, s, reg[depth])
  BY WhichStep DEF At
<1>2. ASSUME t = <<>> PROVE Kept /\ unsent = <<>>
  <2>1. \A l, w \in Seq(Shown(C)), c \in C : t # Body(l, c, w)
    BY <1>2, SectionBegins DEF Begins
  <2>2. t # s
    BY <1>0, <1>2, CloseBegins DEF Begins
  <2>3. ~Scrolling(t, s) /\ ~Moving(t, s) /\ ~Wiping(t, s)
    BY <1>0, <1>2, CgaHeads DEF At, Scrolling, Moving, Wiping
  <2>4. \A c \in C : ~Writing(t, s, c)
    BY <1>0, <1>2, CgaHeads, WriteHeads DEF At, Writing
  <2> QED  BY <2>1, <2>2, <2>3, <2>4 DEF ProgressInv, WithinCga
<1>3. ASSUME Outside(C, t), t # <<>> PROVE Kept /\ unsent = <<>>
  <2>1. Head(t)[1] = "save"
    BY <1>3, PutcIs, BeginsAt DEF Outside, At
  <2> QED  BY <1>1, <1>3, <2>1 DEF AtPlace, AtOutside
<1>4. ASSUME t # <<>>, Head(t)[1] \in CallOps PROVE Kept
  BY <1>1, <1>4 DEF AtPlace, AtOutside, CallOps
<1> QED  BY <1>2, <1>3, <1>4 DEF InCga, CallOps

-----------------------------------------------------------------------------
(* A character on a terminal, and in crt_buf and crt_pos                   *)

Scrolled(q) ==
    IF q.pos < CRT_SIZE THEN q
    ELSE [buf |-> ScrolledUp(q.buf), pos |-> q.pos - CRT_COLS]

LEMMA Scrolls ==
  ASSUME Sizes, NEW D, Blank \in D, NEW f \in [Cell -> D], NEW p \in Nat, p <= CRT_SIZE,
         NEW b \in [Video -> D], \A i \in Cell : b[i] = f[i]
  PROVE  LET u == Scrolled([buf |-> f, pos |-> p]) IN u \in Terminal(D) /\ SameOnce(u, b, p)
<1> DEFINE q == [buf |-> f, pos |-> p]
           u == Scrolled(q)
<1>1. PICK n, k \in Nat : n = CRT_SIZE /\ k = CRT_COLS /\ k >= 1 /\ k <= n
  BY ScreenSize
<1>2. q.buf = f /\ q.pos = p /\ DOMAIN f = Cell /\ DOMAIN b = Video /\ Cell = 0 .. n - 1 /\ Cell \subseteq Video
  BY <1>1, ScreenSize DEF Cell
<1>3. CASE p < n
  <2>1. u = q
    BY <1>1, <1>2, <1>3 DEF Scrolled
  <2>2. u \in Terminal(D)
    BY <1>2, <1>3, <2>1 DEF Terminal
  <2>3. SameOnce(u, b, p)
    BY <1>1, <1>2, <1>3, <2>1 DEF SameOnce, Same
  <2> QED  BY <2>2, <2>3
<1>4. CASE ~(p < n)
  <2>1. p = n
    BY <1>1, <1>4
  <2>2. u = [buf |-> ScrolledUp(f), pos |-> n - k]
    BY <1>1, <1>2, <1>4, <2>1 DEF Scrolled
  <2>3. ScrolledUp(f) = [i \in Cell |-> IF i < n - k THEN f[i + k] ELSE IF i < n THEN Blank ELSE f[i]]
    BY <1>1, <1>2 DEF ScrolledUp
  <2>4. ScrolledUp(b) = [i \in Video |-> IF i < n - k THEN b[i + k] ELSE IF i < n THEN Blank ELSE b[i]]
    BY <1>1, <1>2 DEF ScrolledUp
  <2>5. \A i \in Cell : i < n - k => i + k \in Cell
    BY <1>1, <1>2
  <2>6. ScrolledUp(f) \in [Cell -> D]
    BY <1>2, <2>3, <2>5
  <2>7. \A i \in Cell : ScrolledUp(b)[i] = ScrolledUp(f)[i]
    BY <1>2, <2>3, <2>4, <2>5
  <2>8. n - k \in Cell
    BY <1>1, <1>2
  <2>9. u \in Terminal(D)
    BY <2>2, <2>6, <2>8 DEF Terminal
  <2>10. SameOnce(u, b, p)
    BY <1>1, <1>4, <2>1, <2>2, <2>7 DEF SameOnce, Same
  <2> QED  BY <2>9, <2>10
<1> QED  BY <1>1, <1>3, <1>4

LEMMA Puts ==
  ASSUME Sizes, NEW C, NEW c \in C, NEW t \in Terminal(Shown(C)), NEW b \in [Video -> Shown(C)],
         Same(t, b, t.pos)
  PROVE  LET u == TerminalPut(t, c)
             p == t.pos
         IN  /\ u \in Terminal(Shown(C))
             /\ c = BS /\ ~(p > 0) => SameOnce(u, b, p)
             /\ c = BS /\ p > 0 =>
                  p - 1 \in Cell /\ SameOnce(u, [b EXCEPT ![p - 1] = Blank], p - 1)
             /\ c = NL => SameOnce(u, b, LineStart(p + CRT_COLS))
             /\ c = CR => SameOnce(u, b, LineStart(p))
             /\ c \notin {BS, NL, CR} => SameOnce(u, [b EXCEPT ![p] = c], p + 1)
<1> DEFINE D == Shown(C)
           u == TerminalPut(t, c)
<1>1. PICK n, k \in Nat : n = CRT_SIZE /\ k = CRT_COLS /\ k >= 1 /\ k <= n
  BY ScreenSize
<1>2. PICK f \in [Cell -> D], p \in Cell : t = [buf |-> f, pos |-> p]
  BY DEF Terminal
<1>3. t.buf = f /\ t.pos = p /\ p \in Nat /\ p < n /\ Cell = 0 .. n - 1 /\ Cell \subseteq Video
  BY <1>1, <1>2, ScreenSize DEF Cell
<1>4. Blank \in D /\ c \in D
  BY StepIs
<1>5. \A i \in Cell : b[i] = f[i]
  BY <1>3 DEF Same
<1>6. u = Scrolled(Printed(t, c))
  BY DEF TerminalPut, Scrolled
<1>7. BS # NL /\ BS # CR /\ NL # CR
  BY DEF BS, NL, CR
<1>8. ASSUME NEW g \in [Cell -> D], NEW e \in [Video -> D], NEW m \in Nat, m <= n,
             \A i \in Cell : e[i] = g[i], Printed(t, c) = [buf |-> g, pos |-> m]
      PROVE  u \in Terminal(D) /\ SameOnce(u, e, m)
  BY <1>1, <1>4, <1>6, <1>8, Scrolls
<1>9. CASE c = BS
  <2>1. CASE ~(p > 0)
    <3>1. Printed(t, c) = [buf |-> f, pos |-> p]
      BY <1>2, <1>3, <1>7, <1>9, <2>1 DEF Printed
    <3>2. u \in Terminal(D) /\ SameOnce(u, b, p)
      BY <1>3, <1>5, <1>8, <3>1
    <3> QED  BY <1>3, <1>7, <1>9, <2>1, <3>2
  <2>2. CASE p > 0
    <3>1. p - 1 \in Cell /\ p - 1 \in Nat /\ p - 1 <= n
      BY <1>3, <2>2
    <3>2. Printed(t, c) = [buf |-> [f EXCEPT ![p - 1] = Blank], pos |-> p - 1]
      BY <1>3, <1>7, <1>9, <2>2 DEF Printed
    <3>3. /\ [f EXCEPT ![p - 1] = Blank] \in [Cell -> D]
          /\ [b EXCEPT ![p - 1] = Blank] \in [Video -> D]
          /\ \A i \in Cell : [b EXCEPT ![p - 1] = Blank][i] = [f EXCEPT ![p - 1] = Blank][i]
      BY <1>3, <1>4, <1>5, <3>1
    <3>4. u \in Terminal(D) /\ SameOnce(u, [b EXCEPT ![p - 1] = Blank], p - 1)
      BY <1>8, <3>1, <3>2, <3>3
    <3> QED  BY <1>3, <1>7, <1>9, <2>2, <3>1, <3>4
  <2> QED  BY <2>1, <2>2
<1>10. CASE c = NL
  <2>1. LineStart(p + CRT_COLS) \in Nat /\ LineStart(p + CRT_COLS) <= n
    <3>1. p + k \in Nat /\ p + k < n + k
      BY <1>1, <1>3
    <3> QED  BY <1>1, <3>1, LineStarts
  <2>2. Printed(t, c) = [buf |-> f, pos |-> LineStart(p + CRT_COLS)]
    BY <1>2, <1>7, <1>10 DEF Printed
  <2>3. u \in Terminal(D) /\ SameOnce(u, b, LineStart(p + CRT_COLS))
    BY <1>5, <1>8, <2>1, <2>2
  <2> QED  BY <1>3, <1>7, <1>10, <2>3
<1>11. CASE c = CR
  <2>1. LineStart(p) \in Nat /\ LineStart(p) <= n
    BY <1>1, <1>3, LineStarts
  <2>2. Printed(t, c) = [buf |-> f, pos |-> LineStart(p)]
    BY <1>2, <1>7, <1>11 DEF Printed
  <2>3. u \in Terminal(D) /\ SameOnce(u, b, LineStart(p))
    BY <1>5, <1>8, <2>1, <2>2
  <2> QED  BY <1>3, <1>7, <1>11, <2>3
<1>12. CASE c \notin {BS, NL, CR}
  <2>1. p + 1 \in Nat /\ p + 1 <= n
    BY <1>1, <1>3
  <2>2. Printed(t, c) = [buf |-> [f EXCEPT ![p] = c], pos |-> p + 1]
    BY <1>3, <1>12 DEF Printed
  <2>3. /\ [f EXCEPT ![p] = c] \in [Cell -> D]
        /\ [b EXCEPT ![p] = c] \in [Video -> D]
        /\ \A i \in Cell : [b EXCEPT ![p] = c][i] = [f EXCEPT ![p] = c][i]
    BY <1>3, <1>4, <1>5
  <2>4. u \in Terminal(D) /\ SameOnce(u, [b EXCEPT ![p] = c], p + 1)
    BY <1>8, <2>1, <2>2, <2>3
  <2> QED  BY <1>3, <1>12, <2>4
<1> QED  BY <1>9, <1>10, <1>11, <1>12

-----------------------------------------------------------------------------
(* The steps within cga_putc                                               *)

LEMMA NowPlace ==
  ASSUME NEW C, TypeInv(C), ProgressInv(C), NEW op, Now(op)
  PROVE  /\ AtPlace(C, op, todo[depth], Close(unsent), reg[depth])
         /\ Close(unsent) \in Seq(Step(C))
BY WhichStep, CloseBegins DEF Now, At, TypeInv

LEMMA DoneIs ==
  ASSUME NEW C, TypeInv(C), NEW x, NEW u, Begins(C, todo[depth], x, u), Done, depth' = depth
  PROVE  todo' \in [Context -> Seq(Step(C))] /\ todo'[depth'] = u
<1>1. u \in Seq(Step(C))
  BY HeadTailProperties DEF Begins
<1> QED  BY <1>1 DEF Begins, TypeInv, Done, Rest

LEMMA ContinueIs ==
  ASSUME NEW C, TypeInv(C), NEW x, NEW u, Begins(C, todo[depth], x, u), NEW steps,
         steps \o u \in Seq(Step(C)), Continue(steps), depth' = depth
  PROVE  todo' \in [Context -> Seq(Step(C))] /\ todo'[depth'] = steps \o u
BY DEF Begins, TypeInv, Continue, Rest

LEMMA SetCursorStep ==
  ASSUME NEW C, TypeInv(C), ProgressInv(C), SetCursor
  PROVE  TypeInv(C)' /\ ProgressInv(C)'
<1> DEFINE s == Close(unsent)
<1>1. /\ todo[depth] = Cursor(s) /\ Agrees(crt_buf, crt_pos) /\ s \in Seq(Step(C))
      /\ Done /\ depth' = depth
  BY NowPlace DEF SetCursor, AtPlace, AtScrolling
<1>2. Begins(C, todo[depth], <<"cursor">>, s)
  BY <1>1, CgaBegins
<1>3. todo' \in [Context -> Seq(Step(C))] /\ todo'[depth'] = s
  BY <1>1, <1>2, DoneIs
<1>4. TypeInv(C)'
  BY <1>3 DEF TypeInv, SetCursor
<1>5. Kept' /\ unsent' = unsent
  BY <1>1 DEF SetCursor, Kept, Agrees
<1> QED  BY <1>3, <1>4, <1>5 DEF ProgressInv

LEMMA CheckStep ==
  ASSUME Sizes, NEW C, TypeInv(C), ProgressInv(C), Check
  PROVE  TypeInv(C)' /\ ProgressInv(C)'
<1>1. PICK s \in Seq(Step(C)) :
        /\ s = Close(unsent) /\ todo[depth] = Checks(s) /\ Fits(crt_buf, crt_pos) /\ depth' = depth
        /\ Continue(IF crt_pos >= CRT_SIZE THEN ScrollSteps ELSE <<>>)
  BY NowPlace DEF Check, AtPlace, AtScrolling
<1>2. Begins(C, todo[depth], <<"check">>, Cursor(s))
  BY <1>1, CgaBegins
<1>3. Cursor(s) \in Seq(Step(C)) /\ Move(s) \in Seq(Step(C))
  BY CgaBegins DEF Begins
<1>4. ScrollSteps \o Cursor(s) = Move(s)
  <2>1. <<"move">> \in Step(C) /\ <<"clear">> \in Step(C) /\ <<"load">> \in Step(C) /\ <<"up">> \in Step(C)
    BY StepIs DEF Op
  <2>2. Four(<<"move">>, <<"clear">>, <<"load">>, <<"up">>, Cursor(s))
    BY <1>3, <2>1, Lists
  <2> QED  BY <2>2, Zenon DEF Four, ScrollSteps, Move, Clear, LoadUp, Up, Then
<1>5. <<>> \o Cursor(s) = Cursor(s)
  BY <1>3, ConcatEmptySeq
<1>6. crt_pos \in Int /\ CRT_SIZE \in Nat
  BY ScreenSize DEF TypeInv
<1>7. PICK u \in Seq(Step(C)) : /\ todo' \in [Context -> Seq(Step(C))] /\ todo'[depth'] = u
                               /\ u = IF crt_pos >= CRT_SIZE THEN Move(s) ELSE Cursor(s)
  <2>1. CASE crt_pos >= CRT_SIZE
    <3>1. Continue(ScrollSteps)
      BY <1>1, <2>1
    <3> QED  BY <1>1, <1>2, <1>3, <1>4, <2>1, <3>1, ContinueIs
  <2>2. CASE ~(crt_pos >= CRT_SIZE)
    <3>1. Continue(<<>>)
      BY <1>1, <2>2
    <3> QED  BY <1>1, <1>2, <1>3, <1>5, <2>2, <3>1, ContinueIs
  <2> QED  BY <2>1, <2>2
<1>8. TypeInv(C)'
  BY <1>7 DEF TypeInv, Check, screen
<1>9. Scrolling(u, s)'
  <2>1. crt_pos >= CRT_SIZE => Agrees(ScrolledUp(crt_buf), crt_pos - CRT_COLS)
    BY <1>1, <1>6 DEF Fits, SameOnce, Agrees
  <2>2. ~(crt_pos >= CRT_SIZE) => Agrees(crt_buf, crt_pos)
    BY <1>1, <1>6 DEF Fits, SameOnce, Agrees
  <2>3. Agrees(ScrolledUp(crt_buf), crt_pos - CRT_COLS)' = Agrees(ScrolledUp(crt_buf), crt_pos - CRT_COLS)
    BY DEF Agrees, Same, ScrolledUp, Check, screen
  <2>4. Agrees(crt_buf, crt_pos)' = Agrees(crt_buf, crt_pos)
    BY DEF Agrees, Same, Check, screen
  <2> QED  BY <1>7, <2>1, <2>2, <2>3, <2>4 DEF Scrolling
<1> QED  BY <1>1, <1>7, <1>8, <1>9 DEF ProgressInv, WithinCga, Check

LEMMA ScrollStep ==
  ASSUME Sizes, NEW C, TypeInv(C), ProgressInv(C), Scroll
  PROVE  TypeInv(C)' /\ ProgressInv(C)'
<1>1. PICK s \in Seq(Step(C)) : s = Close(unsent) /\ \A op : Now(op) => AtScrolling(op, todo[depth], s, reg[depth])
  BY NowPlace DEF AtPlace, Scroll
<1>2. Done /\ depth' = depth /\ unsent' = unsent
  BY DEF Scroll
<1>3. PICK n, k \in Nat : n = CRT_SIZE /\ k = CRT_COLS /\ k >= 1 /\ k <= n
  BY ScreenSize
<1>4. PICK b \in [Video -> Shown(C)] : b = crt_buf
  BY DEF TypeInv
<1>5. Cell = 0 .. n - 1 /\ Cell \subseteq Video /\ Blank \in Shown(C)
  BY <1>3, ScreenSize, StepIs DEF Cell
<1>6. CASE Now("move") /\ crt_buf' = [i \in Video |-> IF i < CRT_SIZE - CRT_COLS THEN crt_buf[i + CRT_COLS]
                                                 ELSE crt_buf[i]]
  <2>1. todo[depth] = Move(s) /\ Agrees(ScrolledUp(crt_buf), crt_pos - CRT_COLS)
    BY <1>1, <1>6 DEF AtScrolling
  <2>2. Begins(C, todo[depth], <<"move">>, Clear(s))
    BY <2>1, CgaBegins
  <2>3. todo' \in [Context -> Seq(Step(C))] /\ todo'[depth'] = Clear(s)
    BY <1>2, <2>2, DoneIs
  <2>4. crt_buf' = [i \in Video |-> IF i < n - k THEN b[i + k] ELSE b[i]]
    BY <1>3, <1>4, <1>6
  <2>5. ScrolledUp(b) = [i \in Video |-> IF i < n - k THEN b[i + k] ELSE IF i < n THEN Blank ELSE b[i]]
    BY <1>3 DEF ScrolledUp
  <2>6. Cleared(crt_buf') = [i \in Video |-> IF i \in n - k .. n - 1 THEN Blank ELSE crt_buf'[i]]
    BY <1>3 DEF Cleared
  <2>7. \A i \in Cell : i < n - k => i + k \in Video
    BY <1>3, <1>5
  <2>8. \A i \in Cell : Cleared(crt_buf')[i] = ScrolledUp(b)[i]
    BY <1>3, <1>5, <2>4, <2>5, <2>6
  <2>9. crt_buf' \in [Video -> Shown(C)]
    <3>1. \A i \in Video : i < n - k => i + k \in Video
      BY <1>3 DEF Video
    <3> QED  BY <2>4, <3>1
  <2>10. TypeInv(C)'
    BY <2>3, <2>9 DEF TypeInv, Scroll
  <2>11. Agrees(Cleared(crt_buf), crt_pos - CRT_COLS)'
    BY <1>4, <2>1, <2>8 DEF Agrees, Same, Scroll, Cleared
  <2> QED  BY <1>1, <1>2, <2>3, <2>10, <2>11 DEF ProgressInv, WithinCga, Scrolling
<1>7. CASE Now("clear") /\ crt_buf' = [i \in Video |-> IF i \in CRT_SIZE - CRT_COLS .. CRT_SIZE - 1 THEN Blank
                                                  ELSE crt_buf[i]]
  <2>1. todo[depth] = Clear(s) /\ Agrees(Cleared(crt_buf), crt_pos - CRT_COLS)
    BY <1>1, <1>7 DEF AtScrolling
  <2>2. Begins(C, todo[depth], <<"clear">>, LoadUp(s))
    BY <2>1, CgaBegins
  <2>3. todo' \in [Context -> Seq(Step(C))] /\ todo'[depth'] = LoadUp(s)
    BY <1>2, <2>2, DoneIs
  <2>4. crt_buf' = Cleared(crt_buf)
    BY <1>7 DEF Cleared
  <2>5. crt_buf' \in [Video -> Shown(C)]
    BY <1>4, <1>5, <1>7
  <2>6. TypeInv(C)'
    BY <2>3, <2>5 DEF TypeInv, Scroll
  <2>7. Agrees(crt_buf, crt_pos - CRT_COLS)'
    BY <2>1, <2>4 DEF Agrees, Same, Scroll
  <2> QED  BY <1>1, <1>2, <2>3, <2>6, <2>7 DEF ProgressInv, WithinCga, Scrolling
<1> QED  BY <1>6, <1>7 DEF Scroll

LEMMA StoreCharStep ==
  ASSUME Sizes, NEW C, TypeInv(C), ProgressInv(C), StoreChar
  PROVE  TypeInv(C)' /\ ProgressInv(C)'
<1>1. PICK s \in Seq(Step(C)), r \in Int :
        s = Close(unsent) /\ r = reg[depth] /\ \A op : Now(op) => AtWriting(C, op, todo[depth], s, r)
  BY NowPlace DEF AtPlace, StoreChar, TypeInv
<1>2. Done /\ depth' = depth /\ unsent' = unsent /\ crt_pos' = crt_pos /\ shown' = shown /\ reg' = reg
  BY DEF StoreChar
<1>3. Blank \in Shown(C) /\ C \subseteq Shown(C) /\ crt_buf \in [Video -> Shown(C)]
  BY StepIs DEF TypeInv
<1>4. CASE Now("write") /\ crt_buf' = [crt_buf EXCEPT ![reg[depth]] = Operand]
  <2>1. PICK c \in C : /\ r \in Cell /\ Fits([crt_buf EXCEPT ![r] = c], r + 1)
                       /\ \/ todo[depth] = Write(c, s) /\ crt_pos = r + 1
                          \/ todo[depth] = WriteInc(c, s)
    BY <1>1, <1>4 DEF AtWriting
  <2>2. PICK u \in Seq(Step(C)) : /\ Begins(C, todo[depth], <<"write", c>>, u)
                                  /\ \/ u = Checks(s) /\ crt_pos = r + 1
                                     \/ u = Inc(s)
    <3>1. Checks(s) \in Seq(Step(C)) /\ Inc(s) \in Seq(Step(C))
      BY CgaBegins DEF Begins
    <3>2. /\ Begins(C, Write(c, s), <<"write", c>>, Checks(s))
          /\ Begins(C, WriteInc(c, s), <<"write", c>>, Inc(s))
      BY WriteBegins
    <3> QED  BY <2>1, <3>1, <3>2
  <2>3. todo' \in [Context -> Seq(Step(C))] /\ todo'[depth'] = u
    BY <1>2, <2>2, DoneIs
  <2>4. Operand = c
    BY <2>2 DEF Begins, Operand
  <2>5. crt_buf' = [crt_buf EXCEPT ![r] = c]
    BY <1>1, <1>4, <2>4
  <2>6. TypeInv(C)'
    BY <1>3, <2>3, <2>5 DEF TypeInv, StoreChar
  <2>7. Fits(crt_buf, r + 1)'
    BY <1>2, <2>1, <2>5 DEF Fits
  <2>8. CASE u = Checks(s) /\ crt_pos = r + 1
    <3>1. Fits(crt_buf, crt_pos)'
      BY <1>2, <2>7, <2>8 DEF Fits
    <3> QED  BY <1>1, <1>2, <2>3, <2>6, <2>8, <3>1 DEF ProgressInv, WithinCga, Scrolling
  <2>9. CASE u = Inc(s)
    <3>1. reg'[depth'] = r
      BY <1>1, <1>2
    <3>2. Writing(u, s, c)'
      BY <2>7, <2>9, <3>1 DEF Writing
    <3> QED  BY <1>1, <1>2, <2>3, <2>6, <3>2 DEF ProgressInv, WithinCga
  <2> QED  BY <2>2, <2>8, <2>9
<1>5. CASE Now("blank") /\ crt_buf' = [crt_buf EXCEPT ![crt_pos] = Blank]
  <2>1. todo[depth] = Wipe(s) /\ Fits([crt_buf EXCEPT ![crt_pos] = Blank], crt_pos)
    BY <1>1, <1>5 DEF AtWriting
  <2>2. Begins(C, todo[depth], <<"blank">>, Checks(s))
    BY <2>1, CgaBegins
  <2>3. todo' \in [Context -> Seq(Step(C))] /\ todo'[depth'] = Checks(s)
    BY <1>2, <2>2, DoneIs
  <2>4. TypeInv(C)'
    BY <1>3, <1>5, <2>3 DEF TypeInv, StoreChar
  <2>5. Fits(crt_buf, crt_pos)'
    BY <1>2, <1>5, <2>1 DEF Fits
  <2> QED  BY <1>1, <1>2, <2>3, <2>4, <2>5 DEF ProgressInv, WithinCga, Scrolling
<1> QED  BY <1>4, <1>5 DEF StoreChar

LEMMA StorePosStep ==
  ASSUME Sizes, NEW C, TypeInv(C), ProgressInv(C), StorePos
  PROVE  TypeInv(C)' /\ ProgressInv(C)'
<1>1. PICK s \in Seq(Step(C)), r \in Int :
        /\ s = Close(unsent) /\ r = reg[depth]
        /\ \A op : Now(op) => AtPlace(C, op, todo[depth], s, r)
  BY NowPlace DEF StorePos, TypeInv
<1>2. /\ Done /\ depth' = depth /\ unsent' = unsent /\ crt_buf' = crt_buf /\ shown' = shown
      /\ reg' = reg /\ reg'[depth'] = r
  BY <1>1 DEF StorePos
<1>3. CRT_COLS \in Nat
  BY ScreenSize
<1>4. ASSUME NEW x, NEW u, Begins(C, todo[depth], x, u), crt_pos' \in Int,
             WithinCga(C, u, s)'
      PROVE  TypeInv(C)' /\ ProgressInv(C)'
  <2>1. todo' \in [Context -> Seq(Step(C))] /\ todo'[depth'] = u
    BY <1>2, <1>4, DoneIs
  <2>2. TypeInv(C)'
    BY <1>4, <2>1 DEF TypeInv, StorePos
  <2> QED  BY <1>1, <1>2, <1>4, <2>1, <2>2 DEF ProgressInv
<1>5. CASE Now("dec") /\ crt_pos' = reg[depth] - 1
  <2>1. /\ Begins(C, todo[depth], <<"dec">>, Wipe(s)) /\ r - 1 \in Cell
        /\ Fits([crt_buf EXCEPT ![r - 1] = Blank], r - 1)
    BY <1>1, <1>5, CgaBegins DEF AtPlace, AtWriting
  <2>2. crt_pos' = r - 1 /\ crt_pos' \in Int
    BY <1>1, <1>5
  <2>3. (Fits([crt_buf EXCEPT ![crt_pos] = Blank], crt_pos))'
    BY <1>2, <2>1, <2>2 DEF Fits
  <2>4. (crt_pos \in Cell)'
    BY <2>1, <2>2 DEF Cell
  <2>5. Wiping(Wipe(s), s)'
    BY <2>3, <2>4 DEF Wiping
  <2> QED  BY <1>4, <2>1, <2>2, <2>5 DEF WithinCga
<1>6. CASE Now("inc") /\ crt_pos' = reg[depth] + 1
  <2>1. crt_pos' = r + 1 /\ crt_pos' \in Int
    BY <1>1, <1>6
  <2>2. \/ todo[depth] = Inc(s) /\ Fits(crt_buf, r + 1)
        \/ \E c \in C : /\ todo[depth] = IncWrite(c, s) /\ r \in Cell
                        /\ Fits([crt_buf EXCEPT ![r] = c], r + 1)
    BY <1>1, <1>6 DEF AtPlace, AtWriting
  <2>3. CASE todo[depth] = Inc(s) /\ Fits(crt_buf, r + 1)
    <3>1. Begins(C, todo[depth], <<"inc">>, Checks(s))
      BY <2>3, CgaBegins
    <3>2. Fits(crt_buf, crt_pos)'
      BY <1>2, <2>1, <2>3 DEF Fits
    <3>3. Scrolling(Checks(s), s)'
      BY <3>2 DEF Scrolling
    <3> QED  BY <1>4, <2>1, <3>1, <3>3 DEF WithinCga
  <2>4. ASSUME NEW c \in C, todo[depth] = IncWrite(c, s), r \in Cell,
               Fits([crt_buf EXCEPT ![r] = c], r + 1)
        PROVE  TypeInv(C)' /\ ProgressInv(C)'
    <3>1. Begins(C, todo[depth], <<"inc">>, Write(c, s))
      BY <2>4, WriteBegins
    <3>2. (Fits([crt_buf EXCEPT ![r] = c], r + 1))'
      BY <1>2, <2>4 DEF Fits
    <3>3. Writing(Write(c, s), s, c)'
      BY <1>2, <2>1, <2>4, <3>2 DEF Writing, Cell
    <3> QED  BY <1>4, <2>1, <3>1, <3>3 DEF WithinCga
  <2> QED  BY <2>2, <2>3, <2>4
<1>7. CASE Now("down") /\ crt_pos' = reg[depth] + CRT_COLS
  <2>1. crt_pos' = r + CRT_COLS /\ crt_pos' \in Int
    BY <1>1, <1>3, <1>7
  <2>2. Begins(C, todo[depth], <<"down">>, Return(s)) /\ Fits(crt_buf, LineStart(r + CRT_COLS))
    BY <1>1, <1>7, CgaBegins DEF AtPlace, AtMoving
  <2>3. (Fits(crt_buf, LineStart(crt_pos)))'
    BY <1>2, <2>1, <2>2 DEF Fits, LineStart
  <2>4. Moving(Return(s), s)'
    BY <2>3 DEF Moving
  <2> QED  BY <1>4, <2>1, <2>2, <2>4 DEF WithinCga
<1>8. CASE Now("home") /\ crt_pos' = reg[depth]
  <2>1. crt_pos' = r /\ crt_pos' \in Int
    BY <1>1, <1>8
  <2>2. Begins(C, todo[depth], <<"home">>, Checks(s)) /\ Fits(crt_buf, r)
    BY <1>1, <1>8, CgaBegins DEF AtPlace, AtMoving
  <2>3. Fits(crt_buf, crt_pos)'
    BY <1>2, <2>1, <2>2 DEF Fits
  <2>4. Scrolling(Checks(s), s)'
    BY <2>3 DEF Scrolling
  <2> QED  BY <1>4, <2>1, <2>2, <2>4 DEF WithinCga
<1>9. CASE Now("up") /\ crt_pos' = reg[depth] - CRT_COLS
  <2>1. crt_pos' = r - CRT_COLS /\ crt_pos' \in Int
    BY <1>1, <1>3, <1>9
  <2>2. Begins(C, todo[depth], <<"up">>, Cursor(s)) /\ Agrees(crt_buf, r - CRT_COLS)
    BY <1>1, <1>9, CgaBegins DEF AtPlace, AtScrolling
  <2>3. Agrees(crt_buf, crt_pos)'
    BY <1>2, <2>1, <2>2 DEF Agrees
  <2>4. Scrolling(Cursor(s), s)'
    BY <2>3 DEF Scrolling
  <2> QED  BY <1>4, <2>1, <2>2, <2>4 DEF WithinCga
<1> QED  BY <1>5, <1>6, <1>7, <1>8, <1>9 DEF StorePos

LEMMA LoadStep ==
  ASSUME Sizes, NEW C, TypeInv(C), ProgressInv(C), Load
  PROVE  TypeInv(C)' /\ ProgressInv(C)'
<1>1. PICK s \in Seq(Step(C)) :
        s = Close(unsent) /\ \A op : Now(op) => AtPlace(C, op, todo[depth], s, reg[depth])
  BY NowPlace DEF Load
<1>2. /\ Done /\ depth' = depth /\ unsent' = unsent /\ crt_buf' = crt_buf /\ crt_pos' = crt_pos
      /\ shown' = shown /\ depth \in Context /\ reg \in [Context -> Int] /\ crt_pos \in Int
  BY DEF Load, TypeInv, screen
<1>3. CRT_COLS \in Nat /\ LineStart(crt_pos) \in Int
  <2>1. PICK k \in Nat, p \in Int : k = CRT_COLS /\ k >= 1 /\ p = crt_pos
    BY <1>2, ScreenSize
  <2>2. p % k \in Int
    BY <2>1
  <2> QED  BY <2>1, <2>2 DEF LineStart
<1>4. ASSUME NEW x, NEW u, Begins(C, todo[depth], x, u), reg' \in [Context -> Int],
             WithinCga(C, u, s)'
      PROVE  TypeInv(C)' /\ ProgressInv(C)'
  <2>1. todo' \in [Context -> Seq(Step(C))] /\ todo'[depth'] = u
    BY <1>2, <1>4, DoneIs
  <2>2. TypeInv(C)'
    BY <1>4, <2>1 DEF TypeInv, Load, screen
  <2> QED  BY <1>1, <1>2, <1>4, <2>1, <2>2 DEF ProgressInv
<1>5. CASE Now("load") /\ reg' = [reg EXCEPT ![depth] = crt_pos]
  <2>1. reg' \in [Context -> Int] /\ reg'[depth'] = crt_pos
    BY <1>2, <1>5
  <2>2. /\ Fits(crt_buf, LineStart(crt_pos))' = Fits(crt_buf, LineStart(crt_pos))
        /\ Fits(crt_buf, LineStart(crt_pos + CRT_COLS))' = Fits(crt_buf, LineStart(crt_pos + CRT_COLS))
    BY <1>2 DEF Fits, LineStart
  <2>3. CASE todo[depth] = LoadUp(s) /\ Agrees(crt_buf, crt_pos - CRT_COLS)
    <3>1. Begins(C, todo[depth], <<"load">>, Up(s))
      BY <2>3, CgaBegins
    <3>2. Scrolling(Up(s), s)'
      BY <1>2, <2>1, <2>3 DEF Scrolling, Agrees
    <3> QED  BY <1>4, <2>1, <3>1, <3>2 DEF WithinCga
  <2>4. CASE todo[depth] = Return(s) /\ Fits(crt_buf, LineStart(crt_pos))
    <3>1. Begins(C, todo[depth], <<"load">>, Column(s))
      BY <2>4, CgaBegins
    <3>2. Moving(Column(s), s)'
      BY <1>2, <2>1, <2>2, <2>4 DEF Moving
    <3> QED  BY <1>4, <2>1, <3>1, <3>2 DEF WithinCga
  <2>5. CASE todo[depth] = Newline(s) /\ Fits(crt_buf, LineStart(crt_pos + CRT_COLS))
    <3>1. Begins(C, todo[depth], <<"load">>, Down(s))
      BY <2>5, CgaBegins
    <3>2. Moving(Down(s), s)'
      BY <1>2, <2>1, <2>5 DEF Moving, Fits, LineStart
    <3> QED  BY <1>4, <2>1, <3>1, <3>2 DEF WithinCga
  <2>6. CASE /\ todo[depth] = Backspace(s) /\ crt_pos - 1 \in Cell
             /\ Fits([crt_buf EXCEPT ![crt_pos - 1] = Blank], crt_pos - 1)
    <3>1. Begins(C, todo[depth], <<"load">>, Back(s))
      BY <2>6, CgaBegins
    <3>2. Wiping(Back(s), s)'
      BY <1>2, <2>1, <2>6 DEF Wiping, Fits, Cell
    <3> QED  BY <1>4, <2>1, <3>1, <3>2 DEF WithinCga
  <2>7. ASSUME NEW c \in C, todo[depth] = LoadInc(c, s) \/ todo[depth] = LoadWrite(c, s),
               crt_pos \in Cell, Fits([crt_buf EXCEPT ![crt_pos] = c], crt_pos + 1)
        PROVE  TypeInv(C)' /\ ProgressInv(C)'
    <3>1. PICK u : /\ Begins(C, todo[depth], <<"load">>, u)
                   /\ u = IncWrite(c, s) \/ u = WriteInc(c, s)
      BY <2>7, WriteBegins
    <3>2. Writing(u, s, c)'
      BY <1>2, <2>1, <2>7, <3>1 DEF Writing, Fits, Cell
    <3> QED  BY <1>4, <2>1, <3>1, <3>2 DEF WithinCga
  <2> QED  BY <1>1, <1>5, <2>3, <2>4, <2>5, <2>6, <2>7 DEF AtPlace, AtLoad
<1>6. CASE Now("column") /\ reg' = [reg EXCEPT ![depth] = @ - (crt_pos % CRT_COLS)]
  <2>1. todo[depth] = Column(s) /\ reg[depth] = crt_pos /\ Fits(crt_buf, LineStart(crt_pos))
    BY <1>1, <1>6 DEF AtPlace, AtMoving
  <2>2. reg' \in [Context -> Int] /\ reg'[depth'] = LineStart(crt_pos)
    BY <1>2, <1>3, <1>6, <2>1 DEF LineStart
  <2>3. Begins(C, todo[depth], <<"column">>, Home(s))
    BY <2>1, CgaBegins
  <2>4. Moving(Home(s), s)'
    BY <1>2, <2>1, <2>2 DEF Moving, Fits
  <2> QED  BY <1>4, <2>2, <2>3, <2>4 DEF WithinCga
<1> QED  BY <1>5, <1>6 DEF Load

(* The steps of a character's switch, with those behind it. *)
CgaLists(C, c, steps, s, v) ==
    /\ v \in Seq(Step(C)) /\ v = (steps \o << <<"check">>, <<"cursor">> >>) \o s
    /\ c = BS => IF crt_pos > 0 THEN v = Backspace(s) ELSE v = Checks(s)
    /\ c = NL => v = Newline(s)
    /\ c = CR => v = Return(s)
    /\ c \notin {BS, NL, CR} => v = LoadInc(c, s) \/ v = LoadWrite(c, s)

LEMMA CgaListsAre ==
  ASSUME NEW C, NEW c \in C, NEW s \in Seq(Step(C)), NEW steps \in CgaSteps(c)
  PROVE  \E v : CgaLists(C, c, steps, s, v)
<1>1. \A op \in Op : <<op>> \in Step(C)
  BY StepIs
<1>2. BS # NL /\ BS # CR /\ NL # CR
  BY DEF BS, NL, CR
<1>3. CASE c = BS
  <2>1. steps = IF crt_pos > 0 THEN << <<"load">>, <<"dec">>, <<"blank">> >> ELSE <<>>
    BY <1>2, <1>3 DEF CgaSteps
  <2>2. CASE crt_pos > 0
    <3>1. Five(<<"load">>, <<"dec">>, <<"blank">>, <<"check">>, <<"cursor">>, s)
      BY <1>1, Lists DEF Op
    <3>2. (steps \o << <<"check">>, <<"cursor">> >>) \o s = Backspace(s)
      <4>1. steps = << <<"load">>, <<"dec">>, <<"blank">> >>
        BY <2>1, <2>2
      <4> QED  BY <3>1, <4>1, Zenon DEF Five, Backspace, Back, Wipe, Checks, Cursor, Then
    <3>3. Backspace(s) \in Seq(Step(C))
      BY CgaBegins DEF Begins
    <3> QED  BY <1>2, <1>3, <2>2, <3>2, <3>3 DEF CgaLists
  <2>3. CASE ~(crt_pos > 0)
    <3>1. Two(<<"check">>, <<"cursor">>, s)
      BY <1>1, ShortList DEF Op
    <3>2. (steps \o << <<"check">>, <<"cursor">> >>) \o s = Checks(s)
      <4>1. steps = <<>>
        BY <2>1, <2>3
      <4> QED  BY <3>1, <4>1, Zenon DEF Two, Checks, Cursor, Then
    <3>3. Checks(s) \in Seq(Step(C))
      BY CgaBegins DEF Begins
    <3> QED  BY <1>2, <1>3, <2>3, <3>2, <3>3 DEF CgaLists
  <2> QED  BY <2>2, <2>3
<1>4. CASE c = NL
  <2>1. steps = << <<"load">>, <<"down">>, <<"load">>, <<"column">>, <<"home">> >>
    BY <1>2, <1>4 DEF CgaSteps
  <2>2. Seven(<<"load">>, <<"down">>, <<"load">>, <<"column">>, <<"home">>, <<"check">>, <<"cursor">>, s)
    BY <1>1, LongList DEF Op
  <2>3. (steps \o << <<"check">>, <<"cursor">> >>) \o s = Newline(s)
    BY <2>1, <2>2, Zenon DEF Seven, Newline, Down, Return, Column, Home, Checks, Cursor, Then
  <2>4. Newline(s) \in Seq(Step(C))
    BY CgaBegins DEF Begins
  <2> QED  BY <1>2, <1>4, <2>3, <2>4 DEF CgaLists
<1>5. CASE c = CR
  <2>1. steps = << <<"load">>, <<"column">>, <<"home">> >>
    BY <1>2, <1>5 DEF CgaSteps
  <2>2. Five(<<"load">>, <<"column">>, <<"home">>, <<"check">>, <<"cursor">>, s)
    BY <1>1, Lists DEF Op
  <2>3. (steps \o << <<"check">>, <<"cursor">> >>) \o s = Return(s)
    BY <2>1, <2>2, Zenon DEF Five, Return, Column, Home, Checks, Cursor, Then
  <2>4. Return(s) \in Seq(Step(C))
    BY CgaBegins DEF Begins
  <2> QED  BY <1>2, <1>5, <2>3, <2>4 DEF CgaLists
<1>6. CASE c \notin {BS, NL, CR}
  <2>1. \/ steps = << <<"load">>, <<"inc">>, <<"write", c>> >>
        \/ steps = << <<"load">>, <<"write", c>>, <<"inc">> >>
    BY <1>6 DEF CgaSteps
  <2>2. <<"write", c>> \in Step(C)
    BY StepIs DEF Op
  <2>3. /\ Five(<<"load">>, <<"inc">>, <<"write", c>>, <<"check">>, <<"cursor">>, s)
        /\ Five(<<"load">>, <<"write", c>>, <<"inc">>, <<"check">>, <<"cursor">>, s)
    BY <1>1, <2>2, Lists DEF Op
  <2>4. PICK v : /\ v = LoadInc(c, s) \/ v = LoadWrite(c, s)
                 /\ (steps \o << <<"check">>, <<"cursor">> >>) \o s = v
    <3>1. CASE steps = << <<"load">>, <<"inc">>, <<"write", c>> >>
      <4>1. (steps \o << <<"check">>, <<"cursor">> >>) \o s = LoadInc(c, s)
        BY <2>3, <3>1, Zenon DEF Five, LoadInc, IncWrite, Write, WriteThen, Checks, Cursor, Then
      <4> QED  BY <4>1
    <3>2. CASE steps = << <<"load">>, <<"write", c>>, <<"inc">> >>
      <4>1. (steps \o << <<"check">>, <<"cursor">> >>) \o s = LoadWrite(c, s)
        BY <2>3, <3>2, Zenon DEF Five, LoadWrite, WriteInc, Inc, WriteThen, Checks, Cursor, Then
      <4> QED  BY <4>1
    <3> QED  BY <2>1, <3>1, <3>2
  <2>5. v \in Seq(Step(C))
    <3>1. Begins(C, LoadInc(c, s), <<"load">>, IncWrite(c, s))
      BY WriteBegins
    <3>2. Begins(C, LoadWrite(c, s), <<"load">>, WriteInc(c, s))
      BY WriteBegins
    <3> QED  BY <2>4, <3>1, <3>2 DEF Begins
  <2> QED  BY <1>6, <2>4, <2>5 DEF CgaLists
<1> QED  BY <1>3, <1>4, <1>5, <1>6

(* cga_putc begins: what is left leads to what a terminal shows. *)
LEMMA CgaPutcStep ==
  ASSUME Sizes, NEW C, TypeInv(C), ProgressInv(C), CgaPutc
  PROVE  TypeInv(C)' /\ ProgressInv(C)'
<1>1. PICK c \in C, s \in Seq(Step(C)) :
        s = Close(unsent) /\ Kept /\ todo[depth] = Body(<<>>, c, unsent)
  BY NowPlace DEF CgaPutc, AtPlace, AtOutside
<1>2. unsent \in Seq(Shown(C)) /\ <<>> \in Seq(Shown(C))
  BY DEF TypeInv
<1>3. Begins(C, todo[depth], <<"cga", c>>, s)
  BY <1>1, <1>2, SectionBegins
<1>4. Operand = c
  BY <1>3 DEF Begins, Operand
<1>5. PICK steps \in CgaSteps(c) : Continue(steps \o << <<"check">>, <<"cursor">> >>)
  BY <1>4 DEF CgaPutc
<1>6. PICK u \in Terminal(Shown(C)), b \in [Video -> Shown(C)], p \in Cell :
        /\ u = TerminalPut(shown, c) /\ shown' = u /\ crt_buf = b /\ crt_pos = p
        /\ p > 0 <=> crt_pos > 0
        /\ c = BS /\ ~(p > 0) => SameOnce(u, b, p)
        /\ c = BS /\ p > 0 =>
             p - 1 \in Cell /\ SameOnce(u, [b EXCEPT ![p - 1] = Blank], p - 1)
        /\ c = NL => SameOnce(u, b, LineStart(p + CRT_COLS))
        /\ c = CR => SameOnce(u, b, LineStart(p))
        /\ c \notin {BS, NL, CR} => SameOnce(u, [b EXCEPT ![p] = c], p + 1)
  <2>1. shown \in Terminal(Shown(C)) /\ crt_buf \in [Video -> Shown(C)]
    BY DEF TypeInv
  <2>2. Same(shown, crt_buf, shown.pos) /\ shown.pos = crt_pos /\ crt_pos \in Cell
    BY <1>1, <2>1 DEF Kept, Agrees, Same, Terminal
  <2> QED  BY <1>4, <2>1, <2>2, Puts DEF CgaPutc
<1>7. UNCHANGED <<depth, crt_buf, crt_pos, unsent>>
  BY DEF CgaPutc, screen
<1>8. PICK v : CgaLists(C, c, steps, s, v)
  BY CgaListsAre
<1>9. SUFFICES WithinCga(C, v, s)'
  <2>1. todo' \in [Context -> Seq(Step(C))] /\ todo'[depth'] = v
    BY <1>3, <1>5, <1>7, <1>8, ContinueIs DEF CgaLists
  <2>2. TypeInv(C)'
    BY <1>6, <2>1 DEF TypeInv, CgaPutc, screen
  <2> QED  BY <1>1, <1>7, <2>1, <2>2 DEF ProgressInv
<1>10. BS # NL /\ BS # CR /\ NL # CR
  BY DEF BS, NL, CR
<1>11. CASE c = BS
  <2>1. CASE p > 0
    <3>1. v = Backspace(s)
      BY <1>6, <1>8, <1>11, <2>1 DEF CgaLists
    <3>2. Wiping(Backspace(s), s)'
      BY <1>6, <1>7, <1>11, <2>1 DEF Wiping, Fits, Cell
    <3> QED  BY <3>1, <3>2 DEF WithinCga
  <2>2. CASE ~(p > 0)
    <3>1. v = Checks(s)
      BY <1>6, <1>8, <1>11, <2>2 DEF CgaLists
    <3>2. Scrolling(Checks(s), s)'
      BY <1>6, <1>7, <1>11, <2>2 DEF Scrolling, Fits
    <3> QED  BY <3>1, <3>2 DEF WithinCga
  <2> QED  BY <2>1, <2>2
<1>12. CASE c = NL
  <2>1. v = Newline(s)
    BY <1>8, <1>12 DEF CgaLists
  <2>2. Moving(Newline(s), s)'
    BY <1>6, <1>7, <1>12 DEF Moving, Fits, LineStart
  <2> QED  BY <2>1, <2>2 DEF WithinCga
<1>13. CASE c = CR
  <2>1. v = Return(s)
    BY <1>8, <1>13 DEF CgaLists
  <2>2. Moving(Return(s), s)'
    BY <1>6, <1>7, <1>13 DEF Moving, Fits, LineStart
  <2> QED  BY <2>1, <2>2 DEF WithinCga
<1>14. CASE c \notin {BS, NL, CR}
  <2>1. v = LoadInc(c, s) \/ v = LoadWrite(c, s)
    BY <1>8, <1>14 DEF CgaLists
  <2>2. Writing(v, s, c)'
    BY <1>6, <1>7, <1>14, <2>1 DEF Writing, Fits, Cell
  <2> QED  BY <2>2 DEF WithinCga
<1> QED  BY <1>11, <1>12, <1>13, <1>14

-----------------------------------------------------------------------------
(* The steps outside of cga_putc                                           *)

LEMMA SentOn ==
  ASSUME NEW D, NEW a \in Seq(D), NEW l \in Seq(D), l # <<>>
  PROVE  /\ Head(l) \in D /\ Tail(l) \in Seq(D) /\ Append(a, Head(l)) \in Seq(D)
         /\ Append(a, Head(l)) \o Tail(l) = a \o l
<1>1. PICK x \in D, m \in Seq(D) : x = Head(l) /\ m = Tail(l) /\ l = <<x>> \o m
  <2>1. Head(l) \in D /\ Tail(l) \in Seq(D) /\ l = <<Head(l)>> \o Tail(l)
    <3>1. /\ Head(l) \in D /\ Tail(l) \in Seq(D) /\ Len(Tail(l)) = Len(l) - 1 /\ Head(l) = l[1]
          /\ \A i \in 1 .. Len(Tail(l)) : Tail(l)[i] = l[i + 1]
          /\ Len(l) \in Nat /\ Len(l) >= 1
      BY HeadTailProperties, EmptySeq
    <3>2. PICK z \in Seq(D) : z = <<Head(l)>> \o Tail(l)
      BY <3>1, Cons
    <3>3. z # <<>> /\ Head(z) = Head(l) /\ Tail(z) = Tail(l)
      BY <3>1, <3>2, Cons
    <3>4. /\ Len(Tail(z)) = Len(z) - 1 /\ Head(z) = z[1] /\ Len(z) \in Nat
          /\ \A i \in 1 .. Len(Tail(z)) : Tail(z)[i] = z[i + 1]
      BY <3>3, HeadTailProperties
    <3>5. Len(z) = Len(l)
      <4>1. PICK j, m, n \in Nat : j = Len(Tail(l)) /\ m = Len(l) /\ n = Len(z)
        BY <3>1, <3>4, LenProperties
      <4>2. j = m - 1 /\ j = n - 1
        BY <3>1, <3>3, <3>4, <4>1
      <4>3. m = n
        BY ONLY <4>2, j \in Nat, m \in Nat, n \in Nat
      <4> QED  BY <4>1, <4>3
    <3>6. ASSUME NEW i \in 1 .. Len(l) PROVE l[i] = z[i]
      <4>1. CASE i = 1
        BY <3>1, <3>3, <3>4, <4>1
      <4>2. CASE i # 1
        <5>1. i - 1 \in 1 .. Len(Tail(l)) /\ (i - 1) + 1 = i
          BY <3>1, <4>2
        <5>2. Tail(l)[i - 1] = l[(i - 1) + 1] /\ Tail(z)[i - 1] = z[(i - 1) + 1]
          BY <3>1, <3>3, <3>4, <5>1
        <5> QED  BY <3>3, <5>1, <5>2
      <4> QED  BY <4>1, <4>2
    <3>7. l = z
      BY <3>5, <3>6, SeqEqual
    <3> QED  BY <3>1, <3>2, <3>7
  <2> QED  BY <2>1
<1>2. Append(a, x) = a \o <<x>> /\ Append(a, x) \in Seq(D) /\ <<x>> \in Seq(D)
  BY AppendIsConcat
<1>3. PICK T : T = Seq(D)
  OBVIOUS
<1>4. Closed(T) /\ Assoc(T)
  BY <1>3, Cats
<1>5. PICK y, v, n \in T : y = <<x>> /\ v = a /\ n = m
  BY <1>2, <1>3
<1>6. Cat(Cat(v, y), n) = Cat(v, Cat(y, n))
  BY <1>4 DEF Assoc
<1>7. (a \o <<x>>) \o m = a \o (<<x>> \o m)
  BY <1>5, <1>6, Zenon DEF Cat
<1> QED  BY <1>1, <1>2, <1>7

LEMMA LptSendStep ==
  ASSUME NEW C, TypeInv(C), ProgressInv(C), LptSend
  PROVE  TypeInv(C)' /\ ProgressInv(C)'
<1>1. PICK l \in Seq(Shown(C)), w \in Seq(Shown(C)), c \in C :
        Kept /\ todo[depth] = Body(l, c, w) /\ unsent \o l = w /\ l # <<>>
  BY NowPlace DEF LptSend, AtPlace, AtOutside
<1>2. Begins(C, todo[depth], <<"lpt", Head(l)>>, Body(Tail(l), c, w))
  BY <1>1, SectionBegins
<1>3. /\ Done /\ depth' = depth /\ unsent' = Append(unsent, Head(l))
      /\ UNCHANGED <<screen, shown>>
  BY <1>2 DEF LptSend, Begins, Operand
<1>4. todo' \in [Context -> Seq(Step(C))] /\ todo'[depth'] = Body(Tail(l), c, w)
  BY <1>2, <1>3, DoneIs
<1>5. unsent' \in Seq(Shown(C)) /\ Tail(l) \in Seq(Shown(C)) /\ unsent' \o Tail(l) = w
  BY <1>1, <1>3, SentOn DEF TypeInv
<1>6. TypeInv(C)'
  BY <1>4, <1>5 DEF TypeInv, LptSend, screen
<1>7. Kept'
  BY <1>1, <1>3 DEF Kept, Agrees, screen
<1> QED  BY <1>4, <1>5, <1>6, <1>7 DEF ProgressInv

LEMMA SerialSendStep ==
  ASSUME NEW C, TypeInv(C), ProgressInv(C), SerialSend
  PROVE  TypeInv(C)' /\ ProgressInv(C)'
<1>1. Kept /\ todo[depth] = Close(unsent) /\ unsent # <<>> /\ unsent \in Seq(Shown(C))
  BY NowPlace DEF SerialSend, AtPlace, AtOutside, TypeInv
<1>2. Begins(C, todo[depth], <<"serial", Head(unsent)>>, Close(Tail(unsent)))
  BY <1>1, CloseBegins
<1>3. Done /\ depth' = depth /\ unsent' = Tail(unsent) /\ UNCHANGED <<screen, shown>>
  BY <1>1 DEF SerialSend
<1>4. todo' \in [Context -> Seq(Step(C))] /\ todo'[depth'] = Close(unsent')
  BY <1>2, <1>3, DoneIs
<1>5. unsent' \in Seq(Shown(C))
  BY <1>1, <1>3, SentOn
<1>6. TypeInv(C)'
  BY <1>4, <1>5 DEF TypeInv, SerialSend, screen
<1>7. Kept'
  BY <1>1, <1>3 DEF Kept, Agrees, screen
<1> QED  BY <1>4, <1>6, <1>7 DEF ProgressInv, Close

LEMMA SaveStep ==
  ASSUME NEW C, TypeInv(C), ProgressInv(C), Save
  PROVE  TypeInv(C)' /\ ProgressInv(C)'
<1>1. PICK c \in C : Kept /\ unsent = <<>> /\ todo[depth] = Whole(c)
  BY NowPlace DEF Save, AtPlace, AtOutside
<1>2. PICK w \in Seq(Shown(C)) : w = PortBytes(c) /\ Begins(C, todo[depth], <<"save">>, Body(w, c, w))
  BY <1>1, PutcIs
<1>3. Done /\ depth' = depth /\ UNCHANGED <<screen, shown, unsent>>
  BY DEF Save
<1>4. todo' \in [Context -> Seq(Step(C))] /\ todo'[depth'] = Body(w, c, w)
  BY <1>2, <1>3, DoneIs
<1>5. TypeInv(C)'
  BY <1>4 DEF TypeInv, Save, screen
<1>6. Kept' /\ unsent' \o w = w
  BY <1>1, <1>3, ConcatEmptySeq DEF Kept, Agrees, screen
<1> QED  BY <1>4, <1>5, <1>6 DEF ProgressInv

LEMMA RestoreStep ==
  ASSUME NEW C, TypeInv(C), ProgressInv(C), Restore
  PROVE  TypeInv(C)' /\ ProgressInv(C)' /\ todo'[depth'] = <<>>
<1>1. Kept /\ todo[depth] = Close(unsent) /\ unsent = <<>> /\ unsent \in Seq(Shown(C))
  BY NowPlace DEF Restore, AtPlace, AtOutside, TypeInv
<1>2. Begins(C, todo[depth], <<"restore">>, <<>>)
  BY <1>1, CloseBegins
<1>3. Done /\ depth' = depth /\ UNCHANGED <<screen, shown, unsent>>
  BY DEF Restore
<1>4. todo' \in [Context -> Seq(Step(C))] /\ todo'[depth'] = <<>>
  BY <1>2, <1>3, DoneIs
<1>5. (flag[depth] \/ iflag) \in BOOLEAN
  OBVIOUS
<1>6. TypeInv(C)'
  BY <1>4, <1>5 DEF TypeInv, Restore, screen
<1>7. Kept' /\ unsent' = <<>>
  BY <1>1, <1>3 DEF Kept, Agrees, screen
<1> QED  BY <1>4, <1>6, <1>7 DEF ProgressInv, Outside

LEMMA PortWaitStep ==
  ASSUME NEW C, TypeInv(C), ProgressInv(C), PortWait
  PROVE  TypeInv(C)' /\ ProgressInv(C)'
<1>1. TypeInv(C)'
  BY DEF TypeInv, PortWait, screen
<1>2. Kept' = Kept
  BY DEF Kept, Agrees, PortWait, screen
<1>3. Kept
  BY NowPlace DEF PortWait, AtPlace, AtOutside
<1>4. PICK op \in {"lpt", "serial"} : Now(op)
  BY DEF PortWait
<1>5. AtOutside(C, op, todo[depth])
  BY <1>4, NowPlace DEF AtPlace
<1>6. todo' = todo /\ depth' = depth /\ unsent' = unsent
  BY DEF PortWait
<1>7. CASE op = "lpt"
  <2>1. \E l, w \in Seq(Shown(C)), c \in C : todo[depth] = Body(l, c, w) /\ unsent \o l = w
    BY <1>5, <1>7 DEF AtOutside
  <2> QED  BY <1>1, <1>2, <1>3, <1>6, <2>1 DEF ProgressInv
<1>8. CASE op = "serial"
  <2>1. todo[depth] = Close(unsent)
    BY <1>5, <1>8 DEF AtOutside
  <2> QED  BY <1>1, <1>2, <1>3, <1>6, <2>1 DEF ProgressInv
<1> QED  BY <1>4, <1>7, <1>8

LEMMA NextCharStep ==
  ASSUME NEW C, TypeInv(C), ProgressInv(C), masked = TRUE, NextChar
  PROVE  TypeInv(C)' /\ ProgressInv(C)' /\ Outside(C, todo'[depth])
<1>1. PICK c \in C, rest \in Seq(C) : c = Head(text[depth]) /\ rest = Tail(text[depth])
  <2>1. text[depth] \in Seq(C) /\ text[depth] # <<>>
    BY DEF NextChar, TypeInv
  <2> QED  BY <2>1, HeadTailProperties
<1>2. Putc(masked, c) = Whole(c) /\ Whole(c) \in Seq(Step(C))
  BY PutcIs DEF Begins
<1>3. todo' = [todo EXCEPT ![depth] = Whole(c)] /\ text' = [text EXCEPT ![depth] = rest]
  BY <1>1, <1>2 DEF NextChar
<1>4. todo' \in [Context -> Seq(Step(C))] /\ todo'[depth] = Whole(c) /\ text' \in [Context -> Seq(C)]
  BY <1>1, <1>2, <1>3 DEF TypeInv
<1>5. TypeInv(C)'
  BY <1>4 DEF TypeInv, NextChar, screen
<1>6. Kept /\ unsent = <<>>
  BY WhichOuter DEF NextChar
<1>7. Kept' /\ unsent' = <<>> /\ depth' = depth
  BY <1>6 DEF Kept, Agrees, NextChar, screen
<1> QED  BY <1>4, <1>5, <1>7 DEF ProgressInv, Outside

-----------------------------------------------------------------------------
(* The section                                                             *)

Good(C) == TypeInv(C) /\ SectionInv(C) /\ ProgressInv(C)

LEMMA OnlySaveIsOutside ==
  ASSUME NEW C, NEW op, Now(op), Outside(C, todo[depth])
  PROVE  op = "save"
BY PutcIs, BeginsAt DEF Now, Outside, At

(* Within the section the owner goes on alone. *)
LEMMA SectionStays ==
  ASSUME NEW C, TypeInv(C), SectionInv(C), NEW op, Now(op), op # "save",
         UNCHANGED <<iflag, depth, flag>>,
         NEW x, todo' = [todo EXCEPT ![depth] = x]
  PROVE  SectionInv(C)'
<1>1. ~Outside(C, todo[depth])
  BY OnlySaveIsOutside
<1>2. depth \in {Main, Handler} /\ Main # Handler
  BY DEF TypeInv, Context, Main, Handler
<1>3. CASE depth = Main
  <2>1. ~iflag
    BY <1>1, <1>3 DEF SectionInv
  <2> QED  BY <1>2, <1>3, <2>1 DEF SectionInv, TypeInv
<1>4. CASE depth = Handler
  <2>1. todo'[Main] = todo[Main]
    BY <1>2, <1>4 DEF TypeInv
  <2> QED  BY <1>2, <1>4, <2>1 DEF SectionInv
<1> QED  BY <1>2, <1>3, <1>4

LEMMA SaveSection ==
  ASSUME NEW C, TypeInv(C), SectionInv(C), Save
  PROVE  SectionInv(C)'
<1>1. depth \in {Main, Handler} /\ Main # Handler
  BY DEF TypeInv, Context, Main, Handler
<1>2. /\ iflag' = FALSE /\ depth' = depth /\ flag' = [flag EXCEPT ![depth] = iflag]
      /\ \A c \in Context : c # depth => todo'[c] = todo[c] /\ flag'[c] = flag[c]
      /\ flag'[depth] = iflag
  BY DEF Save, Done, TypeInv
<1>3. Main \in Context /\ Handler \in Context
  BY DEF Context
<1>4. CASE depth = Main
  BY <1>1, <1>2, <1>3, <1>4 DEF SectionInv
<1>5. CASE depth = Handler
  BY <1>1, <1>2, <1>3, <1>5 DEF SectionInv
<1> QED  BY <1>1, <1>4, <1>5

LEMMA RestoreSection ==
  ASSUME NEW C, TypeInv(C), SectionInv(C), Restore, todo'[depth'] = <<>>
  PROVE  SectionInv(C)'
<1>1. depth \in {Main, Handler} /\ Main # Handler /\ Main \in Context /\ Handler \in Context
  BY DEF TypeInv, Context, Main, Handler
<1>2. /\ iflag' = (flag[depth] \/ iflag) /\ depth' = depth /\ flag' = flag
      /\ \A c \in Context : c # depth => todo'[c] = todo[c]
  BY DEF Restore, Done, TypeInv
<1>3. CASE depth = Main
  BY <1>1, <1>2, <1>3 DEF SectionInv, Outside
<1>4. CASE depth = Handler
  BY <1>1, <1>2, <1>4 DEF SectionInv
<1> QED  BY <1>1, <1>3, <1>4

LEMMA NextCharSection ==
  ASSUME NEW C, TypeInv(C), SectionInv(C), NextChar, Outside(C, todo'[depth])
  PROVE  SectionInv(C)'
<1>1. depth \in {Main, Handler} /\ Main # Handler /\ Main \in Context /\ Handler \in Context
  BY DEF TypeInv, Context, Main, Handler
<1>2. /\ UNCHANGED <<iflag, depth, flag>>
      /\ \A c \in Context : c # depth => todo'[c] = todo[c]
  BY DEF NextChar, TypeInv
<1>3. CASE depth = Main
  BY <1>1, <1>2, <1>3 DEF SectionInv
<1>4. CASE depth = Handler
  BY <1>1, <1>2, <1>4 DEF SectionInv
<1> QED  BY <1>1, <1>3, <1>4

LEMMA InterruptStep ==
  ASSUME NEW C, Printing(C), Good(C), Interrupt
  PROVE  Good(C)'
<1>1. Main # Handler /\ Main \in Context /\ Handler \in Context
  BY DEF Context, Main, Handler
<1>2. /\ iflag /\ depth = Main /\ depth' = Handler /\ iflag' = FALSE
      /\ UNCHANGED <<todo, flag, reg, screen, shown, unsent>>
  BY DEF Interrupt
<1>3. PICK message \in Messages : text' = [text EXCEPT ![Handler] = message]
  BY DEF Interrupt
<1>4. todo[Handler] = <<>> /\ Outside(C, todo[Main]) /\ ~flag[Handler]
  BY <1>2 DEF Good, SectionInv
<1>5. Kept /\ unsent = <<>>
  BY <1>2, <1>4, WhichOuter DEF Good
<1>6. TypeInv(C)'
  <2>1. text' \in [Context -> Seq(C)]
    BY <1>3 DEF Good, TypeInv, Printing
  <2> QED  BY <1>1, <1>2, <2>1 DEF Good, TypeInv, screen
<1>7. SectionInv(C)'
  BY <1>1, <1>2, <1>4 DEF SectionInv
<1>8. Kept'
  BY <1>2, <1>5 DEF Kept, Agrees, screen
<1> QED  BY <1>2, <1>4, <1>5, <1>6, <1>7, <1>8 DEF Good, ProgressInv, Outside

LEMMA IretStep ==
  ASSUME NEW C, Good(C), Iret
  PROVE  Good(C)'
<1>1. Main # Handler /\ Main \in Context
  BY DEF Context, Main, Handler
<1>2. /\ depth = Handler /\ depth' = Main /\ iflag' = TRUE /\ todo[Handler] = <<>>
      /\ UNCHANGED <<todo, text, flag, reg, screen, shown, unsent>>
  BY DEF Iret, local
<1>3. Outside(C, todo[Main]) /\ ~flag[Handler]
  BY <1>2 DEF Good, SectionInv
<1>4. Kept /\ unsent = <<>>
  BY <1>2, WhichOuter DEF Good
<1>5. TypeInv(C)'
  BY <1>1, <1>2 DEF Good, TypeInv, screen
<1>6. SectionInv(C)'
  BY <1>1, <1>2, <1>3 DEF SectionInv
<1>7. Kept'
  BY <1>2, <1>4 DEF Kept, Agrees, screen
<1> QED  BY <1>2, <1>3, <1>4, <1>5, <1>6, <1>7 DEF Good, ProgressInv

LEMMA KernelStep ==
  ASSUME Sizes, NEW C, Good(C), masked = TRUE, Kernel
  PROVE  Good(C)'
<1> USE DEF Good
<1>1. CASE NextChar
  BY <1>1, NextCharStep, NextCharSection
<1>2. CASE Save
  BY <1>2, SaveStep, SaveSection
<1>3. CASE Restore
  BY <1>3, RestoreStep, RestoreSection
<1>4. CASE PortWait
  <2>1. PICK op \in {"lpt", "serial"} : Now(op)
    BY <1>4 DEF PortWait
  <2>2. todo' = [todo EXCEPT ![depth] = todo[depth]] /\ UNCHANGED <<iflag, depth, flag>>
    BY <1>4 DEF PortWait, TypeInv
  <2> QED  BY <1>4, <2>1, <2>2, PortWaitStep, SectionStays
<1>5. ASSUME NEW op, Now(op), op # "save", Done, UNCHANGED <<iflag, depth, flag>>
      PROVE  SectionInv(C)'
  BY <1>5, SectionStays DEF Done
<1>6. CASE LptSend
  BY <1>5, <1>6, LptSendStep DEF LptSend
<1>7. CASE SerialSend
  BY <1>5, <1>7, SerialSendStep DEF SerialSend
<1>8. CASE CgaPutc
  BY <1>8, CgaPutcStep, SectionStays DEF CgaPutc, Continue
<1>9. CASE Load
  BY <1>5, <1>9, LoadStep DEF Load
<1>10. CASE StorePos
  BY <1>5, <1>10, StorePosStep DEF StorePos
<1>11. CASE StoreChar
  BY <1>5, <1>11, StoreCharStep DEF StoreChar
<1>12. CASE Check
  BY <1>12, CheckStep, SectionStays DEF Check, Continue
<1>13. CASE Scroll
  BY <1>5, <1>13, ScrollStep DEF Scroll
<1>14. CASE SetCursor
  BY <1>5, <1>14, SetCursorStep DEF SetCursor
<1>15. CASE Iret
  BY <1>15, IretStep
<1> QED  BY <1>1, <1>2, <1>3, <1>4, <1>6, <1>7, <1>8, <1>9, <1>10, <1>11, <1>12, <1>13, <1>14,
            <1>15 DEF Kernel

-----------------------------------------------------------------------------
(* Theorems                                                                *)

LEMMA Beginning ==
  ASSUME Sizes, NEW C, Printing(C), Init
  PROVE  Inv(C)
<1>1. Main # Handler /\ Main \in Context /\ Handler \in Context /\ Context = {Main, Handler}
  BY DEF Context, Main, Handler
<1>2. Blank \in Shown(C) /\ Cell \subseteq Video
  BY StepIs, ScreenSize
<1>3. crt_pos \in Cell /\ crt_pos \in Int
  BY DEF Init, Cell
<1>4. text \in [Context -> Seq(C)] /\ todo \in [Context -> Seq(Step(C))]
  <2>1. <<>> \in Seq(C) /\ <<>> \in Seq(Step(C))
    OBVIOUS
  <2> QED  BY <2>1 DEF Init, Printing
<1>5. crt_buf \in [Video -> Shown(C)] /\ shown \in Terminal(Shown(C)) /\ unsent \in Seq(Shown(C))
  BY <1>2 DEF Init, Terminal
<1>6. TypeInv(C)
  BY <1>1, <1>3, <1>4, <1>5 DEF Init, TypeInv
<1>7. todo[Main] = <<>> /\ todo[Handler] = <<>> /\ flag[Handler] = FALSE /\ depth = Main
  BY <1>1 DEF Init
<1>8. SectionInv(C)
  BY <1>1, <1>7 DEF SectionInv, Outside
<1>9. Kept /\ unsent = <<>>
  BY <1>2, <1>3 DEF Init, Kept, Agrees, Same
<1>10. ProgressInv(C)
  BY <1>7, <1>9 DEF ProgressInv, Outside
<1> QED  BY <1>6, <1>8, <1>10 DEF Inv, Init

LEMMA Preserved ==
  ASSUME Sizes, NEW C, Printing(C), Inv(C), [Next]_vars
  PROVE  Inv(C)'
<1>1. masked' = masked
  BY DEF Next, Kernel, vars, NextChar, Save, Restore, PortWait, LptSend, SerialSend, CgaPutc, Load,
         StorePos, StoreChar, Check, Scroll, SetCursor, Iret, Interrupt
<1>2. CASE masked = TRUE
  <2>1. Good(C)
    BY <1>2 DEF Inv, Good
  <2>2. CASE Kernel
    BY <1>1, <1>2, <2>1, <2>2, KernelStep DEF Inv, Good
  <2>3. CASE Interrupt
    BY <1>1, <1>2, <2>1, <2>3, InterruptStep DEF Inv, Good
  <2>4. CASE UNCHANGED vars
    <3>1. /\ UNCHANGED <<masked, iflag, depth, text, todo, reg, flag, crt_buf, crt_pos, cursor, shown,
                         unsent>>
      BY <2>4 DEF vars, local, screen
    <3>2. TypeInv(C)'
      BY <2>1, <3>1 DEF Good, TypeInv
    <3>3. SectionInv(C)'
      BY <2>1, <3>1 DEF Good, SectionInv
    <3>4. ProgressInv(C)'
      <4>1. PICK t, s : t = todo[depth] /\ s = Close(unsent) /\ t = (todo[depth])' /\ s = Close(unsent)'
        BY <3>1 DEF Close
      <4>2. Kept' = Kept
        BY <3>1 DEF Kept, Agrees
      <4>3. Scrolling(t, s)' = Scrolling(t, s)
        BY <3>1 DEF Scrolling, Agrees, Fits
      <4>4. Moving(t, s)' = Moving(t, s)
        BY <3>1 DEF Moving, Fits
      <4>5. Wiping(t, s)' = Wiping(t, s)
        BY <3>1 DEF Wiping, Fits
      <4>6. ASSUME NEW c \in C PROVE Writing(t, s, c)' = Writing(t, s, c)
        BY <3>1 DEF Writing, Fits
      <4>7. WithinCga(C, t, s)' = WithinCga(C, t, s)
        BY <4>3, <4>4, <4>5, <4>6, Zenon DEF WithinCga
      <4>8. /\ todo' = todo /\ depth' = depth /\ unsent' = unsent
        BY <3>1
      <4> QED  BY <2>1, <4>1, <4>2, <4>7, <4>8 DEF Good, ProgressInv
    <3> QED  BY <1>1, <1>2, <3>2, <3>3, <3>4 DEF Inv
  <2> QED  BY <2>2, <2>3, <2>4 DEF Next
<1>3. CASE masked # TRUE
  BY <1>1, <1>3 DEF Inv
<1> QED  BY <1>2, <1>3

(* In every reachable state of lab 2 one context at most is inside the     *)
(* section, and the screen is as far from the terminal as the steps left   *)
(* of cga_putc say.                                                        *)
THEOREM Invariance ==
  ASSUME NEW C, Sizes, Printing(C)
  PROVE  Spec => []Inv(C)
<1>1. Init => Inv(C)
  BY Beginning
<1>2. Inv(C) /\ [Next]_vars => Inv(C)'
  BY Preserved
<1> QED  BY <1>1, <1>2, PTL DEF Spec

(* cga_putc, lab 2: whoever prints, and wherever interrupts come, the      *)
(* screen outside of a call is what the characters printed so far leave on *)
(* a terminal, one after the other, and the cursor is behind the last.     *)
THEOREM ScreenIsTerminal ==
  ASSUME NEW C, Sizes, Printing(C)
  PROVE  Spec => [](masked => ScreenKept)
<1>1. ASSUME Inv(C), masked PROVE ScreenKept
  <2>1. TypeInv(C) /\ ProgressInv(C)
    BY <1>1 DEF Inv
  <2>2. Settled => Kept
    BY <2>1, WhichOuter DEF Settled, TypeInv
  <2>3. Kept => crt_pos \in Cell /\ cursor = crt_pos /\ crt_pos = shown.pos
                /\ \A i \in Cell : crt_buf[i] = shown.buf[i]
    BY <2>1 DEF Kept, Agrees, Same, TypeInv, Terminal
  <2> QED  BY <2>2, <2>3 DEF ScreenKept
<1>2. Inv(C) => (masked => ScreenKept)
  BY <1>1
<1> QED  BY <1>2, Invariance, PTL

(* cons_putc, lab 2: what the serial port gets is what the printer port    *)
(* got, byte for byte and in the same order.                               *)
THEOREM PortsGetTheSame ==
  ASSUME NEW C, Sizes, Printing(C)
  PROVE  Spec => PortsAgree
<1>1. ASSUME Inv(C), masked, SerialSend PROVE unsent # <<>> /\ Head(unsent) = Operand
  <2>1. TypeInv(C) /\ ProgressInv(C)
    BY <1>1 DEF Inv
  <2>2. todo[depth] = Close(unsent) /\ unsent # <<>> /\ unsent \in Seq(Shown(C))
    BY <1>1, <2>1, NowPlace DEF SerialSend, AtPlace, AtOutside, TypeInv
  <2>3. Begins(C, todo[depth], <<"serial", Head(unsent)>>, Close(Tail(unsent)))
    BY <2>2, CloseBegins
  <2> QED  BY <2>2, <2>3 DEF Begins, Operand
<1>2. Inv(C) /\ [Next]_vars => [masked /\ SerialSend => unsent # <<>> /\ Head(unsent) = Operand]_vars
  BY <1>1
<1> QED  BY <1>2, Invariance, PTL DEF Spec, PortsAgree

-----------------------------------------------------------------------------
(* Lab 1: cons_putc without a section                                      *)
(*                                                                         *)
(* An interrupt may come between any two accesses, so a position in a      *)
(* register may be stale, and what the screen shows is anything.  What is  *)
(* kept is where crt_pos may be: with the register it says, at each place  *)
(* of cga_putc, that the position that comes out is on the screen.         *)

Tall == CRT_ROWS >= 2

(* A handler prints nothing, or whole lines. *)
WholeLines == \A m \in Messages : m = <<>> \/ m[Len(m)] = NL

(* p is where a line begins, and not the first. *)
AtLine(p) == p % CRT_COLS = 0 /\ CRT_COLS <= p

(* What is left behind cga_putc, and with it.  *)
Trail(w) == Ports("serial", w) \o <<>>
Lead(l, c, w) == Ports("lpt", l) \o (<< <<"cga", c>> >> \o Trail(w))

(* The positions p and r in crt_pos and in the register, at each place of  *)
(* a call that began with a position below e.  If d is "line", a line      *)
(* begins at the position that comes out.                                  *)
Rising(t, s, p, r, e, d) ==
    \/ t = Cursor(s) /\ p < e /\ (d = "line" => AtLine(p))
    \/ t = Up(s) /\ CRT_COLS <= r /\ r < e + CRT_COLS /\ (d = "line" => AtLine(r - CRT_COLS))
    \/ /\ t \in {LoadUp(s), Clear(s), Move(s)} /\ CRT_COLS <= p
       /\ d = "line" => AtLine(p - CRT_COLS)
    \/ t = Checks(s) /\ (d = "line" => AtLine(p))

Turning(t, s, p, r, e, d) ==
    \/ t = Home(s) /\ 0 <= r /\ r < e + CRT_COLS /\ (d = "line" => AtLine(r))
    \/ /\ t = Column(s) /\ p % CRT_COLS <= r /\ r < e + CRT_COLS
       /\ d = "line" => r = p /\ CRT_COLS <= p
    \/ t = Return(s) /\ (d = "line" => CRT_COLS <= p)
    \/ t = Down(s) /\ 0 <= r /\ r < e
    \/ t = Newline(s) /\ p < e

Deleting(t, s, p, r, e) ==
    \/ t = Wipe(s)
    \/ t = Back(s) /\ 0 < r /\ r < e
    \/ t = Backspace(s) /\ 0 < p /\ p < e

Putting(t, s, c, p, r, e) ==
    \/ t = Write(c, s)
    \/ t \in {IncWrite(c, s), WriteInc(c, s), Inc(s)} /\ 0 <= r /\ r < e
    \/ t \in {LoadInc(c, s), LoadWrite(c, s)} /\ p < e

Inward(C, t, s, p, r, e, d) ==
    /\ 0 <= p /\ p < e + CRT_COLS
    /\ \/ Rising(t, s, p, r, e, d)
       \/ Turning(t, s, p, r, e, d)
       \/ d # "line" /\ Deleting(t, s, p, r, e)
       \/ d # "line" /\ \E c \in C : Putting(t, s, c, p, r, e)

Before(C, t, d) ==
    \E l, w \in Seq(Shown(C)), c \in C : t = Lead(l, c, w) /\ (d = "line" => c = NL)
Behind(C, t) == \E w \in Seq(Shown(C)) : t = Trail(w)

Placed(C, t, p, r, e, d) ==
    \/ 0 <= p /\ p < e /\ (Before(C, t, d) \/ Behind(C, t))
    \/ \E w \in Seq(Shown(C)) : Inward(C, t, Trail(w), p, r, e, d)

(* The main line can go on from the position p. *)
MainGoesOn(C, p) == Placed(C, todo[Main], p, reg[Main], CRT_SIZE, "any")

(* A handler that comes while the position is on the screen leaves it on   *)
(* the screen.                                                             *)
Room(q) == IF q < CRT_SIZE THEN CRT_SIZE ELSE CRT_SIZE + CRT_COLS
Demand == IF text[Handler] = <<>> THEN "line" ELSE "any"

LooseType(C) ==
    /\ depth \in Context
    /\ reg \in [Context -> Int] /\ crt_pos \in Int
    /\ text \in [Context -> Seq(C)] /\ todo \in [Context -> Seq(Step(C))]

LinesInv == text[Handler] = <<>> \/ text[Handler][Len(text[Handler])] = NL

(* The main line is where it can go on; while a handler runs, it is from   *)
(* where the handler came, and from where the handler ends.                *)
PlacesInv(C) ==
    /\ depth = Main => MainGoesOn(C, crt_pos) /\ todo[Handler] = <<>>
    /\ depth = Handler =>
          /\ \E q \in Int : /\ MainGoesOn(C, q)
                            /\ Placed(C, todo[Handler], crt_pos, reg[Handler], Room(q), Demand)
          /\ Behind(C, todo[Handler]) /\ text[Handler] = <<>> => MainGoesOn(C, crt_pos)

Loose(C) == LooseType(C) /\ LinesInv /\ PlacesInv(C)
LooseInv(C) == masked \in BOOLEAN /\ (masked = FALSE => Loose(C))

(* Rows of at least two lines, and the starts of lines. *)
LEMMA Rows ==
  ASSUME Sizes, Tall
  PROVE  /\ CRT_COLS \in Nat /\ CRT_COLS >= 1 /\ CRT_SIZE \in Nat
         /\ CRT_COLS + CRT_COLS <= CRT_SIZE /\ Cell = 0 .. CRT_SIZE - 1
<1>1. PICK r, c \in Nat : r = CRT_ROWS /\ c = CRT_COLS /\ r >= 2 /\ c >= 1
  BY DEF Sizes, Tall
<1>2. PICK m \in Nat : m = r - 2
  BY <1>1
<1>3. PICK n \in Nat : n = m * c
  OBVIOUS
<1>4. r * c = n + c + c
  <2>1. r = m + 2
    BY <1>2
  <2>2. (m + 2) * c = m * c + c + c
    OBVIOUS
  <2> QED  BY <1>3, <2>1, <2>2
<1> QED  BY <1>1, <1>3, <1>4 DEF CRT_SIZE, Cell

(* A number is divided in one way only. *)
LEMMA Remainder ==
  ASSUME NEW c \in Nat, NEW q \in Int, NEW m \in Nat, m < c
  PROVE  (c * q + m) % c = m
<1>1. PICK s \in Int : s = c * q + m
  OBVIOUS
<1>2. PICK a, b \in Int : /\ a = s \div c /\ b = s % c /\ s = c * a + b
                          /\ 0 <= b /\ b < c
  OBVIOUS
<1>3. c * q + m = c * a + b
  BY <1>1, <1>2
<1>4. CASE a < q
  <2>1. PICK d \in Nat : d = q - a - 1
    BY <1>4
  <2>2. q = a + 1 + d
    BY <2>1
  <2>3. c * q = c * a + c + c * d /\ c * d >= 0
    BY ONLY <2>2, c \in Nat, a \in Int, d \in Nat
  <2>4. PICK x, y, z \in Int : x = c * a /\ y = c * d /\ z = c * q
    OBVIOUS
  <2>5. z + m = x + b /\ z = x + c + y /\ y >= 0
    BY <1>3, <2>3, <2>4
  <2> QED  BY <1>2, <2>5
<1>5. CASE q < a
  <2>1. PICK d \in Nat : d = a - q - 1
    BY <1>5
  <2>2. a = q + 1 + d
    BY <2>1
  <2>3. c * a = c * q + c + c * d /\ c * d >= 0
    BY ONLY <2>2, c \in Nat, q \in Int, d \in Nat
  <2>4. PICK x, y, z \in Int : x = c * a /\ y = c * d /\ z = c * q
    OBVIOUS
  <2>5. z + m = x + b /\ x = z + c + y /\ y >= 0
    BY <1>3, <2>3, <2>4
  <2> QED  BY <1>2, <2>5
<1>6. CASE a = q
  <2>1. PICK x \in Int : x = c * q
    OBVIOUS
  <2>2. x + m = x + b
    BY <1>3, <1>6, <2>1
  <2>3. b = m
    BY ONLY <2>2, x \in Int, m \in Nat, b \in Int
  <2> QED  BY <1>1, <1>2, <2>3
<1>7. a < q \/ q < a \/ a = q
  BY ONLY a \in Int, q \in Int
<1> QED  BY <1>4, <1>5, <1>6, <1>7

LEMMA LineFacts ==
  ASSUME Sizes, NEW p \in Nat
  PROVE  /\ p % CRT_COLS \in Nat /\ p % CRT_COLS <= p
         /\ CRT_COLS <= p => AtLine(p - (p % CRT_COLS))
         /\ AtLine(p) /\ CRT_COLS + CRT_COLS <= p => AtLine(p - CRT_COLS)
<1>1. PICK c \in Nat : c = CRT_COLS /\ c >= 1
  BY DEF Sizes
<1>2. PICK q, m, s \in Nat : s = c * q /\ p = s + m /\ m < c /\ p % c = m
  <2>1. p = c * (p \div c) + (p % c) /\ p \div c \in Nat /\ p % c \in Nat /\ p % c < c
    BY <1>1
  <2>2. PICK q, m, s \in Nat : q = p \div c /\ m = p % c /\ s = c * q
    BY <2>1
  <2>3. s = c * q /\ p = s + m /\ m < c /\ p % c = m
    BY <2>1, <2>2
  <2> QED  BY <2>3
<1>3. s % c = 0 /\ p - m = s
  <2>1. (c * q + 0) % c = 0
    BY <1>1, Remainder
  <2> QED  BY <1>2, <2>1
<1>4. c <= p => c <= s
  <2>1. CASE q = 0
    <3>1. c * 0 = 0
      OBVIOUS
    <3>2. p = m
      BY <1>2, <2>1, <3>1
    <3> QED  BY <1>2, <3>2
  <2>2. CASE q # 0
    <3>1. PICK d \in Nat : d = q - 1
      BY <2>2
    <3>2. q = 1 + d
      BY <3>1
    <3>3. c * q = c + c * d /\ c * d >= 0
      BY ONLY <3>2, c \in Nat, d \in Nat
    <3> QED  BY <1>2, <3>3
  <2> QED  BY <2>1, <2>2
<1>5. (p - c) % c = m
  <2>1. PICK a \in Int : a = q - 1
    OBVIOUS
  <2>2. q = a + 1
    BY <2>1
  <2>3. c * q = c * a + c
    BY ONLY <2>2, c \in Nat, a \in Int
  <2>4. PICK x \in Int : x = c * a
    OBVIOUS
  <2>5. p - c = c * a + m
    BY <1>2, <2>3, <2>4
  <2> QED  BY <1>1, <1>2, <2>5, Remainder
<1> QED  BY <1>1, <1>2, <1>3, <1>4, <1>5 DEF AtLine

(* The lists of the steps that are left. *)
LEMMA TrailBegins ==
  ASSUME NEW C, NEW w \in Seq(Shown(C))
  PROVE  /\ Trail(w) \in Seq(Step(C))
         /\ w = <<>> => Trail(w) = <<>>
         /\ w # <<>> => Begins(C, Trail(w), <<"serial", Head(w)>>, Trail(Tail(w)))
<1>1. <<>> \in Seq(Step(C))
  OBVIOUS
<1>2. PortsBegin(C, "serial", w, <<>>)
  BY <1>1, PortSteps
<1> QED  BY <1>2 DEF PortsBegin, Trail

LEMMA LeadBegins ==
  ASSUME NEW C, NEW l \in Seq(Shown(C)), NEW w \in Seq(Shown(C)), NEW c \in C
  PROVE  /\ Lead(l, c, w) \in Seq(Step(C))
         /\ l = <<>> => Begins(C, Lead(l, c, w), <<"cga", c>>, Trail(w))
         /\ l # <<>> => Begins(C, Lead(l, c, w), <<"lpt", Head(l)>>, Lead(Tail(l), c, w))
<1>0. <<"cga", c>> \in Step(C) /\ Trail(w) \in Seq(Step(C))
  BY StepIs, TrailBegins DEF Op
<1> DEFINE g == << <<"cga", c>> >> \o Trail(w)
<1>1. g \in Seq(Step(C)) /\ Begins(C, g, <<"cga", c>>, Trail(w))
  BY <1>0, Cons DEF Begins
<1> HIDE DEF g
<1>2. Lead(l, c, w) = Ports("lpt", l) \o g /\ Lead(Tail(l), c, w) = Ports("lpt", Tail(l)) \o g
  BY DEF Lead, g
<1>3. PICK z \in Seq(Step(C)) : z = g
  BY <1>1
<1>4. PortsBegin(C, "lpt", l, z)
  BY PortSteps
<1> QED  BY <1>1, <1>2, <1>3, <1>4 DEF Begins, PortsBegin

(* cons_putc of lab 1 as cprintf begins it. *)
LEMMA LoosePutcIs ==
  ASSUME NEW C, NEW c \in C
  PROVE  /\ PortBytes(c) \in Seq(Shown(C)) /\ PortBytes(c) # <<>>
         /\ Putc(FALSE, c) = Lead(PortBytes(c), c, PortBytes(c))
<1> DEFINE w == PortBytes(c)
           S == Step(C)
           l == Ports("lpt", w)
           r == Ports("serial", w)
           g == << <<"cga", c>> >>
<1>1. w \in Seq(Shown(C)) /\ w # <<>>
  BY StepIs DEF PortBytes
<1>2. <<"cga", c>> \in S
  BY StepIs DEF Op
<1>3. <<>> \in Seq(S) /\ g \in Seq(S)
  BY <1>2
<1>4. l \in Seq(S) /\ r \in Seq(S) /\ Trail(w) \in Seq(S)
  BY <1>1, <1>3, PortSteps, TrailBegins DEF PortsBegin
<1>5. ToPort("lpt", c) = l /\ ToPort("serial", c) = r
  BY DEF ToPort, Ports
<1>6. Putc(FALSE, c) = (((<<>> \o l) \o g) \o r) \o <<>>
  BY <1>5 DEF Putc
<1>7. Lead(w, c, w) = l \o (g \o (r \o <<>>))
  BY DEF Lead, Trail
<1> HIDE DEF w, S, l, r, g
<1>8. (((<<>> \o l) \o g) \o r) \o <<>> = <<>> \o (l \o (g \o (r \o <<>>)))
  <2>1. PICK T : T = Seq(S)
    OBVIOUS
  <2>2. Closed(T) /\ Assoc(T) /\ <<>> \in T /\ l \in T /\ g \in T /\ r \in T
    BY <1>3, <1>4, <2>1, Cats
  <2>3. Grouped(<<>>, l, g, r, <<>>)
    BY <2>2, Groups
  <2> QED  BY <2>3, Zenon DEF Grouped
<1>9. Lead(w, c, w) \in Seq(S)
  BY <1>1, LeadBegins DEF S
<1>10. <<>> \o Lead(w, c, w) = Lead(w, c, w)
  BY <1>9, ConcatEmptySeq
<1>11. Putc(FALSE, c) = Lead(w, c, w)
  BY <1>6, <1>7, <1>8, <1>10, Zenon
<1> QED  BY <1>1, <1>11 DEF w

(* A context is inside cga_putc. *)
Inside(t) == t # <<>> /\ Head(t)[1] \notin CallOps

LEMMA OutsideOnly ==
  ASSUME NEW C, NEW t
  PROVE  /\ Behind(C, t) => ~Inside(t) /\ (t # <<>> => Head(t)[1] = "serial")
         /\ \A d : Before(C, t, d) => t # <<>> /\ Head(t)[1] \in {"lpt", "cga"} /\ ~Inside(t)
<1>1. ASSUME NEW w \in Seq(Shown(C)), t = Trail(w)
      PROVE  t # <<>> => Head(t)[1] = "serial"
  <2>1. w # <<>> => Begins(C, t, <<"serial", Head(w)>>, Trail(Tail(w)))
    BY <1>1, TrailBegins
  <2>2. w = <<>> => t = <<>>
    BY <1>1, TrailBegins
  <2> QED  BY <2>1, <2>2, BeginsAt DEF At
<1>2. ASSUME NEW l \in Seq(Shown(C)), NEW w \in Seq(Shown(C)), NEW c \in C, t = Lead(l, c, w)
      PROVE  t # <<>> /\ Head(t)[1] \in {"lpt", "cga"}
  <2>1. l = <<>> => Begins(C, t, <<"cga", c>>, Trail(w))
    BY <1>2, LeadBegins
  <2>2. l # <<>> => Begins(C, t, <<"lpt", Head(l)>>, Lead(Tail(l), c, w))
    BY <1>2, LeadBegins
  <2> QED  BY <2>1, <2>2, BeginsAt DEF At
<1> QED  BY <1>1, <1>2 DEF Behind, Before, Inside, CallOps

(* The places within cga_putc, by the step that is next there. *)
AtRising(op, t, s, p, r, e, d) ==
  /\ op = "cursor" => t = Cursor(s) /\ p < e /\ (d = "line" => AtLine(p))
  /\ op = "up" => /\ t = Up(s) /\ CRT_COLS <= r /\ r < e + CRT_COLS
                  /\ d = "line" => AtLine(r - CRT_COLS)
  /\ op \in {"move", "clear"} =>
       /\ t = IF op = "move" THEN Move(s) ELSE Clear(s)
       /\ CRT_COLS <= p /\ (d = "line" => AtLine(p - CRT_COLS))
  /\ op = "check" => t = Checks(s) /\ (d = "line" => AtLine(p))

AtTurning(op, t, s, p, r, e, d) ==
  /\ op = "home" => t = Home(s) /\ 0 <= r /\ r < e + CRT_COLS /\ (d = "line" => AtLine(r))
  /\ op = "column" => /\ t = Column(s) /\ p % CRT_COLS <= r /\ r < e + CRT_COLS
                      /\ d = "line" => r = p /\ CRT_COLS <= p
  /\ op = "down" => t = Down(s) /\ 0 <= r /\ r < e

AtPutting(C, op, t, s, p, r, e, d) ==
  /\ op = "blank" => t = Wipe(s) /\ d # "line"
  /\ op = "dec" => t = Back(s) /\ 0 < r /\ r < e /\ d # "line"
  /\ op = "write" => /\ d # "line"
                     /\ \E c \in C : t = Write(c, s) \/ (t = WriteInc(c, s) /\ 0 <= r /\ r < e)
  /\ op = "inc" => /\ d # "line" /\ 0 <= r /\ r < e
                   /\ \/ t = Inc(s)
                      \/ \E c \in C : t = IncWrite(c, s)

AtLoose(C, op, t, s, p, e, d) ==
  op = "load" =>
    \/ t = LoadUp(s) /\ CRT_COLS <= p /\ (d = "line" => AtLine(p - CRT_COLS))
    \/ t = Return(s) /\ (d = "line" => CRT_COLS <= p)
    \/ t = Newline(s) /\ p < e
    \/ t = Backspace(s) /\ 0 < p /\ p < e /\ d # "line"
    \/ d # "line" /\ p < e /\ \E c \in C : t = LoadInc(c, s) \/ t = LoadWrite(c, s)

LEMMA WhichInward ==
  ASSUME NEW C, NEW t, NEW s \in Seq(Step(C)), NEW p, NEW r, NEW e, NEW d,
         Inward(C, t, s, p, r, e, d)
  PROVE  /\ Inside(t) /\ 0 <= p /\ p < e + CRT_COLS
         /\ \A op : At(t, op) => /\ AtRising(op, t, s, p, r, e, d) /\ AtTurning(op, t, s, p, r, e, d)
                                 /\ AtPutting(C, op, t, s, p, r, e, d) /\ AtLoose(C, op, t, s, p, e, d)
<1> DEFINE Goal(op) ==
      /\ Inside(t)
      /\ AtRising(op, t, s, p, r, e, d) /\ AtTurning(op, t, s, p, r, e, d)
      /\ AtPutting(C, op, t, s, p, r, e, d) /\ AtLoose(C, op, t, s, p, e, d)
<1>1. ASSUME Rising(t, s, p, r, e, d), NEW op, At(t, op) PROVE Goal(op)
  BY <1>1, CgaHeads
  DEF At, Inside, CallOps, Rising, AtRising, AtTurning, AtPutting, AtLoose
<1>2. ASSUME Turning(t, s, p, r, e, d), NEW op, At(t, op) PROVE Goal(op)
  BY <1>2, CgaHeads
  DEF At, Inside, CallOps, Turning, AtRising, AtTurning, AtPutting, AtLoose
<1>3. ASSUME d # "line", Deleting(t, s, p, r, e), NEW op, At(t, op) PROVE Goal(op)
  BY <1>3, CgaHeads
  DEF At, Inside, CallOps, Deleting, AtRising, AtTurning, AtPutting, AtLoose
<1>4. ASSUME d # "line", NEW c \in C, Putting(t, s, c, p, r, e), NEW op, At(t, op) PROVE Goal(op)
  <2>1. /\ At(Write(c, s), "write") /\ At(IncWrite(c, s), "inc") /\ At(LoadInc(c, s), "load")
        /\ At(WriteInc(c, s), "write") /\ At(LoadWrite(c, s), "load") /\ At(Inc(s), "inc")
    BY CgaHeads, WriteHeads
  <2>2. op \in {"write", "inc", "load"} /\ Inside(t)
    BY <1>4, <2>1 DEF At, Putting, Inside, CallOps
  <2>3. AtPutting(C, op, t, s, p, r, e, d)
    <3>1. op # "blank" /\ op # "dec"
      BY <2>2
    <3>2. op = "write" => t = Write(c, s) \/ (t = WriteInc(c, s) /\ 0 <= r /\ r < e)
      BY <1>4, <2>1 DEF At, Putting
    <3>3. op = "inc" => 0 <= r /\ r < e /\ (t = Inc(s) \/ t = IncWrite(c, s))
      BY <1>4, <2>1 DEF At, Putting
    <3> QED  BY <1>4, <3>1, <3>2, <3>3 DEF AtPutting
  <2>4. AtLoose(C, op, t, s, p, e, d)
    BY <1>4, <2>1 DEF At, Putting, AtLoose
  <2> QED  BY <2>2, <2>3, <2>4 DEF AtRising, AtTurning
<1>5. \A op : At(t, op) => Goal(op)
  BY <1>1, <1>2, <1>3, <1>4 DEF Inward
<1>6. t # <<>>
  <2>1. ASSUME NEW c \in C, Putting(t, s, c, p, r, e) PROVE t # <<>>
    BY <2>1, CgaHeads, WriteHeads DEF At, Putting
  <2> QED  BY <2>1, CgaHeads DEF At, Inward, Rising, Turning, Deleting
<1>7. Inside(t)
  BY <1>5, <1>6 DEF At
<1> QED  BY <1>5, <1>7 DEF Inward

(* A call that began with a position below e is somewhere. *)
Going(C, e, d) ==
    /\ LooseType(C) /\ e \in {CRT_SIZE, CRT_SIZE + CRT_COLS} /\ d \in {"line", "any"}
    /\ Placed(C, todo[depth], crt_pos, reg[depth], e, d)

(* A step of the running context takes it to a place again.  It is within  *)
(* cga_putc then, or it was outside and is, or it has just left it.        *)
Moved(C, e, d) ==
    /\ todo' \in [Context -> Seq(Step(C))] /\ reg' \in [Context -> Int] /\ crt_pos' \in Int
    /\ \A c \in Context : c # depth => todo'[c] = todo[c] /\ reg'[c] = reg[c]
    /\ Placed(C, todo'[depth], crt_pos', reg'[depth], e, d)
    /\ \/ Inside(todo'[depth])
       \/ /\ ~Inside(todo[depth]) /\ crt_pos' = crt_pos
          /\ Behind(C, todo'[depth]) => Behind(C, todo[depth])
       \/ d = "line" => AtLine(crt_pos')

LEMMA WhichPlace ==
  ASSUME NEW C, NEW e, NEW d, Going(C, e, d), NEW op, Now(op), op \notin CallOps
  PROVE  \E s \in Seq(Step(C)), p, r \in Int :
           /\ \E w \in Seq(Shown(C)) : s = Trail(w)
           /\ p = crt_pos /\ r = reg[depth] /\ 0 <= p /\ p < e + CRT_COLS
           /\ AtRising(op, todo[depth], s, p, r, e, d) /\ AtTurning(op, todo[depth], s, p, r, e, d)
           /\ AtPutting(C, op, todo[depth], s, p, r, e, d) /\ AtLoose(C, op, todo[depth], s, p, e, d)
<1>1. At(todo[depth], op) /\ Inside(todo[depth])
  BY DEF Now, At, Inside
<1>2. ~Before(C, todo[depth], d) /\ ~Behind(C, todo[depth])
  BY <1>1, OutsideOnly
<1>3. PICK w \in Seq(Shown(C)) : Inward(C, todo[depth], Trail(w), crt_pos, reg[depth], e, d)
  BY <1>2 DEF Going, Placed
<1>4. PICK s \in Seq(Step(C)), p \in Int, r \in Int : s = Trail(w) /\ p = crt_pos /\ r = reg[depth]
  BY TrailBegins DEF Going, LooseType
<1>5. Inward(C, todo[depth], s, p, r, e, d)
  BY <1>3, <1>4
<1>6. /\ 0 <= p /\ p < e + CRT_COLS
      /\ AtRising(op, todo[depth], s, p, r, e, d) /\ AtTurning(op, todo[depth], s, p, r, e, d)
      /\ AtPutting(C, op, todo[depth], s, p, r, e, d) /\ AtLoose(C, op, todo[depth], s, p, e, d)
  BY <1>1, <1>5, WhichInward
<1> QED  BY <1>4, <1>6

(* The context goes on within cga_putc. *)
LEMMA GoesOn ==
  ASSUME NEW C, NEW e, NEW d, Going(C, e, d), NEW s \in Seq(Step(C)),
         \E w \in Seq(Shown(C)) : s = Trail(w),
         NEW u \in Seq(Step(C)), todo' = [todo EXCEPT ![depth] = u],
         NEW q \in Int, crt_pos' = q,
         NEW r \in Int, reg'[depth] = r, reg' \in [Context -> Int],
         \A c \in Context : c # depth => reg'[c] = reg[c],
         Inward(C, u, s, q, r, e, d)
  PROVE  Moved(C, e, d)
<1>1. Inside(u)
  BY WhichInward
<1>2. /\ todo' \in [Context -> Seq(Step(C))] /\ todo'[depth] = u
      /\ \A c \in Context : c # depth => todo'[c] = todo[c]
  BY DEF Going, LooseType
<1>3. Placed(C, u, q, r, e, d)
  BY DEF Placed
<1> QED  BY <1>1, <1>2, <1>3 DEF Moved

LEMMA DoneTo ==
  ASSUME NEW C, LooseType(C), NEW x, NEW u, Begins(C, todo[depth], x, u), Done
  PROVE  u \in Seq(Step(C)) /\ todo' = [todo EXCEPT ![depth] = u]
<1>1. u \in Seq(Step(C))
  BY HeadTailProperties DEF Begins
<1> QED  BY <1>1 DEF Begins, Done, Rest

(* The outcome of the comparison of crt_pos with CRT_SIZE. *)
LEMMA ChecksTo ==
  ASSUME NEW C, NEW s \in Seq(Step(C)), NEW full \in BOOLEAN,
         Begins(C, todo[depth], <<"check">>, Cursor(s)),
         Continue(IF full THEN ScrollSteps ELSE <<>>)
  PROVE  \E u \in Seq(Step(C)) : /\ todo' = [todo EXCEPT ![depth] = u]
                                 /\ u = IF full THEN Move(s) ELSE Cursor(s)
<1>1. Cursor(s) \in Seq(Step(C)) /\ Move(s) \in Seq(Step(C)) /\ Rest = Cursor(s)
  BY CgaBegins DEF Begins, Rest
<1>2. ScrollSteps \o Cursor(s) = Move(s)
  <2>1. <<"move">> \in Step(C) /\ <<"clear">> \in Step(C) /\ <<"load">> \in Step(C) /\ <<"up">> \in Step(C)
    BY StepIs DEF Op
  <2>2. Four(<<"move">>, <<"clear">>, <<"load">>, <<"up">>, Cursor(s))
    BY <1>1, <2>1, Lists
  <2> QED  BY <2>2, Zenon DEF Four, ScrollSteps, Move, Clear, LoadUp, Up, Then
<1>3. <<>> \o Cursor(s) = Cursor(s)
  BY <1>1, ConcatEmptySeq
<1>4. CASE full
  BY <1>1, <1>2, <1>4 DEF Continue
<1>5. CASE ~full
  BY <1>1, <1>3, <1>5 DEF Continue
<1> QED  BY <1>4, <1>5

LEMMA LooseCursor ==
  ASSUME NEW C, NEW e, NEW d, Going(C, e, d), SetCursor
  PROVE  Moved(C, e, d)
<1>1. Now("cursor") /\ "cursor" \notin CallOps
  BY DEF SetCursor, CallOps
<1>2. PICK s \in Seq(Step(C)), p, r \in Int :
           /\ \E w \in Seq(Shown(C)) : s = Trail(w)
           /\ p = crt_pos /\ r = reg[depth] /\ 0 <= p
           /\ AtRising("cursor", todo[depth], s, p, r, e, d)
  BY <1>1, WhichPlace
<1>3. todo[depth] = Cursor(s) /\ p < e /\ (d = "line" => AtLine(p))
  BY <1>2 DEF AtRising
<1>4. Begins(C, todo[depth], <<"cursor">>, s) /\ Done /\ LooseType(C)
  BY <1>3, CgaBegins DEF SetCursor, Going
<1>5. todo' = [todo EXCEPT ![depth] = s]
  BY <1>4, DoneTo
<1>6. /\ todo' \in [Context -> Seq(Step(C))] /\ todo'[depth] = s
      /\ \A c \in Context : c # depth => todo'[c] = todo[c]
  BY <1>4, <1>5 DEF LooseType
<1>7. crt_pos' = p /\ reg' = reg
  BY <1>2 DEF SetCursor
<1>8. Placed(C, s, p, r, e, d)
  BY <1>2, <1>3 DEF Placed, Behind
<1> QED  BY <1>2, <1>3, <1>4, <1>6, <1>7, <1>8 DEF Moved, LooseType

LEMMA LooseScroll ==
  ASSUME NEW C, NEW e, NEW d, Going(C, e, d), Scroll
  PROVE  Moved(C, e, d)
<1>1. PICK op \in {"move", "clear"} : Now(op) /\ op \notin CallOps
  BY DEF Scroll, CallOps
<1>2. PICK s \in Seq(Step(C)), p, r \in Int :
           /\ \E w \in Seq(Shown(C)) : s = Trail(w)
           /\ p = crt_pos /\ r = reg[depth] /\ 0 <= p /\ p < e + CRT_COLS
           /\ AtRising(op, todo[depth], s, p, r, e, d)
  BY <1>1, WhichPlace
<1>3. /\ todo[depth] = IF op = "move" THEN Move(s) ELSE Clear(s)
      /\ CRT_COLS <= p /\ (d = "line" => AtLine(p - CRT_COLS))
  BY <1>1, <1>2 DEF AtRising
<1>4. PICK x, u : /\ Begins(C, todo[depth], x, u) /\ u \in {Clear(s), LoadUp(s)}
  <2>1. CASE op = "move"
    BY <1>3, <2>1, CgaBegins
  <2>2. CASE op = "clear"
    BY <1>3, <2>2, CgaBegins
  <2> QED  BY <1>1, <2>1, <2>2
<1>5. Done /\ LooseType(C) /\ crt_pos' = p /\ reg' = reg
  BY <1>2 DEF Scroll, Going
<1>6. u \in Seq(Step(C)) /\ todo' = [todo EXCEPT ![depth] = u]
  BY <1>4, <1>5, DoneTo
<1>7. Inward(C, u, s, p, r, e, d)
  BY <1>2, <1>3, <1>4 DEF Inward, Rising
<1> QED  BY <1>2, <1>5, <1>6, <1>7, GoesOn DEF LooseType

LEMMA LooseStoreChar ==
  ASSUME NEW C, NEW e, NEW d, Going(C, e, d), StoreChar
  PROVE  Moved(C, e, d)
<1>1. PICK op \in {"write", "blank"} : Now(op) /\ op \notin CallOps
  BY DEF StoreChar, CallOps
<1>2. PICK s \in Seq(Step(C)), p, r \in Int :
           /\ \E w \in Seq(Shown(C)) : s = Trail(w)
           /\ p = crt_pos /\ r = reg[depth] /\ 0 <= p /\ p < e + CRT_COLS
           /\ AtPutting(C, op, todo[depth], s, p, r, e, d)
  BY <1>1, WhichPlace
<1>3. PICK x, u : /\ Begins(C, todo[depth], x, u) /\ Inward(C, u, s, p, r, e, d)
  <2>1. CASE op = "blank"
    <3>1. todo[depth] = Wipe(s) /\ d # "line"
      BY <1>2, <2>1 DEF AtPutting
    <3>2. Begins(C, todo[depth], <<"blank">>, Checks(s))
      BY <3>1, CgaBegins
    <3>3. Inward(C, Checks(s), s, p, r, e, d)
      BY <1>2, <3>1 DEF Inward, Rising
    <3> QED  BY <3>2, <3>3
  <2>2. CASE op = "write"
    <3>1. PICK c \in C : \/ todo[depth] = Write(c, s)
                         \/ todo[depth] = WriteInc(c, s) /\ 0 <= r /\ r < e
      BY <1>2, <2>2 DEF AtPutting
    <3>2. d # "line"
      BY <1>2, <2>2 DEF AtPutting
    <3>3. CASE todo[depth] = Write(c, s)
      <4>1. Begins(C, todo[depth], <<"write", c>>, Checks(s))
        BY <3>3, WriteBegins
      <4>2. Inward(C, Checks(s), s, p, r, e, d)
        BY <1>2, <3>2 DEF Inward, Rising
      <4> QED  BY <4>1, <4>2
    <3>4. CASE todo[depth] = WriteInc(c, s) /\ 0 <= r /\ r < e
      <4>1. Begins(C, todo[depth], <<"write", c>>, Inc(s))
        BY <3>4, WriteBegins
      <4>2. Inward(C, Inc(s), s, p, r, e, d)
        BY <1>2, <3>2, <3>4 DEF Inward, Putting
      <4> QED  BY <4>1, <4>2
    <3> QED  BY <3>1, <3>3, <3>4
  <2> QED  BY <1>1, <2>1, <2>2
<1>4. Done /\ LooseType(C) /\ crt_pos' = p /\ reg' = reg
  BY <1>2 DEF StoreChar, Going
<1>5. u \in Seq(Step(C)) /\ todo' = [todo EXCEPT ![depth] = u]
  BY <1>3, <1>4, DoneTo
<1> QED  BY <1>2, <1>3, <1>4, <1>5, GoesOn DEF LooseType

LEMMA LooseStorePos ==
  ASSUME Sizes, Tall, NEW C, NEW e, NEW d, Going(C, e, d), StorePos
  PROVE  Moved(C, e, d)
<1>1. PICK op \in {"dec", "inc", "down", "home", "up"} :
        /\ Now(op) /\ op \notin CallOps
        /\ op = "dec" => crt_pos' = reg[depth] - 1
        /\ op = "inc" => crt_pos' = reg[depth] + 1
        /\ op = "down" => crt_pos' = reg[depth] + CRT_COLS
        /\ op = "home" => crt_pos' = reg[depth]
        /\ op = "up" => crt_pos' = reg[depth] - CRT_COLS
  BY DEF StorePos, CallOps
<1>2. PICK s \in Seq(Step(C)), p, r \in Int :
           /\ \E w \in Seq(Shown(C)) : s = Trail(w)
           /\ p = crt_pos /\ r = reg[depth] /\ 0 <= p /\ p < e + CRT_COLS
           /\ AtRising(op, todo[depth], s, p, r, e, d) /\ AtTurning(op, todo[depth], s, p, r, e, d)
           /\ AtPutting(C, op, todo[depth], s, p, r, e, d)
  BY <1>1, WhichPlace
<1>3. PICK n, k, z \in Nat : /\ n = CRT_SIZE /\ k = CRT_COLS /\ z = e /\ k >= 1 /\ k + k <= n
                             /\ z = n \/ z = n + k
  BY Rows DEF Going
<1>4. ASSUME NEW x, NEW u, NEW q \in Int, crt_pos' = q, Begins(C, todo[depth], x, u),
             Inward(C, u, s, q, r, e, d)
      PROVE  Moved(C, e, d)
  <2>1. Done /\ LooseType(C) /\ reg' = reg
    BY DEF StorePos, Going
  <2>2. u \in Seq(Step(C)) /\ todo' = [todo EXCEPT ![depth] = u]
    BY <1>4, <2>1, DoneTo
  <2> QED  BY <1>2, <1>4, <2>1, <2>2, GoesOn DEF LooseType
<1>5. CASE op = "dec"
  <2>1. todo[depth] = Back(s) /\ 0 < r /\ r < e /\ d # "line"
    BY <1>2, <1>5 DEF AtPutting
  <2>2. PICK q \in Int : q = r - 1
    OBVIOUS
  <2>3. Begins(C, todo[depth], <<"dec">>, Wipe(s)) /\ crt_pos' = q
    BY <1>1, <1>2, <1>5, <2>1, <2>2, CgaBegins
  <2>4. 0 <= q /\ q < e + CRT_COLS
    BY <1>3, <2>1, <2>2
  <2>5. Inward(C, Wipe(s), s, q, r, e, d)
    BY <2>1, <2>4 DEF Inward, Deleting
  <2> QED  BY <1>4, <2>3, <2>5
<1>6. CASE op = "inc"
  <2>1. d # "line" /\ 0 <= r /\ r < e
    BY <1>2, <1>6 DEF AtPutting
  <2>2. PICK q \in Int : q = r + 1
    OBVIOUS
  <2>3. crt_pos' = q /\ 0 <= q /\ q < e + CRT_COLS
    BY <1>1, <1>2, <1>3, <1>6, <2>1, <2>2
  <2>4. CASE todo[depth] = Inc(s)
    <3>1. Begins(C, todo[depth], <<"inc">>, Checks(s))
      BY <2>4, CgaBegins
    <3>2. Inward(C, Checks(s), s, q, r, e, d)
      BY <2>1, <2>3 DEF Inward, Rising
    <3> QED  BY <1>4, <2>3, <3>1, <3>2
  <2>5. ASSUME NEW c \in C, todo[depth] = IncWrite(c, s) PROVE Moved(C, e, d)
    <3>1. Begins(C, todo[depth], <<"inc">>, Write(c, s))
      BY <2>5, WriteBegins
    <3>2. Inward(C, Write(c, s), s, q, r, e, d)
      BY <2>1, <2>3 DEF Inward, Putting
    <3> QED  BY <1>4, <2>3, <3>1, <3>2
  <2> QED  BY <1>2, <1>6, <2>4, <2>5 DEF AtPutting
<1>7. CASE op = "down"
  <2>1. todo[depth] = Down(s) /\ 0 <= r /\ r < e
    BY <1>2, <1>7 DEF AtTurning
  <2>2. PICK q \in Int : q = r + k
    OBVIOUS
  <2>3. Begins(C, todo[depth], <<"down">>, Return(s)) /\ crt_pos' = q
    BY <1>1, <1>2, <1>3, <1>7, <2>1, <2>2, CgaBegins
  <2>4. 0 <= q /\ q < e + CRT_COLS /\ CRT_COLS <= q
    BY <1>3, <2>1, <2>2
  <2>5. Inward(C, Return(s), s, q, r, e, d)
    BY <2>4 DEF Inward, Turning
  <2> QED  BY <1>4, <2>3, <2>5
<1>8. CASE op = "home"
  <2>1. todo[depth] = Home(s) /\ 0 <= r /\ r < e + CRT_COLS /\ (d = "line" => AtLine(r))
    BY <1>2, <1>8 DEF AtTurning
  <2>2. Begins(C, todo[depth], <<"home">>, Checks(s)) /\ crt_pos' = r
    BY <1>1, <1>2, <1>8, <2>1, CgaBegins
  <2>3. Inward(C, Checks(s), s, r, r, e, d)
    BY <2>1 DEF Inward, Rising
  <2> QED  BY <1>4, <2>2, <2>3
<1>9. CASE op = "up"
  <2>1. todo[depth] = Up(s) /\ CRT_COLS <= r /\ r < e + CRT_COLS /\ (d = "line" => AtLine(r - CRT_COLS))
    BY <1>2, <1>9 DEF AtRising
  <2>2. PICK q \in Int : q = r - k
    OBVIOUS
  <2>3. q = r - CRT_COLS
    BY <1>3, <2>2
  <2>4. Begins(C, todo[depth], <<"up">>, Cursor(s)) /\ crt_pos' = q
    BY <1>1, <1>2, <1>9, <2>1, <2>3, CgaBegins
  <2>5. 0 <= q /\ q < e /\ q < e + CRT_COLS
    BY <1>3, <2>1, <2>2
  <2>6. Inward(C, Cursor(s), s, q, r, e, d)
    BY <2>1, <2>3, <2>5 DEF Inward, Rising
  <2> QED  BY <1>4, <2>4, <2>6
<1> QED  BY <1>1, <1>5, <1>6, <1>7, <1>8, <1>9

LEMMA LooseLoad ==
  ASSUME Sizes, Tall, NEW C, NEW e, NEW d, Going(C, e, d), Load
  PROVE  Moved(C, e, d)
<1>1. PICK op \in {"load", "column"} :
        /\ Now(op) /\ op \notin CallOps
        /\ op = "load" => reg' = [reg EXCEPT ![depth] = crt_pos]
        /\ op = "column" => reg' = [reg EXCEPT ![depth] = @ - (crt_pos % CRT_COLS)]
  BY DEF Load, CallOps
<1>2. PICK s \in Seq(Step(C)), p, r \in Int :
           /\ \E w \in Seq(Shown(C)) : s = Trail(w)
           /\ p = crt_pos /\ r = reg[depth] /\ 0 <= p /\ p < e + CRT_COLS
           /\ AtTurning(op, todo[depth], s, p, r, e, d) /\ AtLoose(C, op, todo[depth], s, p, e, d)
  BY <1>1, WhichPlace
<1>3. PICK n, k, z \in Nat : /\ n = CRT_SIZE /\ k = CRT_COLS /\ z = e /\ k >= 1 /\ k + k <= n
                             /\ z = n \/ z = n + k
  BY Rows DEF Going
<1>4. p \in Nat
  BY <1>2
<1>5. PICK m \in Nat : m = p % CRT_COLS /\ m <= p
  BY <1>4, LineFacts
<1>6. Done /\ LooseType(C) /\ crt_pos' = p
  BY <1>2 DEF Load, Going, screen
<1>7. ASSUME NEW x, NEW u, NEW v \in Int, reg' = [reg EXCEPT ![depth] = v],
             Begins(C, todo[depth], x, u), Inward(C, u, s, p, v, e, d)
      PROVE  Moved(C, e, d)
  <2>1. /\ reg' \in [Context -> Int] /\ reg'[depth] = v
        /\ \A c \in Context : c # depth => reg'[c] = reg[c]
    BY <1>6, <1>7 DEF LooseType
  <2>2. u \in Seq(Step(C)) /\ todo' = [todo EXCEPT ![depth] = u]
    BY <1>6, <1>7, DoneTo
  <2> QED  BY <1>2, <1>6, <1>7, <2>1, <2>2, GoesOn
<1>8. CASE op = "load"
  <2>0. reg' = [reg EXCEPT ![depth] = p]
    BY <1>1, <1>2, <1>8
  <2>1. CASE todo[depth] = LoadUp(s) /\ CRT_COLS <= p /\ (d = "line" => AtLine(p - CRT_COLS))
    <3>1. Begins(C, todo[depth], <<"load">>, Up(s))
      BY <2>1, CgaBegins
    <3>2. Inward(C, Up(s), s, p, p, e, d)
      BY <1>2, <2>1 DEF Inward, Rising
    <3> QED  BY <1>7, <2>0, <3>1, <3>2
  <2>2. CASE todo[depth] = Return(s) /\ (d = "line" => CRT_COLS <= p)
    <3>1. Begins(C, todo[depth], <<"load">>, Column(s))
      BY <2>2, CgaBegins
    <3>2. Inward(C, Column(s), s, p, p, e, d)
      BY <1>2, <1>5, <2>2 DEF Inward, Turning
    <3> QED  BY <1>7, <2>0, <3>1, <3>2
  <2>3. CASE todo[depth] = Newline(s) /\ p < e
    <3>1. Begins(C, todo[depth], <<"load">>, Down(s))
      BY <2>3, CgaBegins
    <3>2. Inward(C, Down(s), s, p, p, e, d)
      BY <1>2, <2>3 DEF Inward, Turning
    <3> QED  BY <1>7, <2>0, <3>1, <3>2
  <2>4. CASE todo[depth] = Backspace(s) /\ 0 < p /\ p < e /\ d # "line"
    <3>1. Begins(C, todo[depth], <<"load">>, Back(s))
      BY <2>4, CgaBegins
    <3>2. Inward(C, Back(s), s, p, p, e, d)
      BY <1>2, <2>4 DEF Inward, Deleting
    <3> QED  BY <1>7, <2>0, <3>1, <3>2
  <2>5. ASSUME d # "line", p < e, NEW c \in C,
               todo[depth] = LoadInc(c, s) \/ todo[depth] = LoadWrite(c, s)
        PROVE  Moved(C, e, d)
    <3>1. PICK u : /\ Begins(C, todo[depth], <<"load">>, u)
                   /\ u = IncWrite(c, s) \/ u = WriteInc(c, s)
      BY <2>5, WriteBegins
    <3>2. Inward(C, u, s, p, p, e, d)
      BY <1>2, <2>5, <3>1 DEF Inward, Putting
    <3> QED  BY <1>7, <2>0, <3>1, <3>2
  <2> QED  BY <1>2, <1>8, <2>1, <2>2, <2>3, <2>4, <2>5 DEF AtLoose
<1>9. CASE op = "column"
  <2>1. /\ todo[depth] = Column(s) /\ m <= r /\ r < e + CRT_COLS
        /\ d = "line" => r = p /\ CRT_COLS <= p
    BY <1>2, <1>5, <1>9 DEF AtTurning
  <2>2. PICK v \in Int : v = r - m
    OBVIOUS
  <2>3. reg' = [reg EXCEPT ![depth] = v]
    BY <1>1, <1>2, <1>5, <1>6, <1>9, <2>2 DEF LooseType
  <2>4. Begins(C, todo[depth], <<"column">>, Home(s))
    BY <2>1, CgaBegins
  <2>5. 0 <= v /\ v < e + CRT_COLS
    BY <1>3, <2>1, <2>2
  <2>6. d = "line" => AtLine(v)
    <3>1. d = "line" => AtLine(p - (p % CRT_COLS))
      BY <1>4, <2>1, LineFacts
    <3>2. d = "line" => v = p - (p % CRT_COLS)
      BY <1>5, <2>1, <2>2
    <3> QED  BY <3>1, <3>2
  <2>7. Inward(C, Home(s), s, p, v, e, d)
    BY <1>2, <2>5, <2>6 DEF Inward, Turning
  <2> QED  BY <1>7, <2>3, <2>4, <2>7
<1> QED  BY <1>1, <1>8, <1>9

LEMMA LooseCheck ==
  ASSUME Sizes, Tall, NEW C, NEW e, NEW d, Going(C, e, d), Check
  PROVE  Moved(C, e, d)
<1>1. Now("check") /\ "check" \notin CallOps
  BY DEF Check, CallOps
<1>2. PICK s \in Seq(Step(C)), p, r \in Int :
           /\ \E w \in Seq(Shown(C)) : s = Trail(w)
           /\ p = crt_pos /\ r = reg[depth] /\ 0 <= p /\ p < e + CRT_COLS
           /\ AtRising("check", todo[depth], s, p, r, e, d)
  BY <1>1, WhichPlace
<1>3. PICK n, k, z \in Nat : /\ n = CRT_SIZE /\ k = CRT_COLS /\ z = e /\ k >= 1 /\ k + k <= n
                             /\ z = n \/ z = n + k
  BY Rows DEF Going
<1>4. todo[depth] = Checks(s) /\ (d = "line" => AtLine(p))
  BY <1>2 DEF AtRising
<1>5. /\ LooseType(C) /\ crt_pos' = p /\ reg' = reg
      /\ Continue(IF p >= n THEN ScrollSteps ELSE <<>>)
  BY <1>2, <1>3 DEF Check, Going, screen
<1>6. Begins(C, todo[depth], <<"check">>, Cursor(s))
  BY <1>4, CgaBegins
<1>7. PICK u \in Seq(Step(C)) : /\ todo' = [todo EXCEPT ![depth] = u]
                               /\ u = IF p >= n THEN Move(s) ELSE Cursor(s)
  BY <1>5, <1>6, ChecksTo
<1>8. Inward(C, u, s, p, r, e, d)
  <2>1. CASE p >= n
    <3>1. CRT_COLS <= p
      BY <1>3, <2>1
    <3>2. d = "line" => AtLine(p - CRT_COLS)
      <4>1. p \in Nat /\ CRT_COLS + CRT_COLS <= p
        BY <1>2, <1>3, <2>1
      <4> QED  BY <1>4, <4>1, LineFacts
    <3> QED  BY <1>2, <1>7, <2>1, <3>1, <3>2 DEF Inward, Rising
  <2>2. CASE ~(p >= n)
    <3>1. p < e
      BY <1>3, <2>2
    <3> QED  BY <1>2, <1>4, <1>7, <2>2, <3>1 DEF Inward, Rising
  <2> QED  BY <2>1, <2>2
<1> QED  BY <1>2, <1>5, <1>7, <1>8, GoesOn DEF LooseType

LEMMA LooseCga ==
  ASSUME Sizes, Tall, NEW C, NEW e, NEW d, Going(C, e, d), CgaPutc
  PROVE  Moved(C, e, d)
<1>1. todo[depth] # <<>> /\ Head(todo[depth])[1] = "cga" /\ ~Inside(todo[depth])
  BY DEF CgaPutc, Now, Inside, CallOps
<1>2. ~Behind(C, todo[depth])
  BY <1>1, OutsideOnly
<1>3. \A w \in Seq(Shown(C)) : ~Inward(C, todo[depth], Trail(w), crt_pos, reg[depth], e, d)
  BY <1>1, WhichInward, TrailBegins
<1>4. PICK p, r \in Int : p = crt_pos /\ r = reg[depth]
  BY DEF Going, LooseType
<1>5. 0 <= p /\ p < e /\ Before(C, todo[depth], d)
  BY <1>2, <1>3, <1>4 DEF Going, Placed
<1>6. PICK l, w \in Seq(Shown(C)), c \in C : todo[depth] = Lead(l, c, w) /\ (d = "line" => c = NL)
  BY <1>5 DEF Before
<1>7. Begins(C, todo[depth], <<"cga", c>>, Trail(w))
  <2>1. ASSUME l # <<>> PROVE FALSE
    <3>1. Begins(C, todo[depth], <<"lpt", Head(l)>>, Lead(Tail(l), c, w))
      BY <1>6, <2>1, LeadBegins
    <3>2. At(todo[depth], "lpt")
      BY <3>1, BeginsAt
    <3> QED  BY <1>1, <3>2 DEF At
  <2>2. l = <<>>
    BY <2>1
  <2> QED  BY <1>6, <2>2, LeadBegins
<1>8. PICK s \in Seq(Step(C)) : s = Trail(w)
  BY TrailBegins
<1>9. Rest = s /\ Operand = c
  BY <1>7, <1>8 DEF Begins, Rest, Operand
<1>10. PICK steps \in CgaSteps(c) : Continue(steps \o << <<"check">>, <<"cursor">> >>)
  BY <1>9 DEF CgaPutc
<1>11. PICK u : CgaLists(C, c, steps, s, u)
  BY CgaListsAre
<1>12. u \in Seq(Step(C)) /\ todo' = [todo EXCEPT ![depth] = u]
  BY <1>9, <1>10, <1>11 DEF Continue, CgaLists
<1>13. PICK n, k, z \in Nat : /\ n = CRT_SIZE /\ k = CRT_COLS /\ z = e /\ k >= 1
  BY Rows DEF Going
<1>14. p < e + CRT_COLS
  BY <1>5, <1>13
<1>15. BS # NL /\ BS # CR /\ NL # CR
  BY DEF BS, NL, CR
<1>16. Inward(C, u, s, p, r, e, d)
  <2>1. CASE c = BS
    <3>1. d # "line"
      BY <1>6, <1>15, <2>1
    <3>2. CASE p > 0
      <4>1. u = Backspace(s) /\ 0 < p
        BY <1>4, <1>11, <2>1, <3>2 DEF CgaLists
      <4> QED  BY <1>5, <1>14, <3>1, <4>1 DEF Inward, Deleting
    <3>3. CASE ~(p > 0)
      <4>1. u = Checks(s)
        BY <1>4, <1>11, <2>1, <3>3 DEF CgaLists
      <4> QED  BY <1>5, <1>14, <3>1, <4>1 DEF Inward, Rising
    <3> QED  BY <3>2, <3>3
  <2>2. CASE c = NL
    <3>1. u = Newline(s)
      BY <1>11, <2>2 DEF CgaLists
    <3> QED  BY <1>5, <1>14, <3>1 DEF Inward, Turning
  <2>3. CASE c = CR
    <3>1. u = Return(s) /\ d # "line"
      BY <1>6, <1>11, <1>15, <2>3 DEF CgaLists
    <3> QED  BY <1>5, <1>14, <3>1 DEF Inward, Turning
  <2>4. CASE c \notin {BS, NL, CR}
    <3>1. (u = LoadInc(c, s) \/ u = LoadWrite(c, s)) /\ d # "line"
      BY <1>6, <1>11, <2>4 DEF CgaLists
    <3> QED  BY <1>5, <1>14, <3>1 DEF Inward, Putting
  <2> QED  BY <2>1, <2>2, <2>3, <2>4
<1>17. LooseType(C) /\ crt_pos' = p /\ reg' = reg
  BY <1>4 DEF CgaPutc, Going, screen
<1> QED  BY <1>4, <1>8, <1>12, <1>16, <1>17, GoesOn DEF LooseType

(* A place outside of cga_putc. *)
LEMMA StaysOut ==
  ASSUME NEW C, NEW e, NEW d, Going(C, e, d), ~Inside(todo[depth])
  PROVE  0 <= crt_pos /\ crt_pos < e /\ (Before(C, todo[depth], d) \/ Behind(C, todo[depth]))
<1>1. \A w \in Seq(Shown(C)) : ~Inward(C, todo[depth], Trail(w), crt_pos, reg[depth], e, d)
  BY WhichInward, TrailBegins
<1> QED  BY <1>1 DEF Going, Placed

(* A byte for a port. *)
LEMMA LoosePorts ==
  ASSUME NEW C, NEW e, NEW d, Going(C, e, d), LptSend \/ SerialSend
  PROVE  Moved(C, e, d)
<1>1. PICK op \in {"lpt", "serial"} :
        todo[depth] # <<>> /\ Head(todo[depth])[1] = op /\ ~Inside(todo[depth])
  BY DEF LptSend, SerialSend, Now, Inside, CallOps
<1>2. PICK p, r \in Int : p = crt_pos /\ r = reg[depth]
  BY DEF Going, LooseType
<1>3. 0 <= p /\ p < e /\ (Before(C, todo[depth], d) \/ Behind(C, todo[depth]))
  BY <1>1, <1>2, StaysOut
<1>4. LooseType(C) /\ Done /\ crt_pos' = p /\ reg' = reg
  BY <1>2 DEF LptSend, SerialSend, Going, screen
<1>5. ASSUME NEW x, NEW u, Begins(C, todo[depth], x, u), Before(C, u, d) \/ Behind(C, u),
             Behind(C, u) => Behind(C, todo[depth])
      PROVE  Moved(C, e, d)
  <2>1. u \in Seq(Step(C)) /\ todo' = [todo EXCEPT ![depth] = u]
    BY <1>4, <1>5, DoneTo
  <2>2. /\ todo' \in [Context -> Seq(Step(C))] /\ todo'[depth] = u
        /\ \A c \in Context : c # depth => todo'[c] = todo[c]
    BY <1>4, <2>1 DEF LooseType
  <2>3. Placed(C, u, p, r, e, d)
    BY <1>3, <1>5 DEF Placed
  <2> QED  BY <1>1, <1>2, <1>4, <1>5, <2>2, <2>3 DEF Moved, LooseType
<1>6. CASE Before(C, todo[depth], d)
  <2>1. PICK l, w \in Seq(Shown(C)), c \in C : todo[depth] = Lead(l, c, w) /\ (d = "line" => c = NL)
    BY <1>6 DEF Before
  <2>2. l # <<>>
    <3>1. ASSUME l = <<>> PROVE FALSE
      <4>1. Begins(C, todo[depth], <<"cga", c>>, Trail(w))
        BY <2>1, <3>1, LeadBegins
      <4>2. At(todo[depth], "cga")
        BY <4>1, BeginsAt
      <4> QED  BY <1>1, <4>2 DEF At
    <3> QED  BY <3>1
  <2>3. Begins(C, todo[depth], <<"lpt", Head(l)>>, Lead(Tail(l), c, w))
    BY <2>1, <2>2, LeadBegins
  <2>4. Before(C, Lead(Tail(l), c, w), d)
    <3>1. Tail(l) \in Seq(Shown(C))
      BY <2>2, HeadTailProperties
    <3> QED  BY <2>1, <3>1 DEF Before
  <2>5. ~Behind(C, Lead(Tail(l), c, w))
    BY <2>4, OutsideOnly
  <2> QED  BY <1>5, <2>3, <2>4, <2>5
<1>7. CASE Behind(C, todo[depth])
  <2>1. PICK w \in Seq(Shown(C)) : todo[depth] = Trail(w)
    BY <1>7 DEF Behind
  <2>2. w # <<>>
    BY <1>1, <2>1, TrailBegins
  <2>3. Begins(C, todo[depth], <<"serial", Head(w)>>, Trail(Tail(w)))
    BY <2>1, <2>2, TrailBegins
  <2>4. Behind(C, Trail(Tail(w)))
    <3>1. Tail(w) \in Seq(Shown(C))
      BY <2>2, HeadTailProperties
    <3> QED  BY <3>1 DEF Behind
  <2> QED  BY <1>5, <1>7, <2>3, <2>4
<1> QED  BY <1>3, <1>6, <1>7

LEMMA LooseWait ==
  ASSUME NEW C, NEW e, NEW d, Going(C, e, d), PortWait
  PROVE  Moved(C, e, d)
<1>1. todo[depth] # <<>> /\ ~Inside(todo[depth])
  BY DEF PortWait, Now, Inside, CallOps
<1>2. UNCHANGED <<todo, reg, crt_pos>>
  BY DEF PortWait, screen
<1> QED  BY <1>1, <1>2 DEF Moved, Going, LooseType

(* There is no section to enter or to leave. *)
LEMMA NoSection ==
  ASSUME NEW C, NEW e, NEW d, Going(C, e, d)
  PROVE  ~Save /\ ~Restore
<1>1. ASSUME NEW op \in {"save", "restore"}, Now(op) PROVE FALSE
  <2>1. todo[depth] # <<>> /\ Head(todo[depth])[1] = op /\ ~Inside(todo[depth])
    BY <1>1 DEF Now, Inside, CallOps
  <2>2. Before(C, todo[depth], d) \/ Behind(C, todo[depth])
    BY <2>1, StaysOut
  <2>3. Head(todo[depth])[1] \in {"lpt", "cga", "serial"}
    BY <2>1, <2>2, OutsideOnly
  <2> QED  BY <2>1, <2>3
<1> QED  BY <1>1 DEF Save, Restore

Within == \/ PortWait \/ LptSend \/ SerialSend
          \/ CgaPutc \/ Load \/ StorePos \/ StoreChar \/ Check \/ Scroll \/ SetCursor

LEMMA WithinMoves ==
  ASSUME Sizes, Tall, NEW C, NEW e, NEW d, Going(C, e, d), Within
  PROVE  Moved(C, e, d) /\ depth' = depth /\ text' = text
<1>1. Moved(C, e, d)
  BY LooseWait, LoosePorts, LooseCga, LooseLoad, LooseStorePos, LooseStoreChar, LooseCheck, LooseScroll,
     LooseCursor DEF Within
<1>2. depth' = depth /\ text' = text
  BY DEF Within, PortWait, LptSend, SerialSend, CgaPutc, Load, StorePos, StoreChar, Check, Scroll,
         SetCursor
<1> QED  BY <1>1, <1>2

-----------------------------------------------------------------------------
(* The main line and the handler                                           *)

(* The main line goes on from any start of a line the handler leaves. *)
LEMMA Resumes ==
  ASSUME Sizes, Tall, NEW C, NEW t, NEW q \in Int, NEW r \in Int, NEW p \in Int,
         Placed(C, t, q, r, CRT_SIZE, "any"), AtLine(p), p < Room(q)
  PROVE  Placed(C, t, p, r, CRT_SIZE, "any")
<1>1. PICK n, k \in Nat : n = CRT_SIZE /\ k = CRT_COLS /\ k >= 1 /\ k + k <= n
  BY Rows
<1>2. /\ p % CRT_COLS = 0 /\ k <= p /\ 0 <= p /\ 0 < p
      /\ p < n + k /\ (q < n => p < n)
  BY <1>1 DEF AtLine, Room
<1>3. CASE 0 <= q /\ q < CRT_SIZE /\ (Before(C, t, "any") \/ Behind(C, t))
  BY <1>1, <1>2, <1>3 DEF Placed
<1>4. ASSUME NEW w \in Seq(Shown(C)), Inward(C, t, Trail(w), q, r, CRT_SIZE, "any")
      PROVE  Inward(C, t, Trail(w), p, r, CRT_SIZE, "any")
  <2>1. PICK s : s = Trail(w)
    OBVIOUS
  <2>2. Inward(C, t, s, q, r, n, "any")
    BY <1>1, <1>4, <2>1
  <2>3. Rising(t, s, q, r, n, "any") => Rising(t, s, p, r, n, "any")
    BY <1>1, <1>2 DEF Rising
  <2>4. Turning(t, s, q, r, n, "any") => Turning(t, s, p, r, n, "any")
    <3>1. q \in Nat /\ q % CRT_COLS \in Nat
      <4>1. q \in Nat
        BY <2>2 DEF Inward
      <4> QED  BY <4>1, LineFacts
    <3>2. q % CRT_COLS <= r => p % CRT_COLS <= r
      BY <1>2, <3>1
    <3> QED  BY <1>1, <1>2, <3>2 DEF Turning
  <2>5. Deleting(t, s, q, r, n) => Deleting(t, s, p, r, n)
    BY <1>1, <1>2 DEF Deleting
  <2>6. ASSUME NEW c \in C, Putting(t, s, c, q, r, n) PROVE Putting(t, s, c, p, r, n)
    BY <1>1, <1>2, <2>6 DEF Putting
  <2>7. Inward(C, t, s, p, r, n, "any")
    BY <1>1, <1>2, <2>2, <2>3, <2>4, <2>5, <2>6 DEF Inward
  <2> QED  BY <1>1, <2>1, <2>7
<1> QED  BY <1>3, <1>4 DEF Placed

LEMMA WhereMain ==
  ASSUME Sizes, Tall, NEW C, NEW t, NEW q \in Int, NEW r, Placed(C, t, q, r, CRT_SIZE, "any")
  PROVE  /\ 0 <= q /\ q < Room(q) /\ Room(q) \in {CRT_SIZE, CRT_SIZE + CRT_COLS}
         /\ ~Inside(t) => q < CRT_SIZE
<1>1. PICK n, k \in Nat : n = CRT_SIZE /\ k = CRT_COLS /\ k >= 1
  BY Rows
<1>2. 0 <= q /\ q < n + k /\ (~Inside(t) => q < n)
  <2>1. CASE 0 <= q /\ q < CRT_SIZE
    BY <1>1, <2>1
  <2>2. ASSUME NEW w \in Seq(Shown(C)), Inward(C, t, Trail(w), q, r, CRT_SIZE, "any")
        PROVE  0 <= q /\ q < n + k /\ Inside(t)
    <3>1. Trail(w) \in Seq(Step(C))
      BY TrailBegins
    <3>2. Inside(t) /\ 0 <= q /\ q < CRT_SIZE + CRT_COLS
      BY <2>2, <3>1, WhichInward
    <3> QED  BY <1>1, <3>2
  <2> QED  BY <2>1, <2>2 DEF Placed
<1> QED  BY <1>1, <1>2 DEF Room

(* While the main line is interrupted nothing changes for it. *)
LEMMA MainWaits ==
  ASSUME NEW C, NEW q, MainGoesOn(C, q), todo'[Main] = todo[Main], reg'[Main] = reg[Main], q' = q
  PROVE  MainGoesOn(C, q)'
BY DEF MainGoesOn, Placed, Inward, Rising, Turning, Deleting, Putting, Before, Behind, AtLine

LEMMA Contexts == Main \in Context /\ Handler \in Context /\ Main # Handler /\ Context = {Main, Handler}
BY DEF Context, Main, Handler

LEMMA SettledIs ==
  Settled <=> ~Inside(todo[Main]) /\ ~Inside(todo[Handler])
BY Contexts DEF Settled, InCga, Inside, CallOps

LEMMA SettledPrimed ==
  Settled' <=> ~Inside(todo'[Main]) /\ ~Inside(todo'[Handler])
BY Contexts DEF Settled, InCga, Inside, CallOps

(* What is behind the first character of a text. *)
LEMMA LastOfText ==
  ASSUME NEW C, NEW x \in Seq(C), x # <<>>, x[Len(x)] = NL
  PROVE  /\ Tail(x) = <<>> => Head(x) = NL
         /\ Tail(x) = <<>> \/ Tail(x)[Len(Tail(x))] = NL
<1>1. PICK n \in Nat : n = Len(x) /\ n >= 1
  BY EmptySeq
<1>2. /\ Tail(x) \in Seq(C) /\ Len(Tail(x)) = n - 1 /\ Head(x) = x[1]
      /\ \A i \in 1 .. n - 1 : Tail(x)[i] = x[i + 1]
  BY <1>1, HeadTailProperties
<1>3. CASE n = 1
  <2>1. PICK z \in Seq(C) : z = Tail(x)
    BY <1>2
  <2>2. Len(z) = 0
    BY <1>2, <1>3, <2>1
  <2>3. z = <<>>
    BY <2>2, EmptySeq
  <2> QED  BY <1>1, <1>2, <1>3, <2>1, <2>3
<1>4. CASE n # 1
  <2>1. n - 1 \in 1 .. n - 1 /\ (n - 1) + 1 = n
    BY <1>1, <1>4
  <2>2. Tail(x)[n - 1] = NL
    BY <1>1, <1>2, <2>1
  <2>3. Tail(x) # <<>>
    <3>1. PICK z \in Seq(C) : z = Tail(x)
      BY <1>2
    <3>2. Len(z) # 0
      BY <1>1, <1>2, <1>4, <3>1
    <3> QED  BY <3>1, <3>2, EmptySeq
  <2> QED  BY <1>2, <2>2, <2>3
<1> QED  BY <1>3, <1>4

LEMMA LooseMain ==
  ASSUME Sizes, Tall, NEW C, Loose(C), depth = Main, Within
  PROVE  Loose(C)'
<1>1. Going(C, CRT_SIZE, "any")
  BY DEF Going, Loose, PlacesInv, MainGoesOn
<1>2. Moved(C, CRT_SIZE, "any") /\ depth' = Main /\ text' = text
  BY <1>1, WithinMoves
<1>3. LooseType(C)' /\ LinesInv'
  BY <1>2, Contexts DEF Moved, Loose, LooseType, LinesInv
<1>4. todo'[Handler] = <<>> /\ todo[Handler] = <<>>
  BY <1>2, Contexts DEF Moved, Loose, PlacesInv
<1>5. PlacesInv(C)'
  <2>1. Placed(C, todo'[Main], crt_pos', reg'[Main], CRT_SIZE, "any")
    BY <1>2 DEF Moved
  <2>2. MainGoesOn(C, crt_pos)'
    BY <2>1 DEF MainGoesOn, Placed, Inward, Rising, Turning, Deleting, Putting, Before, Behind, AtLine
  <2> QED  BY <1>2, <1>4, <2>2, Contexts DEF PlacesInv
<1> QED  BY <1>3, <1>5 DEF Loose

LEMMA LooseHandler ==
  ASSUME Sizes, Tall, NEW C, Loose(C), depth = Handler, Within
  PROVE  Loose(C)'
<1>1. PICK q \in Int : /\ MainGoesOn(C, q)
                       /\ Placed(C, todo[Handler], crt_pos, reg[Handler], Room(q), Demand)
  BY DEF Loose, PlacesInv
<1>2. PICK e, d : e = Room(q) /\ d = Demand
  OBVIOUS
<1>3. e \in {CRT_SIZE, CRT_SIZE + CRT_COLS} /\ d \in {"line", "any"} /\ (text[Handler] = <<>> => d = "line")
  BY <1>1, <1>2, WhereMain DEF MainGoesOn, Demand
<1>4. Going(C, e, d)
  BY <1>1, <1>2, <1>3 DEF Going, Loose
<1>5. Moved(C, e, d) /\ depth' = Handler /\ text' = text
  BY <1>4, WithinMoves
<1>6. LooseType(C)' /\ LinesInv'
  BY <1>5, Contexts DEF Moved, Loose, LooseType, LinesInv
<1>7. todo'[Main] = todo[Main] /\ reg'[Main] = reg[Main]
  BY <1>5, Contexts DEF Moved
<1>8. PICK p \in Int : p = crt_pos'
  BY <1>5 DEF Moved
<1>9. MainGoesOn(C, q)'
  BY <1>1, <1>7, MainWaits
<1>10. (Placed(C, todo[Handler], crt_pos, reg[Handler], Room(q), Demand))'
  <2>1. Placed(C, todo'[Handler], crt_pos', reg'[Handler], Room(q), Demand)
    BY <1>2, <1>5 DEF Moved
  <2>2. text' = text
    BY <1>5
  <2> QED  BY <2>1, <2>2 DEF Placed, Inward, Rising, Turning, Deleting, Putting, Before, Behind, AtLine, Demand, Room
<1>11. ASSUME Behind(C, todo'[Handler]), text'[Handler] = <<>>
       PROVE  MainGoesOn(C, crt_pos)'
  <2>1. ~Inside(todo'[Handler]) /\ d = "line"
    BY <1>3, <1>5, <1>11, OutsideOnly
  <2>2. CASE crt_pos' = crt_pos /\ Behind(C, todo[Handler])
    <3>1. MainGoesOn(C, crt_pos)
      BY <1>5, <1>11, <2>2 DEF Loose, PlacesInv
    <3> QED  BY <1>7, <2>2, <3>1, MainWaits
  <2>3. CASE AtLine(crt_pos')
    <3>1. p < Room(q)
      <4>1. Placed(C, todo'[Handler], p, reg'[Handler], e, d)
        BY <1>5, <1>8 DEF Moved
      <4>2. \A w \in Seq(Shown(C)) : ~Inward(C, todo'[Handler], Trail(w), p, reg'[Handler], e, d)
        BY <2>1, WhichInward, TrailBegins
      <4> QED  BY <1>2, <4>1, <4>2 DEF Placed
    <3>2. reg[Main] \in Int
      BY Contexts DEF Loose, LooseType
    <3>3. Placed(C, todo[Main], p, reg[Main], CRT_SIZE, "any")
      BY <1>1, <1>8, <2>3, <3>1, <3>2, Resumes DEF MainGoesOn
    <3>4. MainGoesOn(C, p)
      BY <3>3 DEF MainGoesOn
    <3>5. MainGoesOn(C, p)'
      BY <1>7, <3>4, MainWaits
    <3> QED  BY <1>8, <3>5 DEF MainGoesOn
  <2> QED  BY <1>5, <1>11, <2>1, <2>2, <2>3 DEF Moved
<1>12. PlacesInv(C)'
  BY <1>5, <1>9, <1>10, <1>11, Contexts DEF PlacesInv
<1> QED  BY <1>6, <1>12 DEF Loose

LEMMA LooseNextChar ==
  ASSUME Sizes, Tall, NEW C, Loose(C), masked = FALSE, NextChar
  PROVE  Loose(C)'
<1>1. /\ depth \in Context /\ text[depth] # <<>> /\ todo[depth] = <<>>
      /\ text \in [Context -> Seq(C)] /\ todo \in [Context -> Seq(Step(C))]
      /\ reg \in [Context -> Int] /\ crt_pos \in Int
  BY DEF Loose, LooseType, NextChar
<1>2. PICK c \in C, rest \in Seq(C) : c = Head(text[depth]) /\ rest = Tail(text[depth])
  BY <1>1, HeadTailProperties
<1>3. PICK w \in Seq(Shown(C)) : w = PortBytes(c) /\ Putc(masked, c) = Lead(w, c, w)
  BY LoosePutcIs
<1>4. /\ todo' = [todo EXCEPT ![depth] = Lead(w, c, w)] /\ text' = [text EXCEPT ![depth] = rest]
      /\ depth' = depth /\ reg' = reg /\ crt_pos' = crt_pos
  BY <1>2, <1>3 DEF NextChar, screen
<1>5. Lead(w, c, w) \in Seq(Step(C))
  BY LeadBegins
<1>6. /\ LooseType(C)' /\ todo'[depth] = Lead(w, c, w) /\ text'[depth] = rest
      /\ \A o \in Context : o # depth => todo'[o] = todo[o] /\ text'[o] = text[o]
  BY <1>1, <1>4, <1>5 DEF LooseType
<1>7. ASSUME depth = Handler PROVE LinesInv' /\ (rest = <<>> => c = NL)
  <2>1. PICK x \in Seq(C) : x = text[Handler]
    BY <1>1, <1>7
  <2>2. x # <<>> /\ x[Len(x)] = NL
    BY <1>1, <1>7, <2>1 DEF Loose, LinesInv
  <2>3. c = Head(x) /\ rest = Tail(x)
    BY <1>2, <1>7, <2>1
  <2>4. rest = <<>> => c = NL
    BY <2>2, <2>3, LastOfText
  <2>5. rest = <<>> \/ rest[Len(rest)] = NL
    BY <2>2, <2>3, LastOfText
  <2>6. text'[Handler] = rest
    BY <1>6, <1>7
  <2> QED  BY <2>4, <2>5, <2>6 DEF LinesInv
<1>8. depth = Main => LinesInv'
  BY <1>6, Contexts DEF Loose, LinesInv
<1>9. ~Inside(todo[depth]) /\ ~Inside(todo'[depth])
  <2>1. Before(C, Lead(w, c, w), "any")
    BY DEF Before
  <2> QED  BY <1>1, <1>6, <2>1, OutsideOnly DEF Inside
<1>10. ASSUME depth = Main PROVE PlacesInv(C)'
  <2>1. Going(C, CRT_SIZE, "any")
    BY <1>10 DEF Going, Loose, PlacesInv, MainGoesOn
  <2>2. 0 <= crt_pos /\ crt_pos < CRT_SIZE
    BY <1>9, <2>1, StaysOut
  <2>3. Placed(C, todo'[Main], crt_pos', reg'[Main], CRT_SIZE, "any")
    BY <1>4, <1>6, <1>10, <2>2 DEF Placed, Before
  <2>4. MainGoesOn(C, crt_pos)'
    BY <2>3 DEF MainGoesOn, Placed, Inward, Rising, Turning, Deleting, Putting, Before, Behind, AtLine
  <2>5. todo'[Handler] = <<>>
    BY <1>6, <1>10, Contexts DEF Loose, PlacesInv
  <2> QED  BY <1>4, <1>10, <2>4, <2>5, Contexts DEF PlacesInv
<1>11. ASSUME depth = Handler PROVE PlacesInv(C)'
  <2>1. PICK q \in Int : /\ MainGoesOn(C, q)
                         /\ Placed(C, todo[Handler], crt_pos, reg[Handler], Room(q), Demand)
    BY <1>11 DEF Loose, PlacesInv
  <2>2. Going(C, Room(q), Demand)
    BY <1>11, <2>1, WhereMain DEF Going, Loose, MainGoesOn, Demand
  <2>3. 0 <= crt_pos /\ crt_pos < Room(q)
    BY <1>9, <2>2, StaysOut
  <2>4. Demand' = "line" => c = NL
    BY <1>6, <1>7, <1>11 DEF Demand
  <2>5. Placed(C, todo'[Handler], crt_pos', reg'[Handler], Room(q), Demand')
    BY <1>4, <1>6, <1>11, <2>3, <2>4 DEF Placed, Before
  <2>6. (Placed(C, todo[Handler], crt_pos, reg[Handler], Room(q), Demand))'
    BY <2>5 DEF Placed, Inward, Rising, Turning, Deleting, Putting, Before, Behind, AtLine, Room
  <2>7. MainGoesOn(C, q)'
    BY <1>4, <1>6, <1>11, <2>1, MainWaits, Contexts
  <2>8. ~Behind(C, todo'[Handler])
    <3>1. w # <<>>
      BY <1>3, LoosePutcIs
    <3>2. Begins(C, Lead(w, c, w), <<"lpt", Head(w)>>, Lead(Tail(w), c, w))
      BY <3>1, LeadBegins
    <3>3. At(todo'[Handler], "lpt")
      BY <1>6, <1>11, <3>2, BeginsAt
    <3> QED  BY <3>3, OutsideOnly DEF At
  <2>9. ~Behind(C, todo[Handler])'
    BY <2>8 DEF Behind
  <2> QED  BY <1>4, <1>11, <2>6, <2>7, <2>9, Contexts DEF PlacesInv
<1>12. PlacesInv(C)'
  BY <1>1, <1>10, <1>11, Contexts
<1> QED  BY <1>1, <1>6, <1>7, <1>8, <1>12, Contexts DEF Loose

LEMMA LooseInterrupt ==
  ASSUME Sizes, Tall, NEW C, Printing(C), WholeLines, Loose(C), Interrupt
  PROVE  Loose(C)'
<1>1. /\ depth = Main /\ depth' = Handler
      /\ UNCHANGED <<todo, reg, crt_pos>>
  BY DEF Interrupt, screen
<1>2. PICK message \in Messages : text' = [text EXCEPT ![Handler] = message]
  BY DEF Interrupt
<1>3. text' \in [Context -> Seq(C)] /\ text'[Handler] = message
  BY <1>2, Contexts DEF Loose, LooseType, Printing
<1>4. LooseType(C)'
  BY <1>1, <1>3, Contexts DEF Loose, LooseType
<1>5. LinesInv'
  BY <1>3 DEF LinesInv, WholeLines
<1>6. PICK q \in Int : q = crt_pos
  BY DEF Loose, LooseType
<1>7. MainGoesOn(C, q) /\ todo[Handler] = <<>>
  BY <1>1, <1>6 DEF Loose, PlacesInv
<1>8. MainGoesOn(C, q)'
  BY <1>1, <1>7, MainWaits
<1>9. MainGoesOn(C, crt_pos)'
  BY <1>1, <1>6, <1>8 DEF MainGoesOn
<1>10. 0 <= q /\ q < Room(q)
  BY <1>7, WhereMain DEF MainGoesOn
<1>11. (Placed(C, todo[Handler], crt_pos, reg[Handler], Room(q), Demand))'
  <2>1. Behind(C, <<>>)
    <3>1. <<>> \in Seq(Shown(C)) /\ Trail(<<>>) = <<>>
      <4>1. <<>> \in Seq(Shown(C))
        OBVIOUS
      <4> QED  BY <4>1, TrailBegins
    <3> QED  BY <3>1 DEF Behind
  <2>2. Placed(C, todo'[Handler], crt_pos', reg'[Handler], Room(q), Demand')
    BY <1>1, <1>6, <1>7, <1>10, <2>1 DEF Placed
  <2> QED  BY <2>2 DEF Placed, Inward, Rising, Turning, Deleting, Putting, Before, Behind, AtLine, Room
<1>12. PlacesInv(C)'
  BY <1>1, <1>8, <1>9, <1>11, Contexts DEF PlacesInv
<1> QED  BY <1>4, <1>5, <1>12 DEF Loose

LEMMA LooseIret ==
  ASSUME NEW C, Loose(C), Iret
  PROVE  Loose(C)'
<1>1. /\ depth = Handler /\ depth' = Main /\ todo[Handler] = <<>> /\ text[Handler] = <<>>
      /\ UNCHANGED <<todo, text, reg, crt_pos>>
  BY DEF Iret, local, screen
<1>2. Behind(C, <<>>)
  <2>1. <<>> \in Seq(Shown(C))
    OBVIOUS
  <2> QED  BY <2>1, TrailBegins DEF Behind
<1>3. MainGoesOn(C, crt_pos)
  BY <1>1, <1>2 DEF Loose, PlacesInv
<1>4. MainGoesOn(C, crt_pos)'
  BY <1>1, <1>3, MainWaits
<1>5. LooseType(C)' /\ LinesInv'
  BY <1>1, Contexts DEF Loose, LooseType, LinesInv
<1> QED  BY <1>1, <1>4, <1>5, Contexts DEF Loose, PlacesInv

LEMMA LoosePreserved ==
  ASSUME Sizes, Tall, NEW C, Printing(C), WholeLines, LooseInv(C), [Next]_vars
  PROVE  LooseInv(C)'
<1>1. masked' = masked
  BY DEF Next, Kernel, vars, NextChar, Save, Restore, PortWait, LptSend, SerialSend, CgaPutc, Load,
         StorePos, StoreChar, Check, Scroll, SetCursor, Iret, Interrupt
<1>2. ASSUME masked = FALSE PROVE Loose(C)'
  <2>1. Loose(C) /\ depth \in {Main, Handler}
    BY <1>2, Contexts DEF LooseInv, Loose, LooseType
  <2>2. CASE NextChar
    BY <1>2, <2>1, <2>2, LooseNextChar
  <2>3. CASE Within
    BY <2>1, <2>3, LooseMain, LooseHandler
  <2>4. CASE Save \/ Restore
    <3>1. \E e, d : Going(C, e, d)
      <4>1. CASE depth = Main
        BY <2>1, <4>1 DEF Going, Loose, PlacesInv, MainGoesOn
      <4>2. CASE depth = Handler
        <5>1. PICK q \in Int : /\ MainGoesOn(C, q)
                               /\ Placed(C, todo[Handler], crt_pos, reg[Handler], Room(q), Demand)
          BY <2>1, <4>2 DEF Loose, PlacesInv
        <5> QED  BY <2>1, <4>2, <5>1, WhereMain DEF Going, Loose, MainGoesOn, Demand
      <4> QED  BY <2>1, <4>1, <4>2
    <3> QED  BY <2>4, <3>1, NoSection
  <2>5. CASE Iret
    BY <2>1, <2>5, LooseIret
  <2>6. CASE Interrupt
    BY <2>1, <2>6, LooseInterrupt
  <2>7. CASE UNCHANGED vars
    <3>1. UNCHANGED <<depth, text, todo, reg, crt_pos>>
      BY <2>7 DEF vars, local, screen
    <3>2. LooseType(C)' /\ LinesInv'
      BY <2>1, <3>1 DEF Loose, LooseType, LinesInv
    <3>3. MainGoesOn(C, crt_pos) => MainGoesOn(C, crt_pos)'
      BY <3>1, MainWaits
    <3>4. ASSUME depth = Main PROVE PlacesInv(C)'
      BY <2>1, <3>1, <3>3, <3>4, Contexts DEF Loose, PlacesInv
    <3>5. ASSUME depth = Handler PROVE PlacesInv(C)'
      <4>1. PICK q \in Int : /\ MainGoesOn(C, q)
                             /\ Placed(C, todo[Handler], crt_pos, reg[Handler], Room(q), Demand)
        BY <2>1, <3>5 DEF Loose, PlacesInv
      <4>2. MainGoesOn(C, q)'
        BY <3>1, <4>1, MainWaits
      <4>3. (Placed(C, todo[Handler], crt_pos, reg[Handler], Room(q), Demand))'
        BY <3>1, <4>1 DEF Placed, Inward, Rising, Turning, Deleting, Putting, Before, Behind, AtLine, Room, Demand
      <4>4. ASSUME Behind(C, todo'[Handler]), text'[Handler] = <<>> PROVE MainGoesOn(C, crt_pos)'
        BY <2>1, <3>1, <3>3, <3>5, <4>4 DEF Loose, PlacesInv
      <4>5. Behind(C, todo[Handler])' <=> Behind(C, todo'[Handler])
        BY DEF Behind
      <4> QED  BY <3>1, <3>5, <4>2, <4>3, <4>4, <4>5, Contexts DEF PlacesInv
    <3>6. PlacesInv(C)'
      BY <2>1, <3>4, <3>5
    <3> QED  BY <3>2, <3>6 DEF Loose
  <2> QED  BY <2>2, <2>3, <2>4, <2>5, <2>6, <2>7 DEF Next, Kernel, Within
<1> QED  BY <1>1, <1>2 DEF LooseInv

LEMMA LooseBeginning ==
  ASSUME Sizes, Tall, NEW C, Printing(C), Init
  PROVE  LooseInv(C)
<1>1. crt_pos \in Int /\ 0 <= crt_pos /\ crt_pos < CRT_SIZE
  BY Rows DEF Init
<1>2. text \in [Context -> Seq(C)] /\ todo \in [Context -> Seq(Step(C))] /\ reg \in [Context -> Int]
  <2>1. <<>> \in Seq(C) /\ <<>> \in Seq(Step(C))
    OBVIOUS
  <2> QED  BY <2>1 DEF Init, Printing
<1>3. depth = Main /\ todo[Main] = <<>> /\ todo[Handler] = <<>> /\ text[Handler] = <<>>
  BY Contexts DEF Init
<1>4. MainGoesOn(C, crt_pos)
  <2>1. <<>> \in Seq(Shown(C))
    OBVIOUS
  <2>2. Behind(C, todo[Main])
    BY <1>3, <2>1, TrailBegins DEF Behind
  <2> QED  BY <1>1, <2>2 DEF MainGoesOn, Placed
<1> QED  BY <1>1, <1>2, <1>3, <1>4, Contexts
         DEF Init, LooseInv, Loose, LooseType, LinesInv, PlacesInv

(* In every reachable state of lab 1 each context is at a place of         *)
(* cga_putc that its registers and crt_pos fit, whatever the other did.    *)
THEOREM LooseInvariance ==
  ASSUME NEW C, Sizes, Tall, Printing(C), WholeLines
  PROVE  Spec => []LooseInv(C)
<1>1. Init => LooseInv(C)
  BY LooseBeginning
<1>2. LooseInv(C) /\ [Next]_vars => LooseInv(C)'
  BY LoosePreserved
<1> QED  BY <1>1, <1>2, PTL DEF Spec

(* cga_putc, both kernels: outside of calls the position is on the screen, *)
(* wherever interrupts come; and in lab 2 the cursor is there and the      *)
(* screen is what all characters leave on a terminal.                      *)
THEOREM ScreenTheorem ==
  ASSUME NEW C, Sizes, Tall, Printing(C), WholeLines
  PROVE  Spec => []ScreenKept
<1>1. ASSUME Loose(C), masked = FALSE PROVE ScreenKept
  <2>1. ASSUME Settled PROVE crt_pos \in Cell
    <3>1. ~Inside(todo[Main]) /\ ~Inside(todo[Handler])
      BY <2>1, SettledIs
    <3>2. crt_pos \in Int /\ depth \in {Main, Handler}
      BY <1>1, Contexts DEF Loose, LooseType
    <3>3. 0 <= crt_pos /\ crt_pos < CRT_SIZE
      <4>1. CASE depth = Main
        <5>1. MainGoesOn(C, crt_pos)
          BY <1>1, <4>1 DEF Loose, PlacesInv
        <5> QED  BY <3>1, <3>2, <5>1, WhereMain DEF MainGoesOn
      <4>2. CASE depth = Handler
        <5>1. PICK q \in Int : /\ MainGoesOn(C, q)
                               /\ Placed(C, todo[Handler], crt_pos, reg[Handler], Room(q), Demand)
          BY <1>1, <4>2 DEF Loose, PlacesInv
        <5>2. q < CRT_SIZE
          BY <3>1, <5>1, WhereMain DEF MainGoesOn
        <5>3. Room(q) = CRT_SIZE
          BY <5>2 DEF Room
        <5>4. Going(C, CRT_SIZE, Demand)
          BY <1>1, <4>2, <5>1, <5>3 DEF Going, Loose, Demand
        <5> QED  BY <3>1, <4>2, <5>4, StaysOut
      <4> QED  BY <3>2, <4>1, <4>2
    <3> QED  BY <3>1, <3>2, <3>3, Rows
  <2> QED  BY <1>1, <2>1 DEF ScreenKept
<1>2. LooseInv(C) /\ (masked => ScreenKept) => ScreenKept
  <2>1. CASE masked = TRUE
    BY <2>1
  <2>2. CASE masked = FALSE
    BY <1>1, <2>2 DEF LooseInv
  <2> QED  BY <2>1, <2>2 DEF LooseInv
<1>3. Spec => [](masked => ScreenKept)
  BY ScreenIsTerminal
<1> QED  BY <1>2, <1>3, LooseInvariance, PTL
=============================================================================

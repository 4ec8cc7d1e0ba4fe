------------------------------ MODULE Keyboard ------------------------------
(***************************************************************************)
(* The keyboard decoder: kbd_proc_data of kern/driver/console.c.           *)
(*                                                                         *)
(* A key sends its scan code when it goes down (again and again while it   *)
(* is held), and the code with bit 7 set when it comes up; some keys send  *)
(* E0 before.  shift is the set of the flags that are on.  The tables of   *)
(* the flags are complete, those of the characters are given for a letter  *)
(* and for Delete; the keyboard is external.                               *)
(***************************************************************************)
EXTENDS Integers, Sequences

E0 == 224

LShift == <<42>>
RShift == <<54>>
LCtl == <<29>>
RCtl == <<E0, 29>>
LAlt == <<56>>
RAlt == <<E0, 56>>
CapsLock == <<58>>

CONSTANT OtherKey       \* the keyboard's other keys

(* A code leaves bit 7 free, and no key's code with bit 7 set is E0. *)
Code == 1 .. 127 \ {E0 - 128}
ASSUME KeyAssumption == OtherKey \subseteq {<<c>> : c \in Code} \cup {<<E0, c>> : c \in Code}

AnyKey == {LShift, RShift, LCtl, RCtl, LAlt, RAlt, CapsLock} \cup OtherKey

Flag == {"SHIFT", "CTL", "ALT", "CAPSLOCK", "E0ESC"}
Modifier == {"SHIFT", "CTL", "ALT"}

VARIABLES
    held,       \* the keys that are down
    codes,      \* codes sent and not read
    shift,
    reboots     \* has the machine been told to reboot?

keyboard == <<held, codes, shift, reboots>>

-----------------------------------------------------------------------------
(* Tables                                                                  *)

shiftcode(data) ==
    CASE data \in {42, 54} -> {"SHIFT"}
      [] data \in {29, 157} -> {"CTL"}
      [] data \in {56, 184} -> {"ALT"}
      [] OTHER -> {}

togglecode(data) == IF data = 58 THEN {"CAPSLOCK"} ELSE {}

NO == "NO"
KEY_DEL == "KEY_DEL"

normalmap(data) ==
    CASE data = 30 -> "a" [] data = 83 -> "." [] data = 211 -> KEY_DEL [] OTHER -> NO
shiftmap(data) == IF data = 30 THEN "A" ELSE normalmap(data)
ctlmap(data) == CASE data = 30 -> "^A" [] data = 211 -> KEY_DEL [] OTHER -> NO

charcode(flags, data) ==
    CASE "CTL" \in flags -> ctlmap(data)
      [] "CTL" \notin flags /\ "SHIFT" \in flags -> shiftmap(data)
      [] OTHER -> normalmap(data)

OtherCase(c) == CASE c = "a" -> "A" [] c = "A" -> "a" [] OTHER -> c

Xor(A, B) == (A \ B) \cup (B \ A)

-----------------------------------------------------------------------------
(* What kbd_proc_data does with a code: the new flags, the character.      *)

Escape(flags) == [shift |-> flags \cup {"E0ESC"}, c |-> NO]

(* The escape outlives the key that is released. *)
ReleaseKeepsEscape(flags, code) ==
    LET data == IF "E0ESC" \in flags THEN code ELSE code - 128 IN
    [shift |-> flags \ shiftcode(data), c |-> NO]

Release(flags, code) ==
    LET data == IF "E0ESC" \in flags THEN code ELSE code - 128 IN
    [shift |-> flags \ (shiftcode(data) \cup {"E0ESC"}), c |-> NO]

Press(flags, code) ==
    LET data == IF "E0ESC" \in flags THEN code + 128 ELSE code
        new == Xor((flags \ {"E0ESC"}) \cup shiftcode(data), togglecode(data))
        c == charcode(new, data)
    IN [shift |-> new, c |-> IF "CAPSLOCK" \in new THEN OtherCase(c) ELSE c]

Decode(flags, code) ==
    CASE code = E0 -> Escape(flags)
      [] code >= 128 /\ code # E0 -> Release(flags, code)
      [] OTHER -> Press(flags, code)

CtlAltDel(flags, c) == {"CTL", "ALT"} \subseteq flags /\ c = KEY_DEL

-----------------------------------------------------------------------------
KeyInit ==
    /\ held = {} /\ codes = <<>>
    /\ shift = {} /\ reboots = FALSE

Up(key) == [key EXCEPT ![Len(key)] = @ + 128]

(* The keyboard sends the codes of one key after those of another. *)
KeyDown ==
    /\ codes = <<>>
    /\ \E key \in AnyKey : held' = held \cup {key} /\ codes' = key
    /\ UNCHANGED <<shift, reboots>>

KeyUp ==
    /\ codes = <<>>
    /\ \E key \in held : held' = held \ {key} /\ codes' = Up(key)
    /\ UNCHANGED <<shift, reboots>>

kbd_proc_data ==
    /\ codes # <<>>
    /\ codes' = Tail(codes)
    /\ LET result == Decode(shift, Head(codes)) IN
       /\ shift' = result.shift
       /\ reboots' = (reboots \/ (Head(codes) < 128 /\ CtlAltDel(result.shift, result.c)))
    /\ UNCHANGED held

KeyNext == KeyDown \/ KeyUp \/ kbd_proc_data

KeySpec == KeyInit /\ [][KeyNext]_keyboard

-----------------------------------------------------------------------------
(* Properties                                                              *)

KeyTypeOK ==
    /\ held \in SUBSET AnyKey
    /\ \A i \in 1 .. Len(codes) : codes[i] \in 0 .. 255
    /\ shift \in SUBSET Flag
    /\ reboots \in BOOLEAN

ModifierKey(m) ==
    CASE m = "SHIFT" -> {LShift, RShift}
      [] m = "CTL" -> {LCtl, RCtl}
      [] m = "ALT" -> {LAlt, RAlt}

(* kbd_proc_data: between two keys no escape is pending, and a modifier is *)
(* on only while a key for it is held, whatever was pressed together and   *)
(* in whatever order it came up.                                           *)
NoStuckModifier ==
    codes = <<>> =>
        /\ "E0ESC" \notin shift
        /\ \A m \in shift \cap Modifier : ModifierKey(m) \cap held # {}
=============================================================================

------------------------------- MODULE Format -------------------------------
(***************************************************************************)
(* libs/printfmt.c and do_div of libs/x86.h.                               *)
(*                                                                         *)
(* A format is a sequence of characters, read from position 0 with NUL     *)
(* behind it; the output is the sequence of what putch gets.  The argument *)
(* list is a sequence of words: an int takes one, a long long two, the     *)
(* address of a string is the string itself.  A word has Word values here  *)
(* and 2^32 in the kernel.                                                 *)
(***************************************************************************)
EXTENDS Strings

Word == 64      \* bound: int is -32 .. 31, long long -2048 .. 2047
MAXERROR == 6
E_INVAL == 3

Pad(c, n) == [i \in 1 .. (IF n > 0 THEN n ELSE 0) |-> c]

-----------------------------------------------------------------------------
(* Numbers                                                                 *)

(* divl divides a double word by a word; the quotient must fit in a word.  *)
divl(upper, low, base) ==
    [quot |-> (upper * Word + low) \div base, mod |-> (upper * Word + low) % base]

(* The high word is not reduced first. *)
do_div_short(n, base) ==
    LET d == divl((n \div Word) % base, n % Word, base) IN [quot |-> d.quot, mod |-> d.mod]

do_div(n, base) ==
    LET high == n \div Word
        upper == IF high # 0 THEN high % base ELSE high
        d == divl(upper, n % Word, base)
    IN  [quot |-> (IF high # 0 THEN high \div base ELSE high) * Word + d.quot, mod |-> d.mod]

RECURSIVE printnum(_, _, _, _)
printnum(num, base, width, padc) ==
    LET d == do_div(num, base)
    IN  (IF num >= base THEN printnum(d.quot, base, width - 1, padc) ELSE Pad(padc, width - 1))
            \o <<Digits[d.mod + 1]>>

(* How many words va_arg takes, and what they are as a number. *)
Taken(lflag) == IF lflag >= 2 THEN 2 ELSE 1

getuint(args, lflag) == IF lflag >= 2 THEN args[1] + Word * args[2] ELSE args[1]

getint(args, lflag) ==
    LET u == getuint(args, lflag)
        range == IF lflag >= 2 THEN Word * Word ELSE Word
    IN  IF u >= range \div 2 THEN u - range ELSE u

-----------------------------------------------------------------------------
(* One %-escape: e is the state of the switch, e.f the position in fmt.    *)

IsDigit(c) == c \in {"0", "1", "2", "3", "4", "5", "6", "7", "8", "9"}

RECURSIVE ReadNumber(_, _, _), reswitch(_, _)
ReadNumber(fmt, f, n) ==
    IF IsDigit(CharAt(fmt, f)) THEN ReadNumber(fmt, f + 1, n * 10 + Digit(CharAt(fmt, f)))
    ELSE [f |-> f, n |-> n]

process_precision(e, n) ==
    IF e.width < 0 THEN [e EXCEPT !.width = n, !.precision = -1] ELSE [e EXCEPT !.precision = n]

(* Flags, width, precision and length, up to the conversion character. *)
reswitch(fmt, e) ==
    LET ch == CharAt(fmt, e.f)
        on == [e EXCEPT !.f = @ + 1]
    IN  CASE ch \in {"-", "0"} -> reswitch(fmt, [on EXCEPT !.padc = ch])
          [] IsDigit(ch) /\ ch # "0" ->
                LET r == ReadNumber(fmt, e.f, 0)
                IN  reswitch(fmt, process_precision([e EXCEPT !.f = r.f], r.n))
          [] ch = "*" ->
                reswitch(fmt, process_precision([on EXCEPT !.args = Tail(@)], getint(e.args, 0)))
          [] ch = "." -> reswitch(fmt, [on EXCEPT !.width = IF @ < 0 THEN 0 ELSE @])
          [] ch = "#" -> reswitch(fmt, [on EXCEPT !.altflag = TRUE])
          [] ch = "l" -> reswitch(fmt, [on EXCEPT !.lflag = @ + 1])
          [] OTHER -> e

number(e, num, base) == printnum(num, base, e.width, e.padc)

(* width counts down: by the padding on the left, by each character, and   *)
(* by the padding on the right.                                            *)
StringOut(e, p) ==
    LET n == IF e.precision < 0 THEN Len(p) ELSE Min({Len(p), e.precision})
        onLeft == e.width > 0 /\ e.padc # "-"
        left == IF onLeft THEN Pad(e.padc, e.width - n) ELSE <<>>
        width == IF onLeft THEN e.width - n - Len(left) ELSE e.width
        shown(c) == IF e.altflag /\ c = "BEL" THEN "?" ELSE c
    IN  left \o [i \in 1 .. n |-> shown(p[i])] \o Pad(" ", width - n)

error_string(err) == "message of the error"

ErrorOut(err) ==
    IF err > MAXERROR \/ err = 0 THEN <<"error ">> \o printnum(err, 10, -1, " ")
    ELSE <<error_string(err)>>

Abs(n) == IF n < 0 THEN -n ELSE n

(* What a conversion prints and how many words it takes. *)
Conversion(e, ch) ==
    LET word == e.args[1]
        num == getint(e.args, e.lflag)
    IN  CASE ch = "c" -> [out |-> <<word>>, words |-> 1]
          [] ch = "e" -> [out |-> ErrorOut(Abs(getint(e.args, 0))), words |-> 1]
          [] ch = "s" -> [out |-> StringOut(e, IF word = "NULL" THEN <<"(null)">> ELSE word), words |-> 1]
          [] ch = "d" -> [out |-> (IF num < 0 THEN <<"-">> ELSE <<>>) \o number(e, Abs(num), 10),
                          words |-> Taken(e.lflag)]
          [] ch \in {"u", "o", "x"} ->
                [out |-> number(e, getuint(e.args, e.lflag),
                                CASE ch = "u" -> 10 [] ch = "o" -> 8 [] ch = "x" -> 16),
                 words |-> Taken(e.lflag)]
          [] ch = "p" -> [out |-> <<"0", "x">> \o number(e, word, 16), words |-> 1]
          [] ch = "%" -> [out |-> <<"%">>, words |-> 0]

(* Unknown: '%' is printed and what follows it is read again as text. *)
AfterPercent(fmt, f) == Max({p \in 1 .. f : CharAt(fmt, p - 1) = "%"})

RECURSIVE vprintfmt(_, _, _)
vprintfmt(fmt, f, args) ==
    LET ch == CharAt(fmt, f) IN
    CASE ch = "NUL" -> <<>>
      [] ch \notin {"%", "NUL"} -> <<ch>> \o vprintfmt(fmt, f + 1, args)
      [] ch = "%" ->
            LET e == reswitch(fmt, [f |-> f + 1, args |-> args, padc |-> " ", width |-> -1,
                                    precision |-> -1, lflag |-> 0, altflag |-> FALSE])
                conv == CharAt(fmt, e.f)
            IN  IF conv \in {"c", "e", "s", "d", "u", "o", "p", "x", "%"}
                THEN LET r == Conversion(e, conv)
                     IN  r.out \o vprintfmt(fmt, e.f + 1, SubSeq(e.args, r.words + 1, Len(e.args)))
                ELSE <<"%">> \o vprintfmt(fmt, AfterPercent(fmt, e.f), e.args)

-----------------------------------------------------------------------------
(* Into a buffer                                                           *)

sprintputch(b, ch) ==
    IF b.buf < b.ebuf
    THEN [b EXCEPT !.cnt = @ + 1, !.mem[b.buf] = ch, !.buf = @ + 1]
    ELSE [b EXCEPT !.cnt = @ + 1]

(* snprintf hands its arguments on as a list. *)
vsnprintf(mem, str, size, fmt, args) ==
    LET b == [buf |-> str, ebuf |-> str + size - 1, cnt |-> 0, mem |-> mem]
        out == vprintfmt(fmt, 0, args)
        put[i \in 0 .. Len(out)] == IF i = 0 THEN b ELSE sprintputch(put[i - 1], out[i])
        end == put[Len(out)]
    IN  IF str = NULL \/ b.buf > b.ebuf THEN [mem |-> mem, ret |-> -E_INVAL]
        ELSE [mem |-> [end.mem EXCEPT ![end.buf] = "NUL"], ret |-> end.cnt]

-----------------------------------------------------------------------------
(* Properties                                                              *)

(* A directive d, written out.  A sentinel follows it, so that a directive *)
(* that takes too many or too few arguments is seen.                       *)
FormatOf(d) ==
    <<"[", "%">> \o d.flag \o d.width \o d.precision \o d.length \o <<d.conv, "]", "%", "u">>

Amount(chars, default, arg) ==
    CASE chars = <<>> -> default [] "*" \in {chars[i] : i \in 1 .. Len(chars)} -> arg
      [] OTHER -> Digit(chars[Len(chars)])

(* The characters first .. last are the number, in digits of the base with *)
(* no zero in front; the others fill it up to the width, in front of it.   *)
(* The flag "-" is "to pad on the right" (printfmt.c), but the code fills  *)
(* a number with "-" in front: here the fill may then be on either side,   *)
(* of "-" or of spaces.                                                    *)
IsNumber(out, n, base, width, padc) ==
    \E first, last \in 1 .. Len(out) :
        LET digits == SubSeq(out, first, last) IN
        /\ first <= last /\ Len(out) = Max({width, Len(digits)})
        /\ \A i \in 1 .. Len(out) : i < first \/ i > last =>
              IF padc = "-" THEN out[i] \in {" ", "-"} ELSE i < first /\ out[i] = padc
        /\ \A i \in 1 .. Len(digits) : Digit(digits[i]) < base
        /\ Len(digits) > 1 => digits[1] # "0"
        /\ NumberOf(digits, base) = n

IsString_(out, text, width, padc) ==
    LET fill == width - Len(text) IN
    out = IF padc = "-" THEN text \o Pad(" ", fill) ELSE Pad(padc, fill) \o text

(* What the conversion of d must print for the value v. *)
Prints(d, v, out, star) ==
    LET width == Amount(d.width, -1, star)
        precision == Amount(d.precision, -1, star)
        padc == IF d.flag \in {<<"-">>, <<"0">>} THEN d.flag[1] ELSE " "
        text == [i \in DOMAIN v |-> IF d.flag = <<"#">> /\ v[i] = "BEL" THEN "?" ELSE v[i]]
        neg == IF d.conv = "d" /\ v < 0 THEN 1 ELSE 0
    IN  CASE d.conv = "d" ->
                /\ neg = 1 => out[1] = "-"
                /\ IsNumber(SubSeq(out, 1 + neg, Len(out)), Abs(v), 10, width, padc)
          [] d.conv = "u" -> IsNumber(out, v, 10, width, padc)
          [] d.conv = "o" -> IsNumber(out, v, 8, width, padc)
          [] d.conv = "x" -> IsNumber(out, v, 16, width, padc)
          [] d.conv = "p" -> /\ SubSeq(out, 1, 2) = <<"0", "x">>
                             /\ IsNumber(SubSeq(out, 3, Len(out)), v, 16, width, padc)
          [] d.conv = "s" -> IsString_(out, IF precision < 0 THEN text ELSE Cut(text, precision), width, padc)
          [] d.conv = "e" -> out = IF Abs(v) \in 1 .. MAXERROR THEN <<error_string(Abs(v))>>
                                   ELSE <<"error ">> \o printnum(Abs(v), 10, -1, " ")
          [] d.conv = "c" -> out = <<v>>
          [] d.conv = "%" -> out = <<"%">>
          [] d.conv = "?" -> out = <<"%">> \o d.flag \o d.width \o d.precision \o d.length \o <<"?">>

(* The words the caller passes for v. *)
Words(d, v) ==
    LET long == d.length = <<"l", "l">> /\ d.conv \in {"d", "u", "o", "x"}
        u == IF d.conv \in {"d", "e"} /\ v < 0 THEN v + (IF long THEN Word * Word ELSE Word) ELSE v
    IN  CASE d.conv \in {"%", "?"} -> <<>>
          [] long -> <<u % Word, u \div Word>>
          [] OTHER -> <<u>>

Stars(d, star) == Pad(star, IF d.width = <<"*">> THEN 1 ELSE 0) \o
                  Pad(star, IF d.precision = <<".", "*">> THEN 1 ELSE 0)

(* printfmt.c: every directive prints its value, as long as its width and  *)
(* precision say and padded as its flags say (but for "-" on a number, see *)
(* IsNumber), and takes exactly its own arguments; and snprintf with any   *)
(* size stays inside the buffer, terminates what fits and returns the      *)
(* length of all of it.                                                    *)
FormatAgrees(d, v, star) ==
    LET args == Stars(d, star) \o Words(d, v) \o <<7>>
        out == vprintfmt(FormatOf(d), 0, args)
        n == Len(out)
        before == [a \in 0 .. 4 |-> "old"]
    IN  /\ out[1] = "[" /\ out[n - 1] = "]" /\ out[n] = "7"
        /\ Prints(d, v, SubSeq(out, 2, n - 2), star)
        /\ \A size \in 0 .. 3 :
              LET r == vsnprintf(before, 1, size, FormatOf(d), args) IN
              IF size = 0 THEN r.ret = -E_INVAL /\ r.mem = before
              ELSE /\ r.ret = n
                   /\ Holds(before, r.mem, 1, Append(Cut(out, size - 1), "NUL"))
=============================================================================

------------------------------- MODULE Strings -------------------------------
(***************************************************************************)
(* The functions of libs/string.c on strings, with the versions of strcmp  *)
(* and strcpy that libs/x86.h gives for this processor; memory and         *)
(* pointers are those of Memory.                                           *)
(***************************************************************************)
EXTENDS Memory, FiniteSetsExt

NULL == -1
NUL == 0

strlen(m, s) == Advance({a \in Int : m[a] = NUL}, s) - s

strnlen(m, s, len) == Advance({cnt \in Int : cnt = len \/ m[s + cnt] = NUL}, 0)

(* lodsb; stosb for one byte after the other, until it was NUL. *)
strcpy(m, dst, src) ==
    LET copy(k) == rep_movs(m, dst, src, 1, [j \in 1 .. k |-> j - 1])
    IN  copy(Advance({k \in Int : copy(k)[src + k] = NUL}, 0) + 1)

(* src stays on the terminator, so the rest is filled with NUL. *)
strncpy(m, dst, src, len) ==
    LET after[k \in 0 .. len] ==
            IF k = 0 THEN [mem |-> m, src |-> src]
            ELSE LET w == after[k - 1].mem
                     p == after[k - 1].src
                 IN  [mem |-> Poke(w, dst + (k - 1), w[p]),
                      src |-> IF w[p] # NUL THEN p + 1 ELSE p]
    IN  after[len].mem

(* scasb sets the carry if *s1 is below *s2: sbbl and orb make -1 or 1. *)
strcmp(m, s1, s2) ==
    LET k == Advance({i \in Int : m[s1 + i] # m[s2 + i] \/ m[s1 + i] = NUL}, 0)
    IN  IF m[s1 + k] = m[s2 + k] THEN 0 ELSE IF m[s1 + k] < m[s2 + k] THEN -1 ELSE 1

strncmp(m, s1, s2, n) ==
    LET k == Advance({i \in Int : i = n \/ m[s1 + i] = NUL \/ m[s1 + i] # m[s2 + i]}, 0)
    IN  IF k = n THEN 0 ELSE m[s1 + k] - m[s2 + k]

strfind(m, s, c) == Advance({a \in Int : m[a] = NUL \/ m[a] = c}, s)

strchr(m, s, c) == LET a == strfind(m, s, c) IN IF m[a] = NUL THEN NULL ELSE a

-----------------------------------------------------------------------------
(* strtol on a sequence of characters; positions count from 0 and NUL      *)
(* stands behind the text.  `long` is wider than the texts checked here.   *)

CharAt(text, i) == IF i < Len(text) THEN text[i + 1] ELSE "NUL"

(* The digits of every base up to 36, of which printnum uses the first 16. *)
Digits == <<"0", "1", "2", "3", "4", "5", "6", "7", "8", "9", "a", "b", "c", "d", "e", "f", "g", "h",
            "i", "j", "k", "l", "m", "n", "o", "p", "q", "r", "s", "t", "u", "v", "w", "x", "y", "z">>
Capitals == <<"A", "B", "C", "D", "E", "F", "G", "H", "I", "J", "K", "L", "M",
              "N", "O", "P", "Q", "R", "S", "T", "U", "V", "W", "X", "Y", "Z">>

(* Any other character ends the number, as a digit of no base would. *)
Digit(c) ==
    IF \E d \in 1 .. 36 : Digits[d] = c THEN (CHOOSE d \in 1 .. 36 : Digits[d] = c) - 1
    ELSE IF \E d \in 1 .. 26 : Capitals[d] = c THEN (CHOOSE d \in 1 .. 26 : Capitals[d] = c) + 9
    ELSE 99

SkipBlanks(text, s) == Advance({i \in Int : CharAt(text, i) \notin {" ", "\t"}}, s)

(* The digits of the base from s on, and val behind n of them. *)
ScanDigits(text, s, base) ==
    LET end == Advance({i \in Int : Digit(CharAt(text, i)) >= base}, s)
        val[n \in 0 .. (end - s)] ==
            IF n = 0 THEN 0 ELSE val[n - 1] * base + Digit(CharAt(text, s + n - 1))
    IN  [val |-> val[end - s], end |-> end]

(* "0x" is skipped for base 16 and for base 0, which "0" alone makes 8. *)
Prefix(text, s, base) ==
    CASE base \in {0, 16} /\ CharAt(text, s) = "0" /\ CharAt(text, s + 1) = "x" -> <<s + 2, 16>>
      [] base = 0 /\ CharAt(text, s) = "0" /\ CharAt(text, s + 1) # "x" -> <<s + 1, 8>>
      [] base = 0 /\ CharAt(text, s) # "0" -> <<s, 10>>
      [] base = 16 /\ ~(CharAt(text, s) = "0" /\ CharAt(text, s + 1) = "x") -> <<s, 16>>
      [] base \notin {0, 16} -> <<s, base>>

strtol(text, base) ==
    LET blank == SkipBlanks(text, 0)
        neg == CharAt(text, blank) = "-"
        pre == Prefix(text, IF neg \/ CharAt(text, blank) = "+" THEN blank + 1 ELSE blank, base)
        num == ScanDigits(text, pre[1], pre[2])
    IN  [val |-> IF neg THEN -num.val ELSE num.val, end |-> num.end]

-----------------------------------------------------------------------------
(* Properties                                                              *)

(* The string at s, as a sequence of bytes. *)
Text(m, s) ==
    LET end == CHOOSE e \in DOMAIN m : e >= s /\ m[e] = NUL /\ \A a \in s .. (e - 1) : m[a] # NUL
    IN  [i \in 1 .. (end - s) |-> m[s + i - 1]]

IsString(m, s) == \E e \in DOMAIN m : e >= s /\ m[e] = NUL

Cut(s, n) == SubSeq(s, 1, IF n < Len(s) THEN n ELSE Len(s))

ReadersAgree(m, s, t, n, c) ==
    /\ strlen(m, s) = Len(Text(m, s)) /\ strnlen(m, s, n) = Len(Cut(Text(m, s), n))
    /\ SameOrder(strcmp(m, s, t), Text(m, s), Text(m, t))
    /\ SameOrder(strncmp(m, s, t, n), Cut(Text(m, s), n), Cut(Text(m, t), n))
    /\ LET found == {i \in 1 .. Len(Text(m, s)) : Text(m, s)[i] = c} IN
       /\ strchr(m, s, c) = IF found = {} THEN NULL ELSE s + Min(found) - 1
       /\ strfind(m, s, c) = IF found = {} THEN s + Len(Text(m, s)) ELSE s + Min(found) - 1

(* string.c and x86.h, in a memory without gaps: strings are compared as  *)
(* unsigned bytes and found where they are, copies write what they promise *)
(* and nothing else.                                                       *)
StringFunctionsAgree(m) ==
    LET Addr == DOMAIN m
        Strs == {s \in Addr : IsString(m, s)}
        Room(a) == Max(Addr) + 1 - a
        Value == {m[a] : a \in Addr} IN
    /\ MemoryAgrees(m)
    /\ \A s, t \in Strs, n \in 0 .. Cardinality(Addr), c \in Value \ {NUL} : ReadersAgree(m, s, t, n, c)
    /\ \A s \in Strs, d \in Addr :
          LET text == Text(m, s) \o <<NUL>> IN
          /\ (d <= s \/ d > s + Len(Text(m, s))) /\ Len(text) <= Room(d) =>
                Holds(m, strcpy(m, d, s), d, text)
          /\ \A n \in 0 .. Room(d) : (d <= s \/ d > s + Len(Text(m, s))) =>
                Holds(m, strncpy(m, d, s, n), d,
                      [i \in 1 .. n |-> IF i < Len(text) THEN text[i] ELSE NUL])

(* The number a run of digits stands for. *)
NumberOf(digits, base) ==
    LET value[i \in 0 .. Len(digits)] ==
            IF i = 0 THEN 0 ELSE value[i - 1] * base + Digit(digits[i])
    IN  value[Len(digits)]

(* The base that a prefix gives. *)
Radix(pre, base) ==
    CASE pre = <<"0", "x">> -> 16
      [] pre = <<"0">> -> 8
      [] pre = <<>> -> IF base = 0 THEN 10 ELSE base

(* r is the number and the end of a text with b blanks, a sign, a prefix   *)
(* and digits of the base, behind which no further digit stands.           *)
ReadAs(r, text, base, b, sign, pre) ==
    LET from == b + Len(sign) + Len(pre)
        number == NumberOf(SubSeq(text, from + 1, r.end), Radix(pre, base)) IN
    /\ from <= r.end
    /\ SubSeq(text, b + 1, from) = sign \o pre
    /\ \A i \in 1 .. b : text[i] \in {" ", "\t"}
    /\ sign = <<>> => CharAt(text, b) \notin {" ", "\t", "+", "-"}
    /\ pre = <<"0", "x">> => base \in {0, 16}
    /\ pre = <<"0">> => base = 0 /\ CharAt(text, from) # "x"
    /\ pre = <<>> => (base = 0 => CharAt(text, from) # "0")
    /\ pre = <<>> /\ base = 16 => ~(CharAt(text, from) = "0" /\ CharAt(text, from + 1) = "x")
    /\ \A i \in (from + 1) .. r.end : Digit(text[i]) < Radix(pre, base)
    /\ Digit(CharAt(text, r.end)) >= Radix(pre, base)
    /\ r.val = IF sign = <<"-">> THEN -number ELSE number

(* strtol: the text is blanks, a sign, a prefix, digits of the base and a  *)
(* rest that does not go on with a digit; the result is the number these   *)
(* digits stand for and the place where the rest begins.  It does not ask  *)
(* for the prefix 0X, which string.c speaks of and strtol does not know.   *)
StrtolAgrees(text, base) ==
    LET r == strtol(text, base) IN
    \E b \in 0 .. r.end : \E sign \in {<<>>, <<"+">>, <<"-">>}, pre \in {<<>>, <<"0">>, <<"0", "x">>} :
        ReadAs(r, text, base, b, sign, pre)
=============================================================================

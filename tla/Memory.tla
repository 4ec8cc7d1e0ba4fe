------------------------------- MODULE Memory -------------------------------
(***************************************************************************)
(* The functions of libs/string.c on memory, with the versions of memset,  *)
(* memmove and memcpy that libs/x86.h gives for this processor.  A memory  *)
(* m maps addresses to bytes, a pointer is an address; a function that     *)
(* writes gives the memory after the call.  Reading outside m is an error  *)
(* in the evaluation, writing outside m makes it larger.  after[k] is the  *)
(* memory after k turns of a loop.                                         *)
(***************************************************************************)
EXTENDS Integers, Sequences, FiniteSets

Dword == 4

(* A loop that goes on by one until it has come to `stop`. *)
Advance(stop, s) ==
    LET at[a \in Int] == IF a \in stop THEN a ELSE at[a + 1] IN at[s]

Poke(m, a, c) == [x \in DOMAIN m \cup {a} |-> IF x = a THEN c ELSE m[x]]

memset(m, s, c, n) ==
    LET after[k \in 0 .. n] == IF k = 0 THEN m ELSE Poke(after[k - 1], s + (k - 1), c)
    IN  after[n]

(* One movs of `size` bytes: all are read before one is written. *)
movs(m, dst, src, size) ==
    LET to == dst .. (dst + size - 1)
    IN  [a \in DOMAIN m \cup to |-> IF a \in to THEN m[src + a - dst] ELSE m[a]]

(* rep movs: turn k moves `size` bytes, at offset[k] from dst and src. *)
rep_movs(m, dst, src, size, offset) ==
    LET after[k \in 0 .. Len(offset)] ==
            IF k = 0 THEN m ELSE movs(after[k - 1], dst + offset[k], src + offset[k], size)
    IN  after[Len(offset)]

(* rep movsl for n / 4 double words, rep movsb for the n & 3 bytes left. *)
memcpy(m, dst, src, n) ==
    LET words == n \div Dword
        moved == rep_movs(m, dst, src, Dword, [k \in 1 .. words |-> Dword * (k - 1)])
    IN  rep_movs(moved, dst, src, 1, [k \in 1 .. n % Dword |-> Dword * words + (k - 1)])

(* std; rep movsb, from the last byte down. *)
MoveDown(m, dst, src, n) == rep_movs(m, dst, src, 1, [k \in 1 .. n |-> n - k])

(* Always upwards. *)
memmove_up(m, dst, src, n) == memcpy(m, dst, src, n)

memmove(m, dst, src, n) ==
    IF dst < src THEN memcpy(m, dst, src, n) ELSE MoveDown(m, dst, src, n)

memcmp(m, v1, v2, n) ==
    LET k == Advance({i \in Int : i = n \/ m[v1 + i] # m[v2 + i]}, 0)
    IN  IF k = n THEN 0 ELSE m[v1 + k] - m[v2 + k]

-----------------------------------------------------------------------------
(* Properties                                                              *)

(* Byte by byte, a shorter string before a longer one. *)
Below(s, t) ==
    \E i \in 1 .. Len(t) :
        /\ \A j \in 1 .. (i - 1) : j <= Len(s) /\ s[j] = t[j]
        /\ i = Len(s) + 1 \/ (i <= Len(s) /\ s[i] < t[i])

SameOrder(diff, s, t) == (diff < 0 <=> Below(s, t)) /\ (diff = 0 <=> s = t)

(* What the caller's buffer at dst holds when m has become w: the n bytes  *)
(* given, and everything else as before.                                   *)
Holds(m, w, dst, bytes) ==
    w = [a \in DOMAIN m |-> IF a \in dst .. (dst + Len(bytes) - 1) THEN bytes[a - dst + 1] ELSE m[a]]

Bytes(m, s, n) == [i \in 1 .. n |-> m[s + i - 1]]

(* The n bytes from a on belong to the memory. *)
Within(m, a, n) == a .. (a + n - 1) \subseteq DOMAIN m

(* memset, memmove and memcpy write what they promise and nothing else:    *)
(* memmove also if the ranges overlap in either direction, by double words *)
(* or by bytes, memcpy if they do not overlap or dst is in front of src;   *)
(* memcmp compares unsigned bytes.                                         *)
MemoryAgrees(m) ==
    \A d \in DOMAIN m, n \in 0 .. Cardinality(DOMAIN m) :
        Within(m, d, n) =>
            /\ \A c \in {m[a] : a \in DOMAIN m} : Holds(m, memset(m, d, c, n), d, [i \in 1 .. n |-> c])
            /\ \A s \in DOMAIN m :
                  Within(m, s, n) =>
                      /\ Holds(m, memmove(m, d, s, n), d, Bytes(m, s, n))
                      /\ d <= s \/ d >= s + n => Holds(m, memcpy(m, d, s, n), d, Bytes(m, s, n))
                      /\ SameOrder(memcmp(m, d, s, n), Bytes(m, d, n), Bytes(m, s, n))
=============================================================================

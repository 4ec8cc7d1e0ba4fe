-------------------------------- MODULE Stab --------------------------------
(***************************************************************************)
(* The backtrace of kern/debug/kdebug.c: the search in the table of debug  *)
(* entries, what it gives for an instruction, and the walk up the frames.  *)
(*                                                                         *)
(* A table maps 0 .. n - 1 to entries; entry 0 is the linker's header.  A  *)
(* name is the entry that holds it: the string table is left out, and with *)
(* it the part of a function's name behind ':'.                            *)
(***************************************************************************)
EXTENDS Integers, Sequences, FiniteSetsExt

CONSTANT STACKFRAME_DEPTH       \* 20 in the code

ASSUME DepthAssumption == STACKFRAME_DEPTH \in Nat

Unknown == -1

Type == {"N_UNDF", "N_SO", "N_SOL", "N_FUN", "N_PSYM", "N_SLINE", "N_RBRAC"}
Stab == [n_type : Type, n_value : Nat, n_desc : Nat]

-----------------------------------------------------------------------------
(* stab_binsearch                                                          *)

(* The latest entry of the type in l .. m; l - 1 if there is none. *)
Latest(stabs, l, m, type) == Max({l - 1} \cup {i \in l .. m : stabs[i].n_type = type})

(* One turn of the loop; none when l has passed r. *)
Turn(stabs, s, type) ==
    LET true_m == (s.l + s.r) \div 2
        m == Latest(stabs, s.l, true_m, type)
        value == stabs[m].n_value
        seen == [s EXCEPT !.any_matches = TRUE]
    IN  IF s.l > s.r THEN s
        ELSE CASE m < s.l -> [s EXCEPT !.l = true_m + 1]
               [] s.l <= m /\ value < s.addr -> [seen EXCEPT !.left = m, !.l = true_m + 1]
               [] s.l <= m /\ value > s.addr -> [seen EXCEPT !.right = m - 1, !.r = m - 1]
               [] s.l <= m /\ value = s.addr -> [seen EXCEPT !.left = m, !.l = m, !.addr = @ + 1]

(* Every turn but one after an exact hit leaves fewer entries, so two for   *)
(* each entry are enough.                                                   *)
Search(stabs, left, right, type, addr) ==
    LET turns == 2 * Cardinality(left .. right)
        after[k \in 0 .. turns] ==
            IF k = 0 THEN [l |-> left, r |-> right, left |-> left, right |-> right,
                           addr |-> addr, any_matches |-> FALSE]
            ELSE Turn(stabs, after[k - 1], type)
    IN  after[turns]

(* A region is given although no entry of the type is in it. *)
AnyRegion(s) == [left |-> s.left, right |-> s.right]

stab_binsearch_any(stabs, left, right, type, addr) ==
    AnyRegion(Search(stabs, left, right, type, addr))

(* At the end, the latest entry of the type within the bounds. *)
Region(stabs, s, type) ==
    IF ~s.any_matches THEN [left |-> s.left, right |-> s.left - 1]
    ELSE [left |-> IF s.right <= s.left THEN s.right
                   ELSE Max({s.left} \cup {i \in s.left .. s.right : stabs[i].n_type = type}),
          right |-> s.right]

stab_binsearch(stabs, left, right, type, addr) ==
    Region(stabs, Search(stabs, left, right, type, addr), type)

-----------------------------------------------------------------------------
(* debuginfo_eip                                                           *)

(* Code of a header inlined in the function has its own file name. *)
FileOf(stabs, lline, lfile) ==
    Max({lfile - 1} \cup
        {i \in lfile .. lline : \/ stabs[i].n_type = "N_SOL"
                                \/ stabs[i].n_type = "N_SO" /\ stabs[i].n_value # 0})

(* The parameters are described right behind the function. *)
Parameters(stabs, lfun, rfun) ==
    Cardinality({i \in (lfun + 1) .. (rfun - 1) :
                    \A j \in (lfun + 1) .. i : stabs[j].n_type = "N_PSYM"})

(* What is known without a function; info is completed step by step. *)
NoInfo(addr) ==
    [ret |-> -1, eip_file |-> Unknown, eip_line |-> 0, eip_fn_name |-> Unknown,
     eip_fn_addr |-> addr, eip_fn_narg |-> 0]

InLine(stabs, file, fun, line, info) ==
    IF line.left > line.right THEN info
    ELSE LET name == FileOf(stabs, line.left, file.left) IN
         [info EXCEPT !.ret = 0,
                      !.eip_line = stabs[line.right].n_desc,
                      !.eip_file = IF name >= file.left THEN name ELSE Unknown,
                      !.eip_fn_narg = Parameters(stabs, fun.left, fun.right)]

(* The lines of a function count from its address. *)
InFunction(stabs, file, fun, addr) ==
    LET found == fun.left <= fun.right
        start == stabs[fun.left].n_value
        within == IF found THEN fun ELSE file
        info == IF found THEN [NoInfo(addr) EXCEPT !.eip_fn_name = fun.left, !.eip_fn_addr = start]
                ELSE NoInfo(addr)
    IN  InLine(stabs, file, fun,
               stab_binsearch(stabs, within.left, within.right, "N_SLINE",
                              IF found THEN addr - start ELSE addr),
               info)

InFile(stabs, file, addr) ==
    IF file.left = 0 THEN NoInfo(addr)
    ELSE InFunction(stabs, file, stab_binsearch(stabs, file.left, file.right, "N_FUN", addr), addr)

debuginfo_eip(stabs, addr) ==
    InFile(stabs, stab_binsearch(stabs, 0, Cardinality(DOMAIN stabs) - 1, "N_SO", addr), addr)

-----------------------------------------------------------------------------
(* print_stackframe: the frame at ebp holds the caller's ebp and the       *)
(* address to return to; the boot loader started with ebp = 0.             *)

Line(info, eip) ==
    IF info.ret # 0 THEN [file |-> Unknown, line |-> 0, fn |-> Unknown, off |-> eip]
    ELSE [file |-> info.eip_file, line |-> info.eip_line, fn |-> info.eip_fn_name,
          off |-> eip - info.eip_fn_addr]

print_debuginfo(stabs, eip) == Line(debuginfo_eip(stabs, eip), eip)

(* after[i]: where i turns of the loop lead, and what they have printed.    *)
print_stackframe(stabs, stack, ebp, eip) ==
    LET after[i \in 0 .. STACKFRAME_DEPTH] ==
            IF i = 0 THEN [ebp |-> ebp, eip |-> eip, printed |-> <<>>]
            ELSE LET f == after[i - 1] IN
                 IF f.ebp = 0 THEN f
                 ELSE [ebp |-> stack[f.ebp].ebp, eip |-> stack[f.ebp].eip,
                       printed |-> Append(f.printed, print_debuginfo(stabs, f.eip - 1))]
    IN  after[STACKFRAME_DEPTH].printed

-----------------------------------------------------------------------------
(* Properties                                                              *)

(* The entries of a type in the table t, and those of them that start at   *)
(* or before addr, within i .. j; the entry in front of the next one.      *)
Starts(t, i, j, type) == {k \in i .. j : t[k].n_type = type}
Containing(t, i, j, type, addr) == {k \in Starts(t, i, j, type) : t[k].n_value <= addr}
Until(t, i, j, type) == Min({j + 1} \cup Starts(t, i + 1, j, type)) - 1

Ascending(t, i, j, type) ==
    \A k, n \in Starts(t, i, j, type) : k <= n => t[k].n_value <= t[n].n_value

(* An entry at addr and one at addr + 1 behind it, which no return address *)
(* minus one meets.                                                        *)
Stepped(t, i, j, type, addr) ==
    \E k, n \in Starts(t, i, j, type) : k < n /\ t[k].n_value = addr /\ t[n].n_value = addr + 1

(* stab_binsearch, "*@region_left points to the matching stab that         *)
(* contains @addr, and *@region_right points just before the next stab",   *)
(* "If *@region_left > *region_right, then @addr is not contained in any   *)
(* matching stab": in any region whose entries of the type ascend and that *)
(* an entry of another type begins.  Two cases differ: an address in front *)
(* of all entries (the left one of the region, of another type, may be     *)
(* found), and an exact hit with an entry at the next address.             *)
SearchFinds(t, left, right, type, addr) ==
    LET in == Containing(t, left, right, type, addr)
        s == stab_binsearch(t, left, right, type, addr)
    IN  t[left].n_type # type /\ Ascending(t, left, right, type) =>
            /\ Starts(t, left, right, type) = {} => s.left > s.right
            /\ in = {} => s.left > s.right \/ t[s.left].n_type # type
            /\ in # {} =>
                  IF Stepped(t, left, right, type, addr)
                  THEN s.left \in Starts(t, left, right, type) /\ s.left >= Max(in)
                  ELSE s = [left |-> Max(in), right |-> Until(t, Max(in), right, type)]

(* What the linker puts together: a header, then files and functions in    *)
(* the order of their addresses.                                           *)
Final(t) == Cardinality(DOMAIN t) - 1
WellFormed(t) ==
    /\ Final(t) \in Nat /\ t \in [0 .. Final(t) -> Stab]
    /\ t[0].n_type = "N_UNDF"
    /\ \A type \in {"N_SO", "N_FUN"} : Ascending(t, 0, Final(t), type)
    /\ \A k \in Starts(t, 0, Final(t), "N_SO") : t[k].n_value # 0

(* The file, function and line an address belongs to: the last entries in  *)
(* front of it, each within the one before; Unknown without a function.    *)
(* Lines count from the function.                                          *)
FileAt(t, addr) == Max(Containing(t, 0, Final(t), "N_SO", addr))
FileEnd(t, addr) == Until(t, FileAt(t, addr), Final(t), "N_SO")
FunAt(t, addr) == Max({Unknown} \cup Containing(t, FileAt(t, addr), FileEnd(t, addr), "N_FUN", addr))
Scope(t, addr) ==
    IF FunAt(t, addr) = Unknown
    THEN [left |-> FileAt(t, addr), right |-> FileEnd(t, addr), addr |-> addr]
    ELSE [left |-> FunAt(t, addr), right |-> Until(t, FunAt(t, addr), FileEnd(t, addr), "N_FUN"),
          addr |-> addr - t[FunAt(t, addr)].n_value]
LineAt(t, addr) ==
    Max(Containing(t, Scope(t, addr).left, Scope(t, addr).right, "N_SLINE", Scope(t, addr).addr))
LineEnd(t, addr) == Until(t, LineAt(t, addr), Scope(t, addr).right, "N_SLINE")

(* An address that belongs to a line, and where no entry starts with one   *)
(* at the next address; in a file with functions it is behind the first.   *)
Known(t, addr) ==
    LET file == [left |-> FileAt(t, addr), right |-> FileEnd(t, addr)]
        scope == Scope(t, addr)
    IN  /\ Containing(t, 0, Final(t), "N_SO", addr) # {}
        /\ Containing(t, scope.left, scope.right, "N_SLINE", scope.addr) # {}
        /\ FunAt(t, addr) = Unknown => Starts(t, file.left, file.right, "N_FUN") = {}
        /\ Ascending(t, scope.left, scope.right, "N_SLINE")
        /\ ~Stepped(t, 0, Final(t), "N_SO", addr)
        /\ ~Stepped(t, file.left, file.right, "N_FUN", addr)
        /\ ~Stepped(t, scope.left, scope.right, "N_SLINE", scope.addr)

(* kdebug.c, "If found, set info->eip_line to the right line number". *)
LineRight(t, addr) == debuginfo_eip(t, addr).eip_line = t[LineAt(t, addr)].n_desc

(* A call is printed with its function, its file (of the header for        *)
(* inlined code), its offset and its line: what the entry in front of the  *)
(* next line says, which is the line's own if no other lies between (see   *)
(* LineRight).                                                             *)
Described(t, addr) ==
    [fn |-> FunAt(t, addr),
     line |-> t[LineEnd(t, addr)].n_desc,
     file |-> Max({k \in FileAt(t, addr) .. LineAt(t, addr) : t[k].n_type \in {"N_SO", "N_SOL"}}),
     off |-> IF FunAt(t, addr) = Unknown THEN 0 ELSE addr - t[FunAt(t, addr)].n_value]

(* The calls on the stack, innermost first: each frame leads to the next,  *)
(* the last to ebp = 0.                                                    *)
Linked(stack, calls) ==
    /\ calls \in Seq([ebp : Nat \ {0}, eip : Nat]) /\ calls # <<>>
    /\ \A i \in 1 .. Len(calls) :
          IF i < Len(calls) THEN stack[calls[i].ebp] = calls[i + 1] ELSE stack[calls[i].ebp].ebp = 0

(* print_stackframe: the calls in order, up to the depth.  A call is in    *)
(* front of the return address, which may already belong to the next       *)
(* function.                                                               *)
CallsPrinted(t, stack, calls) ==
    LET depth == Min({STACKFRAME_DEPTH, Len(calls)})
    IN  /\ WellFormed(t) /\ Linked(stack, calls)
        /\ \A i \in 1 .. depth : Known(t, calls[i].eip - 1)
        => print_stackframe(t, stack, calls[1].ebp, calls[1].eip) =
               [i \in 1 .. depth |-> Described(t, calls[i].eip - 1)]
=============================================================================

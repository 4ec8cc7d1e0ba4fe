------------------------------- MODULE BootMap -------------------------------
(***************************************************************************)
(* boot_map_segment and print_pgdir of kern/mm/pmm.c.                      *)
(*                                                                         *)
(* A page directory is a function from linear pages to entries [pa, perm], *)
(* an absent entry being Absent; tables of Entries entries each, present   *)
(* in the directory (with all permissions: get_pte) as soon as one of      *)
(* their entries was asked for.                                            *)
(***************************************************************************)
EXTENDS Integers, Sequences, FiniteSetsExt

CONSTANTS
    PageSize,
    Entries,        \* of a table
    Dirs            \* entries of the directory

ASSUME MapAssumption ==
    PageSize \in Nat \ {0} /\ Entries \in Nat \ {0} /\ Dirs \in Nat \ {0}

PTE_P == 1
PTE_W == 2
PTE_U == 4
Absent == [pa |-> 0, perm |-> 0]

LinearPage == 0 .. Dirs * Entries - 1
PGOFF(la) == la % PageSize

-----------------------------------------------------------------------------
(* The pages the segment touches are counted without the offset. *)
boot_map_segment_short(pgdir, la, size, pa, perm) ==
    LET n == (size + PageSize - 1) \div PageSize
        first == la \div PageSize
    IN  [p \in LinearPage |->
            IF p \in first .. first + n - 1
            THEN [pa |-> pa - PGOFF(pa) + (p - first) * PageSize, perm |-> perm + PTE_P]
            ELSE pgdir[p]]

(* The code asserts that la and pa are at the same place in their pages. *)
boot_map_segment(pgdir, la, size, pa, perm) ==
    LET n == (size + PGOFF(la) + PageSize - 1) \div PageSize
        first == la \div PageSize
    IN  [p \in LinearPage |->
            IF p \in first .. first + n - 1
            THEN [pa |-> pa - PGOFF(pa) + (p - first) * PageSize, perm |-> perm + PTE_P]
            ELSE pgdir[p]]

-----------------------------------------------------------------------------
(* get_pgtable_items: the next run of entries with the same permissions in *)
(* start .. right - 1 of a table of permissions; perm is 0 if there is     *)
(* none.                                                                   *)

RunEnd(right, start, table) ==
    Min({right} \cup {i \in start .. right - 1 : table[i] # table[start]})

get_pgtable_items(right, start, table) ==
    LET left == Min({right} \cup {i \in start .. right - 1 : table[i] # 0})
    IN  IF left = right THEN [perm |-> 0, left |-> start, right |-> start]
        ELSE [perm |-> table[left], left |-> left, right |-> RunEnd(right, left, table)]

Items(right, start, table) ==
    LET items[i \in start .. right] ==
            LET item == get_pgtable_items(right, i, table)
            IN  IF item.perm = 0 THEN <<>> ELSE <<item>> \o items[item.right]
    IN  items[start]

(* The tables under a run of directory entries are read as one: through    *)
(* the directory's entry for itself they are consecutive.                  *)
print_pgdir(pgdir) ==
    LET vpd == [d \in 0 .. Dirs - 1 |->
                  IF \E e \in 0 .. Entries - 1 : pgdir[d * Entries + e] # Absent
                  THEN PTE_P + PTE_W + PTE_U ELSE 0]
        vpt == [p \in LinearPage |-> pgdir[p].perm]
        dirs == Items(Dirs, 0, vpd)
        under[i \in 0 .. Len(dirs)] ==
            IF i = 0 THEN <<>>
            ELSE under[i - 1] \o Items(dirs[i].right * Entries, dirs[i].left * Entries, vpt)
    IN  under[Len(dirs)]

-----------------------------------------------------------------------------
(* Properties                                                              *)

Empty == [p \in LinearPage |-> Absent]

(* Where an address leads. *)
Reaches(pgdir, la) == pgdir[la \div PageSize].pa + PGOFF(la)

(* What the code asserts of its arguments, and that the directory has room *)
(* for the segment.                                                        *)
Mappable(la, size, pa) ==
    PGOFF(la) = PGOFF(pa) /\ la + size <= Dirs * Entries * PageSize

(* boot_map_segment: whatever the segment's place within its pages, each   *)
(* of its addresses leads to the same place of the physical segment, and   *)
(* no page is mapped that it does not touch (page is mapped after it).     *)
(* print_pgdir: the listing shows each mapping with its permissions once,  *)
(* and what it shows as one range cannot be extended, also over the border *)
(* of a table.                                                             *)
SegmentMapped(la, size, pa, perm, page) ==
    LET pgdir == boot_map_segment(boot_map_segment(Empty, la, size, pa, perm),
                                  page * PageSize, 1, 0, PTE_U)
        printed == print_pgdir(pgdir)
    IN  /\ \A o \in 0 .. size - 1 :
              (la + o) \div PageSize # page => Reaches(pgdir, la + o) = pa + o
        /\ \A p \in LinearPage : pgdir[p] = Absent <=>
              p # page /\ \A o \in 0 .. size - 1 : (la + o) \div PageSize # p
        /\ \A p \in LinearPage :
              Cardinality({i \in DOMAIN printed : p \in printed[i].left .. printed[i].right - 1}) =
                  (IF pgdir[p] = Absent THEN 0 ELSE 1)
        /\ \A i \in DOMAIN printed :
              /\ \A p \in printed[i].left .. printed[i].right - 1 : pgdir[p].perm = printed[i].perm
              /\ i < Len(printed) => printed[i].right < printed[i + 1].left
                                        \/ (printed[i].right = printed[i + 1].left
                                              /\ printed[i].perm # printed[i + 1].perm)
=============================================================================

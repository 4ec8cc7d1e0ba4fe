------------------------------ MODULE PageInit ------------------------------
(***************************************************************************)
(* page_init of kern/mm/pmm.c: from the memory map of the BIOS to the      *)
(* zones a page manager gets.  A map is a sequence of entries; addresses   *)
(* are physical.                                                           *)
(***************************************************************************)
EXTENDS Integers, Sequences, FiniteSetsExt

CONSTANTS
    PGSIZE,         \* bytes of a frame
    PageStruct,     \* bytes of a struct Page
    KMEMSIZE        \* end of what the kernel can map

ASSUME PageInitAssumption ==
    /\ PGSIZE \in Nat \ {0} /\ PageStruct \in Nat \ {0}
    /\ KMEMSIZE \in Nat /\ KMEMSIZE % PGSIZE = 0

E820_ARM == 1       \* memory the kernel can use
E820_ARR == 2       \* reserved

ROUNDDOWN(a) == a - (a % PGSIZE)
ROUNDUP(a) == ROUNDDOWN(a + PGSIZE - 1)

AtMost(a, limit) == IF a > limit THEN limit ELSE a
AtLeast(a, limit) == IF a < limit THEN limit ELSE a

Usable(memmap) == {i \in DOMAIN memmap : memmap[i].type = E820_ARM}
End(entry) == entry.addr + entry.size

(* The frames there is a struct Page for. *)
npage(memmap) ==
    LET ends == {End(memmap[i]) : i \in {j \in Usable(memmap) : memmap[j].addr < KMEMSIZE}}
    IN  AtMost(Max({0} \cup ends), KMEMSIZE) \div PGSIZE

(* pages is the array behind the kernel; what is behind the array is free. *)
freemem(memmap, end) == ROUNDUP(end) + PageStruct * npage(memmap)

(* A zone begins in the frame its first byte is in. *)
ZoneInward(entry, free) ==
    [begin |-> ROUNDDOWN(AtLeast(entry.addr, free)), end |-> ROUNDDOWN(AtMost(End(entry), KMEMSIZE))]

Zone(entry, free) ==
    [begin |-> ROUNDUP(AtLeast(entry.addr, free)), end |-> ROUNDDOWN(AtMost(End(entry), KMEMSIZE))]

(* pa2page stops the kernel at a frame that has no struct Page. *)
pa2page(pa, n) == IF pa \div PGSIZE >= n THEN "panic" ELSE "ok"

(* The calls of init_memmap, in order: the first frame and how many. *)
page_init(memmap, end) ==
    LET free == freemem(memmap, end)
        zones[i \in 0 .. Len(memmap)] ==
            IF i = 0 THEN <<>>
            ELSE LET z == Zone(memmap[i], free)
                 IN  IF i \in Usable(memmap) /\ z.begin < z.end
                     THEN Append(zones[i - 1],
                                 [base |-> z.begin \div PGSIZE, n |-> (z.end - z.begin) \div PGSIZE,
                                  found |-> pa2page(z.begin, npage(memmap))])
                     ELSE zones[i - 1]
    IN  zones[Len(memmap)]

-----------------------------------------------------------------------------
(* Properties                                                              *)

Frames(zone) == zone.base .. zone.base + zone.n - 1
Within(frame, entry) == entry.addr <= frame * PGSIZE /\ (frame + 1) * PGSIZE <= End(entry)

(* page_init: for every map of the BIOS whose entries do not overlap, in   *)
(* any order, with bounds within frames, holes and memory the kernel       *)
(* cannot map: the manager gets exactly the frames that lie wholly in one  *)
(* usable entry, behind the kernel and the array of pages and below        *)
(* KMEMSIZE; none twice, each with a struct Page.                          *)
RegionsUsable(memmap, end) ==
    LET zones == page_init(memmap, end)
        n == npage(memmap)
    IN  /\ \A i \in DOMAIN zones : zones[i].found = "ok"
        /\ \A i, j \in DOMAIN zones : i # j => Frames(zones[i]) \cap Frames(zones[j]) = {}
        /\ UNION {Frames(zones[i]) : i \in DOMAIN zones} =
              {f \in 0 .. KMEMSIZE \div PGSIZE - 1 :
                  /\ f < n
                  /\ f * PGSIZE >= freemem(memmap, end)
                  /\ \E i \in Usable(memmap) : Within(f, memmap[i])}
        /\ \A f \in n .. KMEMSIZE \div PGSIZE - 1 : \A i \in Usable(memmap) : ~Within(f, memmap[i])

(* kern/init/entry.S maps the first 1024 frames; page_init, which runs     *)
(* under this mapping, writes every struct Page of the array.              *)
MappedAtBoot == 1024

(* memlayout.h, "the maximum amount of physical memory": the kernel can    *)
(* set up its pages on every machine with at most that much.               *)
PagesMapped(memmap, end) == freemem(memmap, end) <= MappedAtBoot * PGSIZE
=============================================================================

------------------------------ MODULE BootLoad ------------------------------
(***************************************************************************)
(* From the disk image to the kernel's entry: tools/sign.c, which makes    *)
(* the boot sector, and boot/bootmain.c, which loads the kernel behind it. *)
(*                                                                         *)
(* The disk and the memory are maps from addresses to bytes; a byte is     *)
(* told apart by where it comes from.  The disk's controller is external.  *)
(***************************************************************************)
EXTENDS Integers, Sequences

CONSTANTS
    SECTSIZE,           \* 512 in the code
    HeaderSectors,      \* 8 in the code: the header is read with a page
    Byte,               \* values of a register of the controller: 256
    Nibble,             \* and of the lower half of one: 16
    AddrSpace,          \* 0x1000000: bootmain masks addresses with 0xFFFFFF
    ELFHDR              \* 0x10000

ASSUME LoadAssumption ==
    /\ SECTSIZE \in Nat /\ SECTSIZE >= 2 /\ HeaderSectors \in Nat \ {0}
    /\ Byte \in Nat \ {0} /\ Nibble \in Nat \ {0}
    /\ HeaderSectors < Byte * Byte * Byte * Nibble
    /\ AddrSpace \in Nat \ {0}
    /\ ELFHDR \in Nat /\ ELFHDR % SECTSIZE = 0
    /\ ELFHDR + HeaderSectors * SECTSIZE <= AddrSpace

Sectors == Byte * Byte * Byte * Nibble      \* that the controller can address
Address == 0 .. AddrSpace - 1
Physical(va) == va % AddrSpace

Bytes(n, b) == [i \in 0 .. n - 1 |-> b]

-----------------------------------------------------------------------------
(* sign: a boot sector for a program of at most SECTSIZE - 2 bytes, given  *)
(* as a sequence; no sector if it is longer.                               *)

sign(program) ==
    LET buf == [Bytes(SECTSIZE, "zero") EXCEPT ![SECTSIZE - 2] = "55", ![SECTSIZE - 1] = "AA"]
    IN  IF Len(program) > SECTSIZE - 2 THEN <<>>
        ELSE [i \in DOMAIN buf |-> IF i < Len(program) THEN program[i + 1] ELSE buf[i]]

-----------------------------------------------------------------------------
(* readsect and readseg                                                    *)

(* The controller puts the number of the sector together from four         *)
(* registers; the fourth also holds the bits 0xE0, above its nibble.       *)
Registers(secno) ==
    <<secno % Byte, (secno \div Byte) % Byte, (secno \div (Byte * Byte)) % Byte,
      ((secno \div (Byte * Byte * Byte)) % Nibble) + Nibble>>

Addressed(regs) ==
    regs[1] + Byte * (regs[2] + Byte * (regs[3] + Byte * (regs[4] % Nibble)))

readsect(mem, disk, dst, secno) ==
    LET from == Addressed(Registers(secno)) * SECTSIZE
    IN  [a \in DOMAIN mem |-> IF a \in dst .. dst + SECTSIZE - 1 THEN disk[from + a - dst]
                              ELSE mem[a]]

(* The kernel starts at the disk's second sector. *)
Sector(offset) == offset \div SECTSIZE + 1

(* after[k]: the memory when k sectors are read. *)
ReadSectors(mem, disk, va, end_va, secno) ==
    LET sectors == (end_va - va + SECTSIZE - 1) \div SECTSIZE
        after[k \in 0 .. sectors] ==
            IF k = 0 THEN mem
            ELSE readsect(after[k - 1], disk, va + (k - 1) * SECTSIZE, secno + k - 1)
    IN  IF va >= end_va THEN mem ELSE after[sectors]

(* The place in memory is not rounded down with the sector. *)
readseg_unrounded(mem, disk, va, count, offset) ==
    ReadSectors(mem, disk, va, va + count, Sector(offset))

readseg(mem, disk, va, count, offset) ==
    ReadSectors(mem, disk, va - (offset % SECTSIZE), va + count, Sector(offset))

-----------------------------------------------------------------------------
(* bootmain: the header comes with the first sectors of the image; e_magic *)
(* and the program headers are read from the memory it was put in, as      *)
(* what elf says the bytes there mean.  The memory when the kernel is      *)
(* entered; without the magic number it is never entered (NotElf).         *)

NotElf == [a \in {} |-> 0]

bootmain(mem, disk, elf) ==
    LET header == readseg(mem, disk, ELFHDR, SECTSIZE * HeaderSectors, 0)
        load[i \in 0 .. Len(elf.ph)] ==
            IF i = 0 THEN header
            ELSE readseg(load[i - 1], disk, Physical(elf.ph[i].p_va), elf.ph[i].p_memsz,
                         elf.ph[i].p_offset)
    IN  IF elf.e_magic THEN load[Len(elf.ph)] ELSE NotElf

-----------------------------------------------------------------------------
(* Properties                                                              *)

(* The disk the build makes: the boot sector, then the image, whose byte   *)
(* at offset o is the number o, and behind it nothing.                     *)
Disk(program, size) ==
    [b \in 0 .. SECTSIZE * Sectors - 1 |->
        IF b < SECTSIZE THEN sign(program)[b] ELSE IF b < SECTSIZE + size THEN b - SECTSIZE ELSE "none"]

(* What the linker script sees to: segments in increasing order behind the *)
(* header's place, each where it is in the image up to whole pages, and    *)
(* those at different distances from it in different pages.  An empty one  *)
(* (that of the stack) may be anywhere.                                    *)
PageBytes == HeaderSectors * SECTSIZE
Page(pa) == pa \div PageBytes
Start(p) == Physical(p.p_va)
Past(p) == Start(p) + p.p_memsz
Placed(p, size) ==
    /\ ELFHDR + PageBytes <= Start(p) /\ Past(p) <= AddrSpace
    /\ (Start(p) - p.p_offset) % PageBytes = 0
    /\ p.p_filesz <= p.p_memsz /\ p.p_offset + p.p_filesz <= size
Before(p, q) ==
    /\ Past(p) <= Start(q)
    /\ Start(p) - p.p_offset # Start(q) - q.p_offset => Page(Past(p) - 1) < Page(Start(q))
IsLayout(elf) ==
    /\ SECTSIZE + elf.size <= SECTSIZE * Sectors
    /\ \A i \in 1 .. Len(elf.ph) :
          IF elf.ph[i].p_memsz = 0 THEN elf.ph[i].p_offset = 0 /\ elf.ph[i].p_filesz = 0
          ELSE Placed(elf.ph[i], elf.size)
    /\ \A i, j \in 1 .. Len(elf.ph) :
          i < j /\ elf.ph[i].p_memsz # 0 /\ elf.ph[j].p_memsz # 0 => Before(elf.ph[i], elf.ph[j])

(* sign.c and bootmain.c: a program that fits is in the boot sector whole, *)
(* in front of the mark the BIOS looks for; and although readseg writes    *)
(* whole sectors, also in front of and behind a segment, every byte of     *)
(* every segment and of the header is in its place when the kernel is      *)
(* entered.                                                                *)
KernelLoaded(program, elf) ==
    LET disk == Disk(program, elf.size)
        mem == bootmain([a \in Address |-> "old"], disk, elf)
        sector == sign(program)
    IN  IF Len(program) > SECTSIZE - 2 THEN sector = <<>>
        ELSE /\ \A i \in 1 .. Len(program) : sector[i - 1] = program[i]
             /\ sector[SECTSIZE - 2] = "55" /\ sector[SECTSIZE - 1] = "AA"
             /\ elf.e_magic /\ IsLayout(elf) =>
                   /\ \A o \in 0 .. PageBytes - 1 : mem[ELFHDR + o] = disk[SECTSIZE + o]
                   /\ \A i \in 1 .. Len(elf.ph) : \A k \in 0 .. elf.ph[i].p_filesz - 1 :
                         mem[Start(elf.ph[i]) + k] = elf.ph[i].p_offset + k
=============================================================================

# TLA+ specifications of my-ucore-os-lab

The repository holds two stages of a small x86 teaching kernel: `lab1` (boot
loader, console, interrupts, kernel monitor, user/kernel switch) and `lab2`
(the same plus physical memory detection, two page allocators and page
tables). There is one processor and no threads; what runs concurrently with
the kernel's main line is interrupt handlers, the devices and, for the page
tables, the processor's TLB.

This directory specifies in TLA+ the memory management of `lab2`, the core of
the repository, what goes on beside the main line (interrupts, the clock and
the console), the way from the disk to the running kernel, lab 1's switch
between kernel and user mode, the monitor, and the library they stand on. TLC
checks the specifications on small machines; TLAPS proves for every machine
what matters most about the two allocators, the page tables, interrupt masking,
the boot loader and the first mappings, the mode switch, and the console with
its keyboard and its monitor.

## Inventory

Each part with its state, its operations, what it interacts with, what is hard
about it, and what makes it correct.

| Part | State | Operations | Interacts with | Hard | Correct if |
|---|---|---|---|---|---|
| Manager interface, `pmm.h` | which manager is installed | `init`, `init_memmap`, `alloc_pages`, `free_pages`, `nr_free_pages` | called by `pmm.c` with interrupts off | two implementations behind one promise | an allocation returns n free pages in a row, NULL only if there are none |
| First fit, `default_pmm.c` | `free_list`, `nr_free`; `flags`, `property`, `ref` of each page | the same; a second version of `free_pages` | list.h; `page_init` | four cases of merging, a scan that assumes an order, marks left behind | no page lost or doubled; list sorted and merged; lowest fit; scan ends |
| Buddy system, `buddy_pmm.c` | `mem_buddy[]`: size, first page, free pages, tree `longest` | the same | the array lives in the pages it manages | stale tree nodes, trees larger than regions, rounding | the tree says exactly what is free; pages stay inside their region |
| Page tables, `pmm.c` | `boot_pgdir`, page tables, `ref`, TLB | `get_pte`, `get_page`, `page_insert`, `page_remove`, `tlb_invalidate`, `boot_map_segment` | allocator; processor | order of counting and freeing, invalidation, no memory left | `ref` counts mappings; no mapping to a free page; TLB agrees with the tables |
| Memory detection, `bootasm.S`, `page_init` | e820 map, `npage`, `pages` | probe, rounding and clipping | managers | rounding, overlap with the kernel, number of regions | regions handed over are disjoint, usable and page aligned |
| List, `list.h` | `next`, `prev` | `list_add*`, `list_del*` | first fit | links of unlinked nodes | `next` and `prev` are inverse; the ring is the sequence `DefaultPmm` uses |
| Interrupts, `sync.h`, `intr.c`, `picirq.c`, `clock.c`, `trap.c` | IF, PIC mask, `ticks` | `local_intr_save/restore`, `pic_enable`, `clock_init`, dispatch | every part | nesting, boot order, counter wrap | masked sections are atomic; handlers exist before lines open; every 100th tick is reported |
| Console, `console.c`, `stdio.c` | ring buffer `cons`, `crt_pos`, shift state | `cons_putc`, `cons_getc`, `cons_intr`, `kbd_proc_data` | handlers use the same state | lab 1 does not mask interrupts; the ring has no full test | characters appear once and in order; the position stays on the screen |
| Mode switch, lab 1 `trap.c`, `init.c` | `switchk2u`, the stack | `T_SWITCH_TOU`, `T_SWITCH_TOK` | trap entry code | the handler returns through another frame | the interrupted context is restored with the new privilege |
| Monitor and panic, `kmonitor.c`, `readline.c`, `panic.c` | line buffer, `is_panic` | `readline`, `parse`, `runcmd`, `__panic` | console, interrupts | limits of buffer and argument vector, panic in panic | stays inside its arrays; a panic always reaches the monitor |
| Symbol table, `kdebug.c` | none | `stab_binsearch`, `debuginfo_eip` | monitor | searches one type among others | the enclosing file, function and line |
| Strings and formatting, `libs/` | none | `memmove`, `strtol`, `vprintfmt`, ... | all | overlap, digits, sign | agree with their definitions |
| Boot loader, `bootmain.c` | memory, ELF header | `readsect`, `readseg`, `bootmain` | disk | segments share sectors | every segment is loaded |
| Build and grading scripts | none at run time | | | | not modelled |

`PROJECT.json` lists the hazards of all parts at their lines, with the
properties that cover them.

## Modules

| Module | Models | State |
|---|---|---|
| `PageAllocator` | the promise of `struct pmm_manager`: abstract specification | managed pages, free pages, last result |
| `DefaultPmm` | first fit, as `default_pmm_manager` installs it | `free_list` as the sequence of block heads, `nr_free`, `property`, `flags` |
| `FreeMethods` | `default_free_pages_method1`, the other `free_pages` of the file | the loop's variables, as a record |
| `FreeList` | `list.h` | none: operators on a heap of `next` and `prev` |
| `DefaultCheck` | first fit on the links of `FreeList`, with `basic_check` and `default_check` | in addition the links, the self-test's place and variables |
| `BuddyPmm` | the buddy system, the manager `init_pmm_manager` installs | `mem_buddy` |
| `AddressSpace` | what callers of `page_insert` and `page_remove` rely on: abstract specification | linear page to frame, live frames |
| `Paging` | page tables, reference counts, TLB | `pgdir`, `table`, `ref`, `free`, `tlb` |
| `PageInit` | `page_init`: from the e820 map to the regions | none: operators |
| `BootMap` | `boot_map_segment`, `print_pgdir` | none: operators |
| `BootLoad` | `sign`, `readsect`, `readseg`, `bootmain` | none: operators |
| `Interrupts` | masked sections, the interrupt controllers, boot order, clock | IF, mask and its copy, latched requests, suspended contexts, `ticks` |
| `ModeSwitch` | lab 1's switches between kernel and user mode | the stacks and `switchk2u` word by word, the processor's registers |
| `Screen` | `cons_putc` on the main line and in a handler, masked (lab 2) and unmasked (lab 1) | `crt_pos`, `crt_buf`, the steps left of each call |
| `ConsoleInput` | `cons_intr`, `cons_getc`, their callers and the devices | ring `cons`, what the devices have, requests |
| `Keyboard` | `kbd_proc_data` and the keys it decodes | keys down, codes, `shift` |
| `Monitor` | `__panic`, `kmonitor`, `readline`, `parse`, `runcmd` | what the two contexts do, `is_panic`, IF, the line |
| `Stab` | `stab_binsearch`, `debuginfo_eip`, `print_stackframe` | none: operators |
| `Memory`, `Strings`, `Format` | `string.c` with `x86.h`, on memory and on strings; `printfmt.c` with `do_div` | none: operators |
| `SeqLemmas`, `DefaultPmmProof` | proofs about `DefaultPmm` | |
| `FreeListProof` | proofs about `FreeList` and its use by the manager (`DefaultCheck`) | |
| `BuddyPmmProof` | proofs about `BuddyPmm` | |
| `PagingProof` | proofs about `Paging` | |
| `ScreenProof` | proofs about `Screen`, with interrupts masked (lab 2) and without (lab 1) | |
| `BootProof` | proofs about `Interrupts`, `PageInit`, `ModeSwitch`, `BootMap` and `BootLoad` | |
| `ConsoleInputProof` | proofs about `ConsoleInput`, `Keyboard`, `Monitor`, `Stab`, `Memory` and `Strings` | |
| `MCDefaultPmm`, `MCBuddyPmm`, `MCPaging`, `MCBoot`, `MCConsole`, `MCStrings`, `MCStab`, `MCPageInit` | memory maps, tables and sizes for TLC | |

How they compose: `DefaultPmm` and `BuddyPmm` each implement `PageAllocator`
(property `PromiseKept`, an `INSTANCE ... WITH` that maps the free list or the
trees to the set of free pages). `Paging` uses the allocator only through that
promise, with one-page requests: `alloc_page` returns any free frame. Since
both managers are shown to keep the promise, what `Paging` shows holds with
either, except where `Page.ref` is concerned, which the managers treat
differently (`ResetsRef`). `Paging` in turn implements `AddressSpace`
(`SpaceKept`).

A call of a manager is one step: `alloc_pages` and `free_pages` of `pmm.c`
wrap it in `local_intr_save` and `local_intr_restore`, and there is one
processor. `Interrupts` is where this is shown (`SectionsAlone`, and the theorem
`MaskedSectionsAtomic`): nothing runs between the two, whatever interrupts come
and however sections nest. `ConsoleInput` relies on it for having one reader at
a time, and `Screen` checks what masking is for in `cons_putc`. `page_insert` and `page_remove` run on the main line only, no
handler touches page tables; the processor may load or drop a translation
between any two of their calls. (Within a call the linear address is not used.)

### DefaultPmm

Pages are numbers. `InitMemmap` is `default_init_memmap` (`list_add` puts the
region at the head). `Alloc` has the code's three outcomes: `AllocFail`,
`AllocWhole`, `AllocSplit`. `Free` finds the position as the scan does
(`InsertionPoint`: the first position that `Accepts`, the list head counting as
a neighbour on either side) and then takes one of four cases, as the code does.
`held`, the pages callers have and not returned, is the only history variable;
callers return runs of pages they hold, also parts of what they got, as
`default_check` does. What the code leaves in `property` of pages that are not
heads is kept, because a later merge could read it.

### FreeList and DefaultCheck

`DefaultPmm` takes `free_list` to be a sequence. `DefaultCheck` keeps beside it
the heap of `next` and `prev` that the same calls make with the operations of
`list.h`, in the order of the code (the remainder of a split is linked behind
the block before that leaves the list), and `RingIsList` says that reading the
links from the head in either direction gives the sequence. An unlinked node
keeps its links, and one never linked has none.

The self-test is a script, one row for each call; `CheckStep` makes the row's
call with the operations of the manager. Twice it copies the list head by
value and starts an empty list in its place: the first and last block go on
pointing at the head, and putting the copy back is right only because nobody
touches them. `SelfTestPasses` is every `assert` of the two functions, behind
the call it stands behind; `RingIsList` holds at every step of the test too.
Its variable `counted` holds `count` and `total`.

### BuddyPmm

`longest` is the array itself, a function on node numbers, with its stale
values. `Layout` is the arithmetic of `buddy_init_memmap`: the pointer
arithmetic `longest + 2 * v_size * sizeof(uintptr_t)` scales by four once more,
so the array takes one page for every 128 pages of the tree (`PerPage`).
`Found` is the walk down, `Allocated` the walk up. `free_pages` does not look
at `n`; callers give back whole blocks here (`pmm.h` allows it to free more
than `n`: "free >=n pages").

A request can be answered by the nodes of a tree that lie in the pages it gives
away (`Places`). The cut-off part of a tree reaches over the next region, whose
own tree is aligned differently: a node there may have all its pages free
without being a node of the tree that gives them away, and the code does not
find it.

### Paging

A linear page is a directory index and a table index. A frame's contents as a
page table are `table[f]`; a frame in use for anything else holds `Junk`, so a
table that is not cleared would map it. `RemovePte` is `page_remove_pte`,
`InsertPte` the rest of `page_insert` once the table exists, `WithTable` is
`get_pte(.., 1)`. Cached directory entries are not modelled, and access
permissions are data. `SpecAnyInsert` and `SpecSelfTest` add callers that the
careful ones of `Spec` are not: one that inserts when memory is exhausted, and
the teardown at the end of `check_boot_pgdir`. A `page_remove` of a page whose
table exists but which is not mapped ends in the panic of `pte2page`; no caller
does that, and `PageRemove` has it as its guard.

### PageInit, BootMap, BootLoad

These run once, on the main line, with interrupts off, so each is a pure
operator from its input to what it leaves. `page_init` gives the calls of
`init_memmap` in their order; what it promises is stated with the bytes of the
memory map: the frames handed over are exactly those that lie wholly in one
usable entry, behind the array of pages and below `KMEMSIZE`, each once and
each with a `struct Page`. `boot_map_segment` gives the page directory as a
function of linear pages (`get_pte` is modelled in `Paging`), and `print_pgdir`
lists it through `get_pgtable_items`, directory first. `bootmain` gives the
memory when the kernel is entered; a byte is known by the place in the image it
comes from, and the sector number goes through the controller's four registers.
That whole sectors are written is harmless only because of how the linker lays
out segments (`IsLayout`): in increasing order, each where it is in the image
up to whole pages, and two segments at different distances from it in different
pages. A segment of no bytes (the one for the stack) may be anywhere. Virtual
addresses are masked to `AddrSpace` as in the code (`Physical`).

### Interrupts

The main line is context 0, a handler the processor has accepted is the context
above the one it interrupted; only the topmost runs. `Accept` clears IF, as an
interrupt gate does, and `Iret` restores it; `Save` and `Restore` are
`local_intr_save` and `local_intr_restore`, at any depth of nesting and in any
context. The steps of `kern_init` that matter here are actions of their own, so
that a request may come at any point of the boot. The mask exists twice, as in
the code: `irq_mask` from the first `pic_enable` on, `imr` in the controllers
from `pic_init` on. That `depth` may reach 2 is what makes `SectionsAlone` say
something. `picirq.c`, `clock.c` and `intr.c` are the same in both labs.

### ModeSwitch

Memory is modelled word by word, since what can go wrong is which word a trap
returns through: the word under the frame that `__alltraps` pops is the pointer
the handlers overwrite. `Trap` is a trap with its handler and its `iret` in one
step, because every gate turns interrupts off. `switch_to_user` returns through
the static `switchk2u`, with a stack pointer it has to make up, since a trap in
kernel mode pushes none: hence the `sub` in front of the `int`.
`switch_to_kernel` moves the frame under the user's stack pointer. Keys ask for
the same switches between any two instructions of the test. An `int` whose gate
needs more privilege is a fault at the instruction itself; the handler passes
over faults of user mode, so the instruction is tried again. General registers
count as one word, of which `ebp` matters, and so do the segment registers.
Where the main stack, the stack for traps out of user mode and `switchk2u` lie
are constants.

### Screen

`cga_putc` is taken apart into its loads and stores of `crt_pos` and `crt_buf`;
an interrupt, whose handler prints a message of its own, may come between any
two of them. `shown` is what a terminal shows that gets the same characters one
after the other, in the order of the calls. With masking the screen equals it;
without, as in lab 1, characters can overwrite each other, and what is left to
say is that the position is on the screen (`ScreenKept` says both). The four
`outb` that tell the display the position are one step, `SetCursor`: with masking
nothing comes between them; in lab 1 a handler may, after which the cursor can be
elsewhere, so `ScreenKept` speaks of the cursor only in lab 2. Video memory behind
the last row is modelled, since an interrupted scroll may store there. Every caller of
`cons_putc` in the kernel that runs with interrupts on is covered, and one in a
handler; the polls of the two ports end after `PollMax`.

### ConsoleInput

Every call of `cons_getc` is made with interrupts off: in the handlers, and in
the monitor after `__panic`. So there is one reader, `doing`, and the devices go
on while it reads. Requests are edges: the controllers latch one when a device
that had nothing gets something, and one when the keyboard shows the next code
of several. `PicInit` drops what was latched: a key touched between `kbd_init`
and `pic_init` stays in the keyboard without a request (`forgotten`) until a
pass over the devices for another reason. `waiting` is the history variable the
ring is compared with. The ring has no test for being full;
`TypeAheadAssumption` says that nobody types `CONSBUFSIZE` characters ahead.

### Keyboard

A key sends its scan code when it goes down, again and again while it is held,
and the code with bit 7 set when it comes up; some send an `E0` before. Beside
the modifiers and caps lock the keyboard has any other keys `OtherKey`, each
with a code of its own, alone or behind an `E0` (`KeyAssumption`); the tables of
characters are given for two of them. What is checked is the state the decoder
carries from code to code: no modifier stays on without its key, for keys held
together and released in any order.

### Monitor

The main line and at most one handler each run, print a panic's message or are
in the monitor. A panic that interrupts the print of the first goes straight to
the monitor, in the handler: so the property is that whoever is topmost ends
there, with interrupts off for good. `readline` takes one key per step; `row`,
what the screen shows behind the prompt, is the history variable its buffer is
compared with. `parse` is a recursive function over the characters of the line
and stores the words in `argv` also when there are too many; then `called` is
any command or none. `LineRun` says what the words of a line are without a
parser (`Begins`, `IsWord`): the longest runs of characters that are no blanks.

### Stab

A table of debug entries is a function from 0 on. `stab_binsearch` halves and
then walks back to an entry of the type, and on an exact hit goes on with
`addr + 1`. `Turn` is one turn of its loop and `Search` a recursive function over
as many turns as it can take, two for each entry of the region. `SearchFinds`
compares the result with the definition in the function's comment: the last
entry of the type at or before the address, and the place in front of the next
one. Two corners are excepted and named there: an entry at the address with
another at the next one (`Stepped`; a later entry is then found, still of the
type), and an address in front of the first entry (the left bound is then
returned although it is of another type). Addresses are numbers below the
largest of 32 bits, so that `addr + 1` exists.

`STACKFRAME_DEPTH` is a constant. `BacktraceRight` is about the whole of
`print_stackframe` (`CallsPrinted`): function, file (of the header for inlined
code), offset and line of every frame. The line is what the entry in front of
the next line says (`LineEnd`), which need not be the line's own: `LineRight`,
the finding of run `eip_line`. It asks that the table is what the linker puts
together (`WellFormed`) and that the calls belong to lines (`Known`);
`TablesAssumption` of `MCConsole` says that all tables and chains of the run are
so.

### Memory, Strings and Format

A memory maps addresses to bytes, and each function gives the memory after it;
reading outside of it is an error of the evaluation and writing outside makes it
larger (`Poke`), which no property allows, so nothing is touched beyond the
arguments. A loop that only looks for a place is `Advance`, with the set of the
places where it ends; the other loops of `Memory` and `Strings` are recursive
functions from a turn to what it leaves. `memcpy` moves double words and
then bytes as `movsl` and `movsb` do, `memmove` goes down when the destination
is not below the source. In `Format` a machine word has 64 values, so that the
sign, the ends of the ranges and numbers of two words are all reached; `divl`
has no result when the quotient does not fit, as the instruction faults.

## What the runs check

| Run | Bounds | Shows |
|---|---|---|
| `first_fit` | 7 pages; "sorted": regions 3..5 and 0..1 in this order; "unsorted": regions 0..2 and 4 in this order, on the links; "self-test": regions 0 and 2..6, `default_check` and two calls behind it | `Conservation`, `AssertionsHold`, `FreeScanEnds`, `SortedAndMerged`; `LowestFit`: every allocation takes the lowest run long enough; `MethodsAgree`: both versions of `free_pages` have the same effect; `PromiseKept`; `RingIsList`; `SelfTestPasses`; `AnyOrder`: no page is lost and the scan ends whatever the order of the regions |
| `buddy` | 10 pages, regions 0..2 and 3..9 | `Conservation`, `TreeExact` (longest is exact wherever it is not inside an allocated block), `InsideRegion`, `PromiseKept` |
| `buddy_overrun` | 7 pages, an array page per 2 pages of tree | violation: the tree hands out pages behind the region |
| `paging` | 4 frames, 2 directory entries of 2 slots, 2 permissions | `RefCount`, `FramesAccounted`, `TlbCoherent`, `SpaceKept` |
| `paging_no_memory` | the same | violation: `get_pte` uses a NULL page |
| `paging_self_test` | the same | violation: stale translations after `check_boot_pgdir` |
| `paging_buddy_ref` | the same with 1 permission, `ResetsRef = FALSE` | violation: with the buddy system the frame of a freed page table keeps its reference; mapped once it counts two, and `page_remove` does not free it (`FreedWithLastMapping`) |
| `boot` | interrupts: contexts up to depth 2, 2 open sections in each, a report every 3 ticks, a counter modulo 8; mode switch: room for one frame and two calls; loader: sectors of 4 bytes, pages of 8, two segments at every place; memory map: two entries, frames of 4 bytes, `KMEMSIZE` 24; mapping: pages of 4 bytes, 3 tables of 3 entries | `SectionsAlone`, `LinesOpen` (boot order), `EnabledAtRest`, `ReportsInTime`, also where the counter wraps, `RequestServed` (liveness); `ModeAsAsked`, `ContextKept`, `TestEnds` (liveness); `SegmentsLoaded`; `RegionsAreUsable`; `SegmentsMapped` |
| `console` | a screen of 2 by 2, two interrupts, 2 characters; a ring of 3, two codes in the keyboard; any of the 9 keys held together; a line of 3 characters, one word in `argv`; memories of 6 bytes and one of 10, texts of up to 4 characters in 5 bases, every directive with every flag; tables of two files and up to four functions, backtraces of up to 3 of 4 frames | `ScreenKept`, `PortsAgree`, `PutcReturns` (liveness); `RingIsQueue`, `InputServed` (liveness); `NoStuckModifier`; `LineRun`, `PanicReachesMonitor` (liveness); `StringsAgree`, `FormatAgrees`, `BacktraceRight` |
| `keys_shown` | a ring of 4, three codes in the keyboard | violation: a character stays in the ring until another key is touched |
| `eip_line` | the tables of `console` | violation: the line comes from an entry that is no line |
| `kernel_map` | the kernel's own sizes, 8 to 896 MB | violation: the array of pages does not fit the first mapping |

`first_fit`, `boot` and `console` check several parts one at a time: the
variable `part` says which one a behaviour exercises, and the others stay as
they start. The parts with no state of their own ask one question per
behaviour, `in`, and the property compares the code's answer with the
definition.

Why the bounds are enough. Two regions of three and two pages give free blocks
on both sides, on one side and on no side of a freed run, in both regions and
across the hole, lists of up to three blocks, and requests from one page to more
than there are. `default_check` needs a region of five pages; with another one
beside it there are blocks it does not touch, and the list has a first and a
last block when its head is put aside. For first fit the
theorems remove the bounds altogether. The buddy run has two trees, each
reaching beyond its region, one over the other's pages; the second has free
blocks of four and two pages, so there are splits and merges over two levels
and a right end cut off. Its regions come in ascending order, which
`ZonesAssumption` demands: in the other order `buddy_free_pages`, which takes
the last tree that covers a page, can pick the tree of the wrong region. Four
frames suffice for two page tables and two pages, so that a page can be mapped
twice in one table and in two tables, and memory can run out.

A counter of 8 with a report every 3 ticks stands for 2^32 and 100: neither
is a multiple of the other, so the last interval before the wrap is short. On a
screen of four cells every character is near an edge and a line feed scrolls.
A ring of three wraps around every third character and holds the two typed
ahead. All seven modifiers and two more keys, one of them behind an `E0`, may be
held at once. Two segments of up to seven bytes share a sector, a page or
neither; two map entries meet, nest a hole, straddle a limit, and come in
either order; segments of up to fourteen bytes cover parts of up to five pages
and cross the border of a table. The memories of six bytes have room for a
double word and a byte that overlap by any amount, and for two strings; the one
of ten for two double words one after the other.

Memory management assumes no fairness, since nothing in it waits: that the
loops end is stated as safety (`FreeScanEnds`; the walks of the buddy system are
recursive functions whose evaluation ends). For the console the processor runs:
weak fairness of the kernel's steps, none of the devices', and `InputServed`
only promises something when typing pauses. `Interrupts` assumes weak fairness
of the handlers' work and of the end of a masked section, and strong fairness
where a step is possible again and again but not all the time: a context opens
finitely many sections, so `kern_init` goes on, a handler reaches its `iret`
and the outermost section ends; and a clock tick, every 10 ms, is handled long
before the next, so that the other lines have their turn. In `ModeSwitch` the
main line goes on (weak fairness of its instructions, none of the keys). In
`Monitor` a handler ends, by `iret` or by a panic (weak), and the print of a
message is finite although interrupts come in between (strong, `PanicDead`).

Deadlock is checked but in `paging_no_memory`, where the system stops after its
panic, in `console` and `keys_shown`, where the parts come to rest when all is
printed or read, and in `eip_line` and `kernel_map`, which have no steps.

Some observations that no run records.

- With regions in the ascending order of an e820 map, `free_list` is not sorted
  by address, against the report (`list_add` reverses the order):
  `SortedAndMerged`, `LowestFit` and `PromiseKept` hold only for descending or
  single regions, `Conservation` and the self-test without conditions.
- The walk of the buddy system takes the lowest block, splitting a large one
  even if a smaller one is free, where the report speaks of best fit. A region
  of exactly 2^k pages leaves it without a free page and `buddy_init_memmap` in
  its assertion (`InitMemmap`, second disjunct). The last loop of
  `buddy_init_memmap` ends at `base + free_size`, so that some pages keep
  `PG_reserved` although they are handed out.
- `TestEnds` has an exception: a key that switches to user mode before the test
  does leaves it at its `int` for ever.
- `parse` warns at the sixteenth word, which still fits, and stores a
  seventeenth behind `argv`.
- `%-5d` fills with `-` in front of the number, where `printfmt.c:139` calls
  the flag "flag to pad on the right" and the printf family would put spaces
  behind it. `FormatAgrees` does not side with either: with this flag it asks for
  the digits and the length and leaves open on which side the fill stands, so its
  pass says nothing about this disagreement, and no other run records it.
- `%.0s` prints the whole string (the `0` is read as a flag); no directive of the
  run has it. The sign of a number and the `0x` of a pointer are not counted in
  the width, which no text forbids; `FormatAgrees` states it so.
- `strtol` does not know the prefix `0X` that `string.c:199` names beside `0x`:
  it reads `0X1F` as 0 and stops at the `X`. `StrtolAgrees` does not ask for it.
- `check_boot_pgdir` goes through addresses in steps of `PGSIZE` and compares
  them with `npage`, a number of pages: of 32768 pages it looks at the first 8.

## What is proved

The theorems about memory hold for every number of pages and every list of
regions that satisfies `NPageAssumption`, `ZonesAssumption` (the regions are non-empty,
disjoint and inside memory) and `NULLAssumption`.

`DefaultPmmProof` proves `Spec => []Inv` (theorem `Invariance`) for the
inductive invariant

    Inv == TypeInv /\ ListInv /\ CoverInv /\ FlagInv /\ CountInv

None of the properties is inductive alone: `Conservation` says nothing about
flags, yet without `FlagInv` the assertions that guard the merges are not known
to hold; without `CoverInv` (blocks cover exactly the managed pages nobody
holds) nothing keeps a freed run apart from the blocks; and `TypeOK` bounds
`nr_free` only because `CountInv` makes it a cardinality. The invariant speaks
of the set of heads, not of positions: `SeqLemmas` says what removing, replacing
and inserting do to the set of elements of a sequence, and each action is then
arithmetic on intervals. From `Invariance` follow

- `TypeCorrect`, `PagesConserved`, `HeadsMarked` (`PG_property` marks exactly the
  heads of the free blocks), `NoAssertionFails`, for any order of the regions;
- `ScanTerminates`: the scan of `free_pages` always finds a position. If the
  list is unsorted the argument is that a first position with a larger head
  exists or the end accepts.

Its second part adds `ZonesDescending` (every region lies above the next, with
a page between them; one region always satisfies it) and proves from `Inv`

- `SortedTheorem`: the list is sorted and fully merged;
- `FirstFitTheorem`: `LowestFit`. A run of free pages lies inside one block,
  because adjacent blocks do not exist; so a run below the chosen block would
  make an earlier block fit;
- `PromiseTheorem`: `Spec => PromiseKept`, the refinement of `PageAllocator`.
  The case that needs sortedness is NULL: if no block is long enough, no run of
  free pages is.

- `MethodsTheorem`: `MethodsAgree`. The loop of `default_free_pages_method1`
  passes over every block but the two neighbours of the freed run and leaves
  everything as it was; what it does to the neighbours gives the list of the
  other method in each of its four cases. That the loop's recursive function
  has a value for every list is shown by the least length without one.

`BootProof` has five parts.

The first is about `Interrupts`, for every `TICK_NUM`, every width of the
counter and every depth and nesting (`TickAssumption`, `BoundAssumption`). Its
invariant relates IF to everything that can turn it on: interrupts are on only
with the main line running, outside its sections and after `intr_enable`; the
saved flag of a section is on only in the outermost section of the main line,
once the kernel is up. Neither half is inductive alone, since `Restore` gives
back what `Save` found. From it follow `MaskedSectionsAtomic`
(`SectionsAlone`), `InterruptsOnWhenReady` (`VectorsReady` and
`EnabledAtRest`), `LinesStayOpen` and `TicksReported`; for the last, `since` is
at most `ticks % TICK_NUM`, and a wrap makes `ticks` zero, which is a report.

`RegionsTheorem` is about `page_init` with memory maps of any number of entries
in any order, if the usable ones do not overlap. `ZoneFrames` says, in bytes,
which frames an entry gives (rounding, clipping, what lies in front of the free
memory); `FramesCounted` does so for `npage`; the calls, one entry after the
other, exist and have these frames by the least entry at which they would not
(`Calls`). It also gives what `ZonesAssumption` asks of the regions: non-empty,
disjoint and inside memory.

`ModeTheorem` and `ContextTheorem` are about `ModeSwitch`, wherever the stacks
and the static frame lie, if no two of them overlap and the main stack has room
for two calls, a frame and the word below it (`StackAssumption`). `ModeInv` says
for each place of the test what is on the stack; a trap between any two
instructions leaves that alone (`TrapInvisible`), by whichever of three ways it
returns: plainly, through `switchk2u` (`ToUser`), or through the frame moved
under the user's stack pointer (`ToKernel`).

`SegmentsTheorem` is about `boot_map_segment` and `print_pgdir`, for every size
of page, table and directory and every segment that fits. `Listing(s, T, lo,
hi)` says that `s` lists the runs of equal permissions of `T` in a range; two
listings join at a place where the permissions change or the table ends, first
item by item within a table, then table by table. Which pages a segment touches
is arithmetic of division (`Touched`).

`LoadTheorem` is about `sign` and `bootmain`, for every size of a sector and of
the header, every width of the controller's registers, every program and every
image laid out as `IsLayout` says. `SectorAddressed` says that the four
registers give the number back; the loop over sectors has a closed form (which
addresses it writes, and with which bytes). `OneSegment` adds a segment to those
in place: its first sector may overwrite the end of an earlier one, but then
both lie in the same page, so at the same distance from the image, and what is
written is what is there.

`ConsoleInputProof` is about every size of the ring and of the keyboard's
store. `RingTheorem` (`RingIsQueue`) needs `BoundInv`, that what is on its way
through devices and ring stays below the ring's size: a store then never meets
`rpos`. The invariant speaks of slots counted from `rpos` with one turn taken
back, and `TurnBack` relates that to `%`.

`ModifierTheorem` (`NoStuckModifier`) is about every set of other keys. Its
invariant says between keys that each modifier that is on has its key down, and
in the middle of a key's codes that this is so but for the key itself: going
down, its modifier may be on already; coming up, it may still be on.

`LineTheorem` (`LineRun`) is about every size of the line's buffer and of
`argv`, every alphabet, every set of blanks and every set of commands. `Words`
is the invariant of `parse` from character to character: what is in `argv` are
the words that have begun, as many as there are places where a word begins, the
last as far as it has been read; a blank ends it (`PassBlank`), a character
begins one (`NewWord`) or makes it longer (`LongerWord`). `MonitorStays` is the
safety half of `PanicReachesMonitor`: once the context that runs is in the
monitor, it stays there, with interrupts off.

`BacktraceTheorem` (`BacktraceRight`) is about every table, type, region and
address for `stab_binsearch`, and every table the linker puts together, every
chain of frames and every depth for `print_stackframe`. The invariant of the
search (`SearchInv`) says from turn to turn that entries of the type below `l`
are in front of the address searched for and those above `r` behind the one
asked for (`SeenInv`), that the left bound is the last entry below `l` or an exact
hit at `l` (`LeftInv`), and that the address was stepped on at most once, and
only after a hit, unless the table has the corner of `Stepped` (`StepInv`). Each
turn makes `Left` smaller, twice the entries left and one more while `l` is not
an exact hit; so two turns for each entry are enough (`SearchEnds`). `RegionIs`
shows that the loop at the end finds what the left bound already is. From
`Finds`, used for the file, the function and the line, follows what is printed
for one call (`CallDescribed`), and from that, frame by frame, the backtrace
(`Printed`).

`MemoryTheorem` (`MemoryAgrees`, the part of `StringsAgree` about memory) is
about every memory and all ranges within it. The invariant of a copy is
`Copied`: the bytes from one offset to another are those the source had at the
start, and all else is as before. A turn upwards keeps it if the destination is
below the source or behind its end, as what it reads next is not yet overwritten
(`UpOnce`), a turn downwards if the destination is not below the source
(`DownOnce`), which is how `memmove` chooses. `memcpy` is one run of double words and
one of bytes that goes on where the first ends (`CopyForwards`). `memcmp` stops
at the first byte that differs, and there `Below` is decided (`OrderAt`).

`StringsTheorem` (`StringFunctionsAgree`, which contains `MemoryAgrees`, and
`StrtolAgrees`; `StringsAgree` asks both of the run's memories and texts) is
about every memory without gaps and every text. `TextIs` turns a string into
the number of bytes in front of its terminator (`Terminated`); where a loop ends
is then a question about one number (`AdvanceStops`). `strcmp` and `strncmp`
share an argument: where they stop the two texts part (`Parted`), or one of them
ends, and `strncmp` also if both are cut there (`TextsParted`). `strcpy` is a
copy of one byte more with each turn, whose end it tests in what it has just
written, so that the destination must not lie inside the text. The invariant of
`strncpy` says that the source stays on the terminator once it has come there
(`PadState`). For `strtol` the text is cut into blanks, sign, prefix and digits
(`BlanksSkipped`, `SignIs`, `PrefixIs`); that the digits read one by one are the
number that `NumberOf` reads from the same digits is `HornerUnique`, by the
first digit behind which the two would differ.

`ScreenProof` is about every size of the screen (`Sizes`), every text of the
main line and every set of messages of the handlers, made of any characters `C`
(`Printing(C)`). Its first part is lab 2, where `cons_putc` masks interrupts.
`ScreenKept` says nothing about the inside of a call, where the screen, the
position and the register are each at another place. The invariant reads the
steps a context has left as the place it has come to: for each of the 20 places
of `cga_putc` it says what `crt_buf`, `crt_pos` and the register are there,
relative to the terminal `shown`, which has the whole character already
(`SameOnce`: once the screen has scrolled, if it must). `SectionInv` says that a
handler runs only while the main line is outside the section, which is why one
place at a time needs to be described. `Puts` relates the first place of each
case of the switch to the terminal, `LineStarts` bounds the position after a
newline, and from then on every step leads from one place to the next. From it
follow `ScreenIsTerminal` (`masked => ScreenKept`) and `PortsGetTheSame`
(`PortsAgree`).

Its second part is lab 1, where handlers print into a call of the main line
(`LooseInvariance`), and `ScreenTheorem` puts both together. For each of the 20
places it bounds the position and what has been loaded there, whatever the other
context did in between; in a handler's last call it says in addition that the
call will leave the start of a line that is not the first. A handler prints
whole lines (`WholeLines`), so that is what the main line finds, and it can go
on from there, whatever it had tested. A handler that ended
with a carriage return, between the test and the decrement of a backspace of the
main line, would lead `crt_pos` to -1; lab 1's handlers print whole lines
("%d ticks", "serial [%03d] %c", "kbd [%03d] %c"). Two rows are needed, since on
a screen of one row no line but the first can start; `CRT_ROWS` is 25.

`FreeListProof` starts with `list.h` alone, for rings of any length and heaps of
any nodes, also with links nobody has written. `IsRing(h, t)` says that `h`
links the nodes of `t`, each once, into a ring in that order, by `next` and by
`prev`. `AddAfter`, `AddBefore` and `Del` say that the operations insert and
remove one element of `t` at its place, provided a node that is inserted is not
in the ring yet; `Empty` says when `list_empty` holds. The heart of each is to
follow an index of the new ring back to the old one, over the seam where the
last node points at the first. With the invariant of `DefaultPmmProof`, which
says that what the manager inserts is never the head of a free block already,
`LinksAreList` then shows `RingIsList` for every step of the manager, and
`AnyOrderHolds` shows `AnyOrder`; both are about the behaviours outside the
self-test (`~Tested`). The self-test is a script of fixed calls, and stays with
TLC.

`BuddyPmmProof` is about every number of pages, every size of the array's pages
(`PerPage`) and every list of ascending regions. The difficulty is that
`longest` says what is allocated only where a walk comes by: below an allocated
node it is stale. The invariant therefore names the set `A` of the allocated
nodes of each tree, those of the blocks callers hold and the node cut off its
right end, and `Shape` says that no node of `A` is above another and that `A`
determines every entry: 0 at a node of `A`, all of it at a leaf and below a node
of `A`, and the merged values of the children elsewhere. That the stale entries
are full is what makes the reuse of a freed block right: `buddy_free_pages`
writes only the node and the path above it. Three lemmas carry the proof:
`TakenShape` (an allocation adds a vacant node to `A`), `GivenShape` (a free
removes one) and `ShapeValue` (an entry no node of `A` is above is the size of
the largest vacant node below it); `FirstZero` says that the first zero on the
way up from a block's first page is the node of that block. From the invariant
follow

- `PagesConserved` (`Conservation`), `LongestIsExact` (`TreeExact`) and
  `TypeCorrect`, if the pages that the trees give away do not overlap (`Apart`;
  nothing to assume for a single region, which is what the emulated machine
  hands over);
- `BlocksInside` (`InsideRegion`) and `PromiseTheorem` (`PromiseKept`, the
  refinement of `PageAllocator`), if every region has room for its array
  (`RoomForArray`, which implies `Apart`). The emulated machine does not meet
  this: it is the finding that run `buddy_overrun` shows.

Recursions over the tree, sums over the regions and arguments along a branch
are by the least number, or the least or greatest node, at which they would
fail, since induction theorems take an operator as a parameter.

`PagingProof` is about every number of frames and every size of the directory
and the tables (the assumptions of `Paging`). Its invariant `Good` says which
frames are free, page tables and owned, that each table serves one directory
entry, that only owned frames are mapped and that a cached translation is in
the tables. From it follow `TypeCorrect` with `NoPanic`, `FramesAccountedHolds`
and `TlbCoherentHolds`, for either manager. `RefCountHolds`, `SpaceKeptHolds` and
`FreedWithLastMappingHolds`, that `ref` is the number of mappings, that the page
tables implement `AddressSpace` and that a frame is freed with its last mapping,
need in addition that `free_pages` clears `ref` (`ResetsRef`); the buddy system
does not, and run `paging_buddy_ref` shows the last of the three fail there.

The type invariants `TypeOK` of the modules and `HeadFlags`, `VectorsReady` are
there for the proofs; no run repeats them.

What stays with TLC, and why:

- Liveness (`RequestServed`, `TestEnds`, `PutcReturns`, `InputServed`,
  `PanicReachesMonitor` but for its safety half): fairness and ENABLED are out
  of the provers' reach.
- `SelfTestPasses`: `default_check` is a script of fixed calls on one region, so
  a run covers it. It states every assertion of the two functions but those on
  `page_ref` (`default_pmm.c:286`), which `DefaultPmm` has no variable for; `page2pa`
  below the end of memory is that the page number is below `NPage`.
- `FormatAgrees`: `Format` follows `vprintfmt` from directive to directive with
  recursive operators, about which the provers can say nothing; the run goes
  through every directive and all small numbers.

## Plan

All components are modelled as far as they will be, and every safety property
that is not in the list above is a theorem. What could come next: the loops of
`Format` as recursive functions, as in `Memory`, `Strings`, `Stab`, `Monitor`
and `BootLoad`, and their invariants.

## Not modelled

The assembly that enters protected mode and asks the BIOS for the memory map,
I/O port timing, the page attributes the code never reads, the choice of the
display adapter, the commands' own output but for the backtrace, functions
nothing calls (`my_default_check`, `list_del_init`), what `buddy_check` prints,
and the build and grading scripts. Lab 1's copies of files that lab 2 repeats
are covered with their lab 2 twins; `PROJECT.json` names lines of either.

## Running

    tlc -workers 2 -config MCPaging.cfg MCPaging
    tlapm DefaultPmmProof.tla
    tlapm ScreenProof.tla
    tlapm BootProof.tla
    tlapm ConsoleInputProof.tla
    tlapm FreeListProof.tla
    tlapm BuddyPmmProof.tla
    tlapm PagingProof.tla

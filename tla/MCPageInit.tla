----------------------------- MODULE MCPageInit -----------------------------
(* Machines with the kernel's own sizes: one piece of memory from 1 MB on,  *)
(* up to KMEMSIZE.                                                          *)
EXTENDS PageInit

VARIABLE memory     \* the machine's memory in MB

MB == 1048576
KernelEnd == MB + MB \div 8     \* lab 2 as it is built, rounded

Init == memory \in {8, 64, 128, 256, 512, 896}
Spec == Init /\ [][UNCHANGED memory]_memory

(* memlayout.h, "the maximum amount of physical memory": see PagesMapped. *)
PagesAlwaysMapped ==
    PagesMapped(<<[addr |-> MB, size |-> (memory - 1) * MB, type |-> E820_ARM]>>, KernelEnd)
=============================================================================

------------------------------- MODULE MCPMM --------------------------------
(* Instances of PMM for TLC.  A page is 4 bytes, "1 MB" is 4 and "8 MB" is *)
(* 16, so the kernel space is the pages 1 to 4.                            *)
EXTENDS PMM

Machine(avail, end, addr, size) ==
    [avail |-> avail, kernel_end |-> end,
     info_addr |-> addr, info_size |-> size]

From(addr, end) == [addr |-> addr, len |-> end - addr]

(* Machines whose usable memory is one range from the kernel on.  The boot *)
(* information lies where it is copied to, behind that, overlapping it     *)
(* from above, or outside the kernel space; then the ones on which         *)
(* kernel_main stops: information too low, of a wrong size, not mapped,    *)
(* a copy that leaves the mapped memory, and no memory.                    *)
Usable == {From(4, 32)}
MCMachines == {Machine(Usable, 10, 12, 4), Machine(Usable, 10, 16, 6),
               Machine(Usable, 8, 14, 3), Machine(Usable, 5, 20, 7),
               Machine(Usable, 10, 2, 4), Machine(Usable, 10, 12, 1),
               Machine(Usable, 10, 30, 4), Machine(Usable, 10, 26, 6),
               Machine({}, 10, 12, 4)}

(* Some usable memory below 1 MB as well, as on a PC. *)
MCLowMemory == {Machine({From(0, 4), From(4, 28)}, 10, 12, 4)}

(* The boot information lies between the end of the kernel and the next    *)
(* page and reaches into it.                                               *)
MCStraddle == {Machine(Usable, 10, 10, 6)}
=============================================================================

------------------------------ MODULE BootInfo ------------------------------
(***************************************************************************)
(* BOOT_INFO (libk/src/multiboot2.cpp, from line 151) and the checks of    *)
(* MULTIBOOT2::multiboot2_init on the information the boot loader left in  *)
(* memory.  Memory is a function from byte addresses to what the byte is:  *)
(* byte number k >= 0 of the boot information, or Other.                   *)
(***************************************************************************)
EXTENDS Integers

CONSTANTS InfoAlign,    \* 8: alignment of the boot information
          LowLimit,     \* 0x100000 and 0x1000000: the range multiboot2_init
          HighLimit,    \*   accepts
          MinSize,      \* 8 and 65536: the sizes it accepts
          MaxSize,
          MappedEnd,    \* boot.S maps the addresses below this one
          MemEnd        \* the addresses of the model

ASSUME BootInfoAssumption ==
    /\ {InfoAlign, MinSize} \subseteq Nat \ {0}
    /\ {LowLimit, HighLimit, MaxSize, MappedEnd, MemEnd} \subseteq Nat
    /\ MappedEnd <= MemEnd

VARIABLES boot_info_addr, boot_info_size, multiboot2_magic, inited,
          mem,          \* physical memory
          info_size     \* the size the boot loader wrote in the header

boot_vars == <<boot_info_addr, boot_info_size, multiboot2_magic, inited>>

Other == -1
Mapped(addr, n) == addr + n <= MappedEnd

(* The size field, when the header is where addr points in memory m. *)
ReadSize(m, addr) == IF m[addr] = 0 THEN info_size ELSE 0

(* multiboot2_init looks at the header only behind these checks. *)
AddrAccepted(addr) ==
    /\ multiboot2_magic
    /\ addr % InfoAlign = 0
    /\ addr # 0
    /\ addr >= LowLimit /\ addr <= HighLimit

SizeAccepted(size) == size >= MinSize /\ size <= MaxSize

(* A read outside the mapped memory: there is no page-fault handler yet.   *)
InitFaults(addr) == AddrAccepted(addr) /\ ~Mapped(addr, 1)

(* What BOOT_INFO::init() returns when boot_info_addr is addr, and what it *)
(* leaves in boot_info_size: the size is stored before it is checked.      *)
InitReturns(m, addr) == AddrAccepted(addr) /\ SizeAccepted(ReadSize(m, addr))
SizeAfterInit(m, addr) ==
    IF AddrAccepted(addr) THEN ReadSize(m, addr) ELSE boot_info_size

(* BOOT_INFO::init(): inited is set whatever multiboot2_init returns. *)
init ==
    /\ ~InitFaults(boot_info_addr)
    /\ boot_info_size' = SizeAfterInit(mem, boot_info_addr)
    /\ inited' = TRUE
    /\ UNCHANGED <<boot_info_addr, multiboot2_magic>>

(* memcpy (libc/src/string/string.c): a forward byte copy.  When the       *)
(* destination starts d bytes inside the source, the first d bytes repeat. *)
memcpy(m, dest, src, n) ==
    [a \in DOMAIN m |->
        IF a \in dest .. dest + n - 1
        THEN LET k == a - dest
                 d == dest - src
             IN  m[src + (IF d > 0 THEN k % d ELSE k)]
        ELSE m[a]]

(* The boot information lies complete at addr. *)
IntactAt(addr) == \A k \in 0 .. info_size - 1 :
                     addr + k \in DOMAIN mem /\ mem[addr + k] = k
=============================================================================

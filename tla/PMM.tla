-------------------------------- MODULE PMM ---------------------------------
(***************************************************************************)
(* PMM (libk/src/pmm.cpp): the physical memory manager, over two FIRSTFIT  *)
(* objects, one for the kernel space and one for the rest, and the boot    *)
(* information it reads and moves.  The calls of kernel_main up to the end *)
(* of PMM::init are a sequence (interrupts are off), which "pc" follows    *)
(* call by call; then callers use the interface in any order.              *)
(*                                                                         *)
(* "own" are the pages PMM::init takes for the kernel image and the boot   *)
(* information, "owned" the pages callers own, both as page numbers of     *)
(* physical memory, worked out from the addresses PMM answers.             *)
(***************************************************************************)
EXTENDS BootInfo, FiniteSets, FiniteSetsExt

CONSTANTS PageSize, SizeMod, MapBits, Overrun,
          KernelStart,      \* common::KERNEL_START_ADDR
          KernelSpace,      \* common::KERNEL_SPACE_SIZE
          Machines,         \* the boot situations: see Init
          Lens,             \* the _len callers pass
          CallAddrs         \* the _addr callers pass

(* common.h: 4 KB pages, 64-bit sizes, a kernel space of whole pages that  *)
(* the bitmap of an allocator covers.                                      *)
ASSUME PMMAssumption ==
    /\ PageSize \in Nat \ {0} /\ SizeMod \in Nat /\ SizeMod > 1
    /\ MapBits \in Nat /\ Overrun \in Nat /\ MapBits + Overrun < SizeMod - 1
    /\ 2 * MapBits < SizeMod
    /\ KernelStart \in Nat /\ KernelStart % PageSize = 0
    /\ KernelSpace \in Nat /\ KernelSpace % PageSize = 0
    /\ KernelSpace \div PageSize <= MapBits
    /\ KernelSpace + PageSize * (MapBits + 1) <= SizeMod
    /\ Lens \subseteq Nat /\ CallAddrs \subseteq Nat

VARIABLES pc, machine,
          length, non_kernel_space_length,
          k_constructed, k_start, k_length, k_map, k_free, k_used, k_held,
          n_constructed, n_start, n_length, n_map, n_free, n_used, n_held,
          answer, own, owned

K == INSTANCE FirstFit WITH
        Regions <- {}, Addrs <- CallAddrs,
        constructed <- k_constructed, allocator_start_addr <- k_start,
        allocator_length <- k_length, map <- k_map,
        allocator_free_count <- k_free, allocator_used_count <- k_used,
        held <- k_held
N == INSTANCE FirstFit WITH
        Regions <- {}, Addrs <- CallAddrs,
        constructed <- n_constructed, allocator_start_addr <- n_start,
        allocator_length <- n_length, map <- n_map,
        allocator_free_count <- n_free, allocator_used_count <- n_used,
        held <- n_held

k_vars == <<k_constructed, k_start, k_length, k_map, k_free, k_used, k_held>>
n_vars == <<n_constructed, n_start, n_length, n_map, n_free, n_used, n_held>>
i_vars == <<boot_vars, mem, info_size>>
p_vars == <<length, non_kernel_space_length>>
vars == <<pc, machine, i_vars, p_vars, k_vars, n_vars, answer, own, owned>>

kernel_space_start     == KernelStart
kernel_space_length    == KernelSpace
non_kernel_space_start_Early == KernelStart + KernelSpace - PageSize    \* mutation
non_kernel_space_start == KernelStart + KernelSpace

InPages_Bytes(bytes) == bytes                                           \* mutation
InPages(bytes) == bytes \div PageSize

ALIGN(x, align) == ((x + align - 1) \div align) * align

(* The page numbers of n pages at addr. *)
PagesAt(addr, n) == IF n = 0 THEN {}
                    ELSE addr \div PageSize .. (addr + n * PageSize - 1) \div PageSize

(* What the memory map of a machine says is usable, and its total length   *)
(* (module Multiboot2 models how get_memory finds it).                     *)
TotalLen(avail) == FoldSet(LAMBDA r, sum : r.len + sum, 0, avail) % SizeMod
AvailableBytes == UNION {r.addr .. r.addr + r.len - 1 : r \in machine.avail}

(***************************************************************************)
(* The machines PMM is written for: what is usable is nothing, or the      *)
(* kernel space and as many pages more as the second bitmap has bits, and  *)
(* the kernel image and the largest boot information multiboot2_init lets  *)
(* pass fit the kernel space together.                                     *)
(***************************************************************************)
ASSUME MachinesAssumption ==
    \A m \in Machines :
        /\ m.info_addr \in Nat /\ m.info_size \in Nat
        /\ m.kernel_end \in KernelStart + 1 .. KernelStart + KernelSpace
        /\ ALIGN(m.kernel_end, PageSize) + ALIGN(MaxSize, PageSize)
               <= KernelStart + KernelSpace
        /\ \/ TotalLen(m.avail) = 0
           \/ TotalLen(m.avail) \in KernelSpace ..
                                     KernelSpace + PageSize * (MapBits + 1) - 1

(* The boot loader has put the boot information somewhere; the allocators  *)
(* are zeroed memory, and so is the memory behind their bitmaps (.bss).    *)
Init ==
    /\ pc = "boot_info"
    /\ machine \in Machines
    /\ boot_info_addr = machine.info_addr
    /\ info_size = machine.info_size
    /\ multiboot2_magic = TRUE
    /\ boot_info_size = 0 /\ inited = FALSE
    /\ mem = [a \in 0 .. MemEnd - 1 |->
                IF a \in machine.info_addr .. machine.info_addr + machine.info_size - 1
                THEN a - machine.info_addr ELSE Other]
    /\ length = 0 /\ non_kernel_space_length = 0
    /\ K!Init /\ N!Init
    /\ \A i \in K!Foreign : ~k_map[i] /\ ~n_map[i]
    /\ own = {} /\ owned = {}

(* kernel_main: BOOT_INFO::init(), or halt. *)
BootInfoInit ==
    /\ pc = "boot_info"
    /\ init
    /\ pc' = IF InitReturns(mem, boot_info_addr) THEN "pmm_init" ELSE "halt"
    /\ UNCHANGED <<machine, mem, info_size, p_vars, k_vars, n_vars, answer, own, owned>>

(* PMM::init up to the two static allocators, or halt without memory.      *)
InitSpaces ==
    /\ pc = "pmm_init"
    /\ LET len == TotalLen(machine.avail) IN
       IF len = 0
       THEN pc' = "halt" /\ UNCHANGED <<p_vars, k_vars, n_vars, answer>>
       ELSE /\ pc' = "reserve"
            /\ length' = len
            /\ non_kernel_space_length' = (len - kernel_space_length) % SizeMod
            /\ K!FIRSTFIT(kernel_space_start, InPages(kernel_space_length))
            /\ N!FIRSTFIT(non_kernel_space_start, InPages(non_kernel_space_length'))
    /\ UNCHANGED <<machine, i_vars, own, owned>>

kernel_pages_Down == (machine.kernel_end - KernelStart) \div PageSize   \* mutation
kernel_pages ==
    (ALIGN(machine.kernel_end, PageSize) - ALIGN(KernelStart, PageSize)) \div PageSize

(* PMM::init: take the pages of the kernel image out of the kernel space.  *)
ReserveKernel ==
    /\ pc = "reserve"
    /\ K!alloc_at(KernelStart, kernel_pages)
    /\ IF K!Claimable(KernelStart, kernel_pages)
       THEN pc' = "move_boot_info" /\ own' = own \cup PagesAt(KernelStart, kernel_pages)
       ELSE pc' = "halt" /\ own' = own
    /\ UNCHANGED <<machine, i_vars, p_vars, n_vars, owned>>

info_pages_Down == boot_info_size \div PageSize                        \* mutation
info_pages == (boot_info_size + PageSize - 1) \div PageSize

(* PMM::move_boot_info: take the pages; the answer is not looked at. *)
MoveBootInfo ==
    /\ pc = "move_boot_info"
    /\ K!alloc(info_pages)
    /\ own' = IF answer'.pages = {} THEN own
              ELSE own \cup PagesAt(answer'.addr, info_pages)
    /\ pc' = "copy"
    /\ UNCHANGED <<machine, i_vars, p_vars, n_vars, owned>>

CopyFaults == \/ ~Mapped(boot_info_addr, info_pages * PageSize)
              \/ ~Mapped(answer.addr, info_pages * PageSize)

(* The rest of move_boot_info: copy whole pages, set the address and check *)
(* the header again, whose result is not looked at.                        *)
CopyBootInfo ==
    /\ pc = "copy" /\ ~CopyFaults
    /\ mem' = memcpy(mem, answer.addr, boot_info_addr, info_pages * PageSize)
    /\ boot_info_addr' = answer.addr /\ inited' = TRUE
    /\ boot_info_size' = SizeAfterInit(mem', answer.addr)
    /\ pc' = "ready"
    /\ UNCHANGED <<machine, info_size, multiboot2_magic, p_vars,
                   k_vars, n_vars, answer, own, owned>>

(* Outside the mapped memory the machine resets. *)
Fault ==
    /\ \/ pc = "boot_info" /\ InitFaults(boot_info_addr)
       \/ pc = "copy" /\ CopyFaults
    /\ pc' = "fault"
    /\ UNCHANGED <<machine, i_vars, p_vars, k_vars, n_vars, answer, own, owned>>

-----------------------------------------------------------------------------
(* The interface.  Each call goes to one allocator and leaves the other    *)
(* one alone.                                                              *)
OnK == UNCHANGED <<pc, machine, i_vars, p_vars, n_vars, own>>
OnN == UNCHANGED <<pc, machine, i_vars, p_vars, k_vars, own>>
Ready == pc = "ready"

Granted == owned' = owned \cup IF answer'.pages = {} THEN {}
                                ELSE PagesAt(answer'.addr, answer'.asked)

alloc_pages(len)              == Ready /\ N!alloc(len) /\ Granted /\ OnN
alloc_pages_at(addr, len)     == Ready /\ N!alloc_at(addr, len) /\ Granted /\ OnN
alloc_pages_kernel(len)       == Ready /\ K!alloc(len) /\ Granted /\ OnK
alloc_pages_kernel_at(addr, len) ==
    Ready /\ K!alloc_at(addr, len) /\ Granted /\ OnK
alloc_page        == alloc_pages(1)
alloc_page_kernel == alloc_pages_kernel(1)

InKernelSpace_Closed(addr) ==               \* mutation: the end included
    addr >= kernel_space_start /\ addr <= kernel_space_start + kernel_space_length
InKernelSpace(addr) ==
    /\ addr >= kernel_space_start
    /\ addr < kernel_space_start + kernel_space_length
InNonKernelSpace(addr) ==
    /\ addr >= non_kernel_space_start
    /\ addr < non_kernel_space_start + non_kernel_space_length

(* PMM::free_pages picks the allocator by the address; an address in       *)
(* neither space fails an assert, which prints and goes on.                *)
free_pages(addr, len) ==
    /\ Ready
    /\ owned' = owned \ PagesAt(addr, len)
    /\ CASE InKernelSpace(addr) -> K!free(addr, len) /\ OnK
         [] ~InKernelSpace(addr) /\ InNonKernelSpace(addr) -> N!free(addr, len) /\ OnN
         [] OTHER -> OnK /\ UNCHANGED k_vars /\ answer' = K!Answer("free", 0, 0, {})
free_page(addr) == free_pages(addr, 1)

get_used_pages_count == (k_used + n_used) % SizeMod
get_free_pages_count == (k_free + n_free) % SizeMod

-----------------------------------------------------------------------------
(* Callers ask for whole pages inside a space and give back pages they own,*)
(* of one space at a time.                                                 *)
OneSpace(addr, len) == K!InsideRegion(addr, len) /\ N!InsideRegion(addr, len)
GivesBack(addr, len) == PagesAt(addr, len) \subseteq owned /\ OneSpace(addr, len)

Boot == BootInfoInit \/ InitSpaces \/ ReserveKernel \/ MoveBootInfo \/ CopyBootInfo \/ Fault
AllocAny ==
    \/ alloc_page
    \/ alloc_page_kernel
    \/ \E len \in Lens : alloc_pages(len)
    \/ \E len \in Lens : alloc_pages_kernel(len)
AllocAt ==
    \E addr \in CallAddrs, len \in Lens :
        /\ OneSpace(addr, len)
        /\ alloc_pages_at(addr, len) \/ alloc_pages_kernel_at(addr, len)
FreeOwned ==
    \/ \E addr \in CallAddrs : GivesBack(addr, 1) /\ free_page(addr)
    \/ \E addr \in CallAddrs, len \in Lens : GivesBack(addr, len) /\ free_pages(addr, len)
Stopped == pc \in {"halt", "fault"} /\ UNCHANGED vars      \* hlt loop, reset

Next == Boot \/ AllocAny \/ AllocAt \/ FreeOwned \/ Stopped
Spec == Init /\ [][Next]_vars

-----------------------------------------------------------------------------
TypeOK ==
    /\ pc \in {"boot_info", "pmm_init", "reserve", "move_boot_info", "copy",
               "ready", "halt", "fault"}
    /\ machine \in Machines
    /\ {boot_info_addr, boot_info_size, info_size} \subseteq Nat
    /\ inited \in BOOLEAN /\ multiboot2_magic \in BOOLEAN
    /\ mem \in [0 .. MemEnd - 1 -> Nat \cup {Other}]
    /\ length \in 0 .. SizeMod - 1
    /\ non_kernel_space_length \in 0 .. SizeMod - 1
    /\ K!TypeOK /\ N!TypeOK
    /\ own \subseteq Nat /\ owned \subseteq Nat

(* The pages marked in the two bitmaps, as pages of physical memory. *)
MarkedK == {k_start \div PageSize + i : i \in {j \in 0 .. MapBits - 1 : k_map[j]}}
MarkedN == {n_start \div PageSize + i : i \in {j \in 0 .. MapBits - 1 : n_map[j]}}

(* The counts PMM reports are the numbers of pages in use and free in the  *)
(* two spaces together (pmm.cpp:116, 122).                                 *)
CountsTrue ==
    LET used == Cardinality(own) + Cardinality(owned) IN
    get_used_pages_count = used /\ get_free_pages_count = k_length + n_length - used

(* No page is lost or kept: through any sequence of calls the pages marked *)
(* by the two allocators are the kernel's own and those callers own, and   *)
(* the counts of both together tell so.  A free that went to the wrong     *)
(* allocator would be ignored there (pmm.cpp:167, 171, firstfit.cpp:112).  *)
NothingLost == Ready => MarkedK \cup MarkedN = own \cup owned /\ CountsTrue

(* The pages the linker put the kernel on. *)
KernelImage == {a \div PageSize : a \in KernelStart .. machine.kernel_end - 1}

(* The kernel image and the boot information stay the kernel's: no call    *)
(* makes one of their pages a caller's, the boot information is not copied *)
(* over the kernel, and no page is both in the kernel space and outside it *)
(* (pmm.cpp:54-60, 75-80).                                                 *)
KernelPagesKept ==
    Ready => /\ own \cap owned = {}
             /\ KernelImage \subseteq own
             /\ PagesAt(boot_info_addr, info_pages) \subseteq own \ KernelImage
             /\ MarkedK \cap MarkedN = {}

(* When init has succeeded the boot information is complete at its new     *)
(* address in the kernel space, whatever it was next to before             *)
(* (pmm.cpp:18-25).                                                        *)
BootInfoMoved ==
    Ready => /\ IntactAt(boot_info_addr)
             /\ boot_info_size = info_size
             /\ InKernelSpace(boot_info_addr)

(* No call of the interface hands out a page that belongs to the kernel or *)
(* to another caller, across both allocators.                              *)
NoPageTwice ==
    [][Ready /\ answer'.pages # {} =>
         PagesAt(answer'.addr, answer'.asked) \cap (owned \cup own) = {}]_vars

(* Every page handed out for use outside the kernel space is memory the    *)
(* boot loader reported as available (pmm.cpp:60).                         *)
HandedOutIsAvailable ==
    Ready => \A p \in owned : p * PageSize .. p * PageSize + PageSize - 1
                                  \subseteq AvailableBytes
=============================================================================

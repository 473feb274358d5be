-------------------------------- MODULE Boot --------------------------------
(***************************************************************************)
(* platform/x86_64/boot/boot.S: from the 32-bit protected mode in which    *)
(* the boot loader starts the kernel to the first call of C++ code.  The   *)
(* CPU's rules for the switch to 64 bits are in the properties.            *)
(***************************************************************************)
EXTENDS Integers

CONSTANTS PtEntries,        \* 512: entries of a page table
          StackTops,        \* the addresses the linker may give stack_top
          StackSize,        \* 16384
          StackPage         \* 4096

ASSUME BootAssumption ==
    /\ PtEntries \in Nat \ {0} /\ StackTops \subseteq Nat
    /\ StackPage \in Nat \ {0} /\ StackPage % 16 = 0
    /\ StackSize \in Nat /\ StackSize >= StackPage

VARIABLES boot,             \* the step of _start and _start64
          cr,               \* the control bits that are set
          cr3, linked, pt,  \* the page tables: root, upper levels, entries
          cs, gdt,          \* the code segment, the descriptor table
          stack_top, rsp

boot_vars == <<boot, cr, cr3, linked, pt, cs, gdt, stack_top, rsp>>

(* .skip leaves the tables zero; the loader has set PE and maybe EM. *)
BootInit ==
    /\ boot = "pae" /\ cr = {"PE", "EM"} /\ cr3 = "none"
    /\ linked = {} /\ pt = [e \in 0 .. PtEntries - 1 |-> -1]
    /\ cs = "loader" /\ gdt = "loader"
    /\ stack_top \in StackTops /\ rsp = 0

Do(step, next) == boot = step /\ boot' = next /\ UNCHANGED stack_top

EnablePae ==
    /\ Do("pae", "link")
    /\ cr' = cr \cup {"PAE"}
    /\ UNCHANGED <<cr3, linked, pt, cs, gdt, rsp>>

(* Entry 0 of pml4, pdpt and pd, each present and writable. *)
LinkTables ==
    /\ Do("link", "fill_pt")
    /\ linked' = {"pml4", "pdpt", "pd"}
    /\ UNCHANGED <<cr, cr3, pt, cs, gdt, rsp>>

(* .fill_pt: one turn of the loop writes the next entry. *)
FillPt_Stride ==            \* mutation: the frame does not advance with the entry
    /\ boot = "fill_pt" /\ UNCHANGED stack_top
    /\ LET e == CHOOSE n \in 0 .. PtEntries - 1 : pt[n] = -1 /\ \A m \in 0 .. n - 1 : pt[m] # -1 IN
       pt' = [pt EXCEPT ![e] = e \div 2] /\ boot' = IF e = PtEntries - 1 THEN "cr3" ELSE boot
    /\ UNCHANGED <<cr, cr3, linked, cs, gdt, rsp>>
FillPt ==
    /\ boot = "fill_pt" /\ UNCHANGED stack_top
    /\ LET e == CHOOSE n \in 0 .. PtEntries - 1 : pt[n] = -1 /\ \A m \in 0 .. n - 1 : pt[m] # -1 IN
       pt' = [pt EXCEPT ![e] = e] /\ boot' = IF e = PtEntries - 1 THEN "cr3" ELSE boot
    /\ UNCHANGED <<cr, cr3, linked, cs, gdt, rsp>>

LoadCr3 ==
    /\ Do("cr3", "lme")
    /\ cr3' = "pml4"
    /\ UNCHANGED <<cr, linked, pt, cs, gdt, rsp>>

EnableLongMode ==
    /\ Do("lme", "pg")
    /\ cr' = cr \cup {"LME"}
    /\ UNCHANGED <<cr3, linked, pt, cs, gdt, rsp>>

EnablePaging ==
    /\ Do("pg", "lgdt")
    /\ cr' = cr \cup {"PG"}
    /\ UNCHANGED <<cr3, linked, pt, cs, gdt, rsp>>

(* lgdt, then the jump through code_desc, which has the long mode bit. *)
LoadGdt ==
    /\ Do("lgdt", "jmp")
    /\ gdt' = "gdt64"
    /\ UNCHANGED <<cr, cr3, linked, pt, cs, rsp>>

FarJump ==
    /\ Do("jmp", "sse")
    /\ cs' = "code_desc"
    /\ UNCHANGED <<cr, cr3, linked, pt, gdt, rsp>>

(* _start64 reloads the data segments from the same table; then SSE. *)
EnableSse ==
    /\ Do("sse", "stack")
    /\ cr' = (cr \ {"EM"}) \cup {"MP", "OSFXSR", "OSXMMEXCPT"}
    /\ UNCHANGED <<cr3, linked, pt, cs, gdt, rsp>>

(* stack_top is the low end of the stack; rsp is set behind its end and    *)
(* rounded down to a page.                                                 *)
StackPointer(low) == ((low + StackSize) \div StackPage) * StackPage

SetStack ==
    /\ Do("stack", "cpp_init")
    /\ rsp' = StackPointer(stack_top)
    /\ UNCHANGED <<cr, cr3, linked, pt, cs, gdt>>

BootStep == \/ EnablePae \/ LinkTables \/ FillPt \/ LoadCr3 \/ EnableLongMode
            \/ EnablePaging \/ LoadGdt \/ FarJump \/ EnableSse \/ SetStack

-----------------------------------------------------------------------------
(* Where the CPU finds a page once paging is on; -1: a fault. *)
Translate(page) ==
    IF cr3 = "pml4" /\ linked = {"pml4", "pdpt", "pd"} /\ page \in DOMAIN pt
    THEN pt[page] ELSE -1

(* The C++ code gets a stack that lies inside the space reserved for it,   *)
(* loses less than a page to the rounding and is aligned (boot.S:246-251). *)
StackInside ==
    boot = "cpp_init" => /\ rsp <= stack_top + StackSize
                         /\ rsp > stack_top + StackSize - StackPage
                         /\ rsp % 16 = 0

(* From the moment paging is on every page of the kernel is where it was   *)
(* before, so the next instruction is found; paging comes on only with PAE *)
(* and long mode, 64-bit code runs only behind paging, and the C++ code    *)
(* gets a sound stack (boot.S:166-213, boot.S:246-251).                    *)
SwitchSound ==
    /\ "PG" \in cr => /\ {"PAE", "LME"} \subseteq cr
                      /\ \A page \in 0 .. PtEntries - 1 : Translate(page) = page
    /\ cs = "code_desc" => "PG" \in cr /\ gdt = "gdt64"
    /\ StackInside
=============================================================================

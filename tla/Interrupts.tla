----------------------------- MODULE Interrupts -----------------------------
(***************************************************************************)
(* INTERRUPTS (platform/x86_64/src/intr.cpp), the stubs of idt/idt.S and   *)
(* TIMER (platform/x86_64/src/timer.cpp), with the part of kernel_main     *)
(* that starts them.  The CPU runs kernel_main ("pc") and, between any two *)
(* of its steps, an interrupt the PIC offers while the interrupt flag is   *)
(* set, or an exception.                                                   *)
(*                                                                         *)
(* Once kernel_main is in its hlt loop, drivers for DriverVectors use the  *)
(* interface the way TIMER does (register a handler, then enable the line) *)
(* and may close the interrupt flag for a while.  The kernel has no such   *)
(* driver yet.                                                             *)
(***************************************************************************)
EXTENDS PIC, Stubs

CONSTANTS Devices,          \* the lines that devices raise
          Exceptions,       \* the exceptions the CPU raises
          DriverVectors,    \* the vectors that get a driver
          TickPeriod,       \* 1000: timer interrupts per message
          IdtAddrs,         \* the addresses the linker may give the idt array
          LowMemory,        \* 0x100000: the end of the first megabyte
          Uint32, Uint48    \* 2^32 and 2^48

(* Vector 15 is reserved: the CPU raises no exception on it.  linker.ld    *)
(* places the kernel at 1 MB, so the idt array lies below 4 GB.            *)
ASSUME InterruptsAssumption ==
    /\ Devices \subseteq Lines
    /\ Exceptions \subseteq (0 .. 20) \ {15}
    /\ DriverVectors \subseteq 33 .. 47
    /\ TickPeriod \in Nat \ {0}
    /\ Uint32 \in Nat \ {0} /\ IdtAddrs \subseteq 0 .. Uint32 - 1
    /\ LowMemory \in Nat /\ Uint48 \in Nat

VARIABLES pc,               \* where kernel_main is, and for which vector
          idt_addr,         \* &idt
          idtr_base,        \* the base lidt loaded; the reset value is 0
          idt,              \* the vectors with a present gate
          interrupt_handlers,
          rflags_if,        \* the interrupt flag
          active,           \* the interrupt being handled
          regs, stack,      \* the CPU's registers, the words pushed for it
          mask,             \* the local of enable_irq
          g_ticks,          \* modulo TickPeriod, the only use made of it
          acks              \* timer interrupts the CPU took, modulo TickPeriod

tables == <<idt_addr, idtr_base, idt, interrupt_handlers>>
ticks  == <<g_ticks, acks>>
frame  == <<regs, stack>>
vars == <<pic_vars, tables, ticks, frame, pc, rflags_if, active, mask>>

IRQ0 == 32
INTERRUPT_MAX == 32
Vectors == 0 .. 47          \* the vectors with a stub, without 128

At(step, vec) == [at |-> step, vec |-> vec]
Idle == [vec |-> -1, at |-> "none", err_code |-> "0"]
Quiet == active = Idle

(* The boot loader starts the kernel with interrupts off; the BIOS has     *)
(* left lines unmasked.                                                    *)
Init ==
    /\ irr = {} /\ isr = {} /\ imr = {}
    /\ pc = At("intr_init", IRQ0) /\ idt_addr \in IdtAddrs
    /\ idtr_base = 0 /\ idt = {} /\ interrupt_handlers = [v \in Vectors |-> "null"]
    /\ rflags_if = FALSE /\ active = Idle /\ mask = {}
    /\ regs = Interrupted /\ stack = <<>>
    /\ g_ticks = 0 /\ acks = 0

-----------------------------------------------------------------------------
(* INTERRUPTS::pic_init restarts the chips and masks every line. *)
pic_init == Restarted(Lines)

(* The gates INTERRUPTS::init builds with SET_EXCP and SET_IRQ, and the    *)
(* vectors to which it gives the default handler.                          *)
Gates == 0 .. 20 \cup {IRQ0 + l : l \in Lines}
Defaults == 0 .. INTERRUPT_MAX - 1

(* init's own checks on the address of the array.  idtr_t has a base of 32 *)
(* bits; idt_load and lidt read 64, and behind idtr lie bytes of zero that *)
(* align the next array.                                                   *)
InitAccepts(addr) == addr % 16 = 0 /\ addr >= LowMemory /\ addr < Uint48
IdtrBase(addr) == addr % Uint32
IdtLoads(base, limit) == limit >= 7 /\ base % 16 = 0

(* INTERRUPTS::init, or false and halt when the idt array is misplaced. *)
IntrInit ==
    /\ Quiet /\ pc.at = "intr_init"
    /\ IF InitAccepts(idt_addr) /\ IdtLoads(IdtrBase(idt_addr), 256 * 16 - 1)
       THEN /\ pc' = At("pit", IRQ0)
            /\ idt' = Gates /\ idtr_base' = IdtrBase(idt_addr)
            /\ interrupt_handlers' = [v \in Vectors |->
                   IF v \in Defaults THEN "default" ELSE interrupt_handlers[v]]
            /\ pic_init
       ELSE pc' = At("stop", IRQ0) /\ UNCHANGED <<idtr_base, idt, interrupt_handlers, pic_vars>>
    /\ UNCHANGED <<idt_addr, ticks, rflags_if, active, mask>>

(* init_pit sets the rate at which line 0 is raised, which is left open. *)
InitPit ==
    /\ Quiet /\ pc.at = "pit" /\ pc' = At("register", IRQ0)
    /\ UNCHANGED <<pic_vars, tables, ticks, rflags_if, active, mask>>

(* The three calls of TIMER::init, and of a driver, one after the other. *)
AfterRegister == "read_mask"
AfterEnableIrq(vec) == IF vec = IRQ0 THEN "sti" ELSE "hlt"
HandlerOf(vec) == IF vec = IRQ0 THEN "timer" ELSE "driver"

register_intr_handler ==
    /\ Quiet /\ pc.at = "register" /\ pc' = At(AfterRegister, pc.vec)
    /\ interrupt_handlers' = [interrupt_handlers EXCEPT ![pc.vec] = HandlerOf(pc.vec)]
    /\ UNCHANGED <<pic_vars, idt_addr, idtr_base, idt, ticks, rflags_if, active, mask>>

(* enable_irq finds the chip and its bit in uint8_t arithmetic, reads the  *)
(* mask of the chip and writes it back without the bit.                    *)
Index(irq_num) == (irq_num - 32) % 256
MaskChip(irq_num) == IF Index(irq_num) >= 8 THEN Slave ELSE Master
MaskBit(irq_num) == IF Index(irq_num) >= 8 THEN Index(irq_num) - 8 ELSE Index(irq_num)

enable_irq_read_Assumed ==  \* mutation: the mask is taken to be 0xFF
    /\ Quiet /\ pc.at = "read_mask" /\ pc' = At("write_mask", pc.vec)
    /\ mask' = 0 .. 7
    /\ UNCHANGED <<pic_vars, tables, ticks, rflags_if, active>>
enable_irq_read ==
    /\ Quiet /\ pc.at = "read_mask" /\ pc' = At("write_mask", pc.vec)
    /\ LET chip == MaskChip(pc.vec) IN mask' = {l - Min(chip) : l \in imr \cap chip}
    /\ UNCHANGED <<pic_vars, tables, ticks, rflags_if, active>>

enable_irq_write ==
    /\ Quiet /\ pc.at = "write_mask" /\ pc' = At(AfterEnableIrq(pc.vec), pc.vec)
    /\ LET chip == MaskChip(pc.vec) IN
       imr' = (imr \ chip) \cup {Min(chip) + b : b \in mask \ {MaskBit(pc.vec)}}
    /\ UNCHANGED <<irr, isr, tables, ticks, rflags_if, active, mask>>

enable ==
    /\ Quiet /\ pc.at = "sti" /\ pc' = At("message", pc.vec)
    /\ rflags_if' = TRUE
    /\ UNCHANGED <<pic_vars, tables, ticks, active, mask>>

(* The messages of TIMER::init and kernel_main, then CPU::halt's loop.     *)
(* Module Console has what they do.                                        *)
Messages ==
    /\ Quiet /\ pc.at = "message" /\ pc' = At("hlt", pc.vec)
    /\ UNCHANGED <<pic_vars, tables, ticks, rflags_if, active, mask>>

Kernel ==
    /\ \/ IntrInit \/ InitPit \/ register_intr_handler
       \/ enable_irq_read \/ enable_irq_write \/ enable \/ Messages
    /\ UNCHANGED frame

(* cli by a driver, which will call enable. *)
disable ==
    /\ Quiet /\ pc.at = "hlt" /\ pc' = At("sti", pc.vec)
    /\ rflags_if' = FALSE
    /\ UNCHANGED <<pic_vars, tables, ticks, frame, active, mask>>

StartDriver(vec) ==
    /\ Quiet /\ pc.at = "hlt" /\ interrupt_handlers[vec] = "null"
    /\ pc' = At("register", vec)
    /\ UNCHANGED <<pic_vars, tables, ticks, frame, rflags_if, active, mask>>

-----------------------------------------------------------------------------
(* irq_handler and isr_handler: call_irq and call_isr call the handler, or *)
(* return -1 when there is none.                                           *)
FirstStep_Bound(vec) ==     \* mutation: INTERRUPT_MAX where EXCP_MAX is meant
    IF vec > INTERRUPT_MAX THEN "iret"
    ELSE IF interrupt_handlers[vec] = "timer" THEN "tick" ELSE "spin"
FirstStep(vec) == CASE interrupt_handlers[vec] = "null"    -> "iret"
                    [] interrupt_handlers[vec] = "default" -> "spin"
                    [] interrupt_handlers[vec] = "timer"   -> "tick"
                    [] interrupt_handlers[vec] = "driver"  -> "eoi"

(* The CPU goes through an interrupt gate, which closes the flag and       *)
(* pushes below rsp, and the stub calls the handler.                       *)
Flags == IF rflags_if THEN "IF" ELSE "no IF"
Enter(vec) ==
    /\ Quiet /\ vec \in idt
    /\ stack' = AtCall(vec, [regs EXCEPT !["rflags"] = Flags])
    /\ regs' = AfterCall(regs)
    /\ active' = [vec |-> vec, at |-> FirstStep(vec), err_code |-> ErrorArgument(vec, stack')]
    /\ rflags_if' = FALSE

Take(line) ==
    /\ rflags_if /\ Offered = line
    /\ Enter(IRQ0 + line)
    /\ Acknowledge(line)
    /\ acks' = IF line = 0 THEN (acks + 1) % TickPeriod ELSE acks
    /\ UNCHANGED <<tables, g_ticks, pc, mask>>

Spurious ==
    /\ rflags_if /\ Offered \in Master
    /\ Enter(IRQ0 + SpuriousLine)
    /\ Withdraw(Offered)
    /\ UNCHANGED <<tables, ticks, pc, mask>>

(* An exception raised by a step of kernel_main. *)
Exception(vec) ==
    /\ Enter(vec)
    /\ UNCHANGED <<pic_vars, tables, ticks, pc, mask>>

(* timer_intr *)
TimerTick_NoReset ==        \* mutation: reset one tick late
    /\ active.at = "tick"
    /\ g_ticks' = IF g_ticks = TickPeriod THEN 0 ELSE g_ticks + 1
    /\ active' = [active EXCEPT !.at = "eoi"]
    /\ UNCHANGED <<pic_vars, tables, acks, frame, pc, rflags_if, mask>>
TimerTick_EarlyReset ==     \* mutation: reset one tick early
    /\ active.at = "tick"
    /\ g_ticks' = (g_ticks + 1) % (TickPeriod - 1)
    /\ active' = [active EXCEPT !.at = "eoi"]
    /\ UNCHANGED <<pic_vars, tables, acks, frame, pc, rflags_if, mask>>
TimerTick ==
    /\ active.at = "tick"
    /\ g_ticks' = (g_ticks + 1) % TickPeriod
    /\ active' = [active EXCEPT !.at = "eoi"]
    /\ UNCHANGED <<pic_vars, tables, acks, frame, pc, rflags_if, mask>>

(* send_eoi: TIMER passes it the vector. *)
ChipsToldEoi_Else(irq_num) == IF irq_num >= 8 THEN {Slave} ELSE {Master}   \* mutation
ChipsToldEoi(irq_num) == IF irq_num >= 8 THEN {Master, Slave} ELSE {Master}

send_eoi ==
    /\ active.at = "eoi"
    /\ isr' = isr \ UNION {First(chip, isr) : chip \in ChipsToldEoi(active.vec)}
    /\ active' = [active EXCEPT !.at = "iret"]
    /\ UNCHANGED <<irr, imr, tables, ticks, frame, pc, rflags_if, mask>>

(* popa_64 and iretq at the end of a stub; iretq sets rsp, which drops     *)
(* what the stub has left on the stack.                                    *)
iretq ==
    /\ active.at = "iret"
    /\ active' = Idle
    /\ LET popped == Returned(stack) IN
       /\ rflags_if' = (popped["rflags"] = "IF")
       /\ regs' = [popped EXCEPT !["rflags"] = "rflags"]
       /\ stack' = IF popped["rsp"] = "rsp" THEN <<>> ELSE stack
    /\ UNCHANGED <<pic_vars, tables, ticks, pc, mask>>

Handler == TimerTick \/ send_eoi \/ iretq

Device(line) ==
    /\ Raise(line)
    /\ UNCHANGED <<tables, ticks, frame, pc, rflags_if, active, mask>>

Next ==
    \/ Kernel \/ Handler \/ disable \/ Spurious
    \/ \E vec \in DriverVectors : StartDriver(vec)
    \/ \E vec \in Exceptions : Exception(vec)
    \/ \E line \in Devices : Take(line)
    \/ \E line \in Devices : Device(line)

(* The CPU goes on, takes what is offered while the flag is set, and the   *)
(* timer chip does not stop.                                               *)
Fairness ==
    /\ WF_vars(Kernel) /\ WF_vars(Handler)
    /\ WF_vars(Device(0))
    /\ \A line \in Devices : SF_vars(Take(line))

Spec == Init /\ [][Next]_vars /\ Fairness

-----------------------------------------------------------------------------
Steps == {"intr_init", "pit", "register", "read_mask", "write_mask", "sti", "message",
          "hlt", "stop"}

TypeOK ==
    /\ irr \subseteq Lines /\ isr \subseteq Lines /\ imr \subseteq Lines
    /\ pc \in [at : Steps, vec : Vectors]
    /\ idt_addr \in IdtAddrs /\ idtr_base \in 0 .. Uint32 - 1 /\ idt \subseteq Vectors
    /\ interrupt_handlers \in [Vectors -> {"null", "default", "timer", "driver"}]
    /\ rflags_if \in BOOLEAN
    /\ regs \in [Registers -> Registers \cup {"0", "any"}]
    /\ stack \in Seq(Registers \cup {"error_code", "IF", "no IF"})
    /\ active \in [vec : Vectors \cup {-1}, err_code : {"0", "error_code"},
                   at : {"none", "tick", "eoi", "iret", "spin"}]
    /\ mask \subseteq 0 .. 7
    /\ g_ticks \in 0 .. TickPeriod - 1 /\ acks \in 0 .. TickPeriod - 1

(* No line stays in service once its handler has returned: every line the  *)
(* CPU can take has a handler by then, the end of interrupt each handler   *)
(* sends names no line, and it must have ended the line that was taken.  A *)
(* line left in service would hold back itself and every line below it for *)
(* good (intr.cpp:338, timer.cpp:19, timer.cpp:46-50).  And a handler runs *)
(* for a line in service, but for a spurious interrupt 7.                  *)
InServiceIsHandled ==
    /\ isr # {} => /\ active.vec # -1
                   /\ isr = InService(active.vec - IRQ0)
                   /\ active.at \in {"tick", "eoi"}
    /\ active.at \in {"tick", "eoi"} /\ active.vec # IRQ0 + SpuriousLine => isr # {}

(* g_ticks counts every timer interrupt the CPU took, once, and no         *)
(* spurious one (timer.cpp:18).                                            *)
TicksExact ==
    active.at # "tick" => g_ticks = acks

(* The timer is served again and again, unless an exception has stopped    *)
(* the kernel in its default handler: no end of interrupt is missed, and   *)
(* opening another line, which reads and writes the mask in two steps,     *)
(* does not close it (timer.cpp:16, intr.cpp:139, intr.cpp:319-321).       *)
TimerGoesOn == InitAccepts(idt_addr) => []<>(active.at = "tick") \/ <>[](active.at = "spin")

(* If the lines above it leave the CPU some time, a request on a line of   *)
(* the master that a driver has enabled does not wait for ever             *)
(* (intr.h:164).  Lines of the slave are none of DriverVectors: they would *)
(* wait, as enable_irq leaves the cascade masked (intr.cpp:307-322).       *)
Enabled(vec) == interrupt_handlers[vec] = "driver" /\ ~(pc.vec = vec /\ pc.at # "hlt")
LineServed ==
    \A vec \in DriverVectors :
        []<>(Quiet /\ rflags_if /\ \A l \in irr : l >= vec - IRQ0) =>
            ((Enabled(vec) /\ vec - IRQ0 \in irr) ~> (vec - IRQ0 \notin irr))

(* The CPU finds its gate in the array init has filled, although only 32   *)
(* bits of its address are kept, and the handler gets the frame that       *)
(* intr_context_t declares, the error code where the CPU has one, and a    *)
(* stack aligned to 16 bytes as the calling convention asks (intr.h:91,    *)
(* idt.S:25, intr.h:44, idt.S:111, idt.S:128).                             *)
FrameAsDeclared ==
    ~Quiet =>
        /\ idtr_base = idt_addr
        /\ \A i \in DOMAIN intr_context_t :
               stack[i] \in IF intr_context_t[i] = "rflags" THEN {"IF", "no IF"}
                           ELSE {Interrupted[intr_context_t[i]]}
        /\ active.err_code = IF active.vec \in ErrorCodeVectors THEN "error_code" ELSE "0"
        /\ (8 * Len(stack)) % 16 = 0

(* Interrupted code goes on with the registers and the stack pointer it    *)
(* had, whatever the handlers have overwritten (idt.S:95).                 *)
ContextRestored == Quiet => regs = Interrupted /\ stack = <<>>
=============================================================================

------------------------------- MODULE Stubs --------------------------------
(***************************************************************************)
(* The interrupt stubs of platform/x86_64/idt/idt.S as operators on the    *)
(* registers and the stack.  A stack is the sequence of the 8-byte words   *)
(* pushed since the interrupt, the word at rsp first.  The value a         *)
(* register had when the interrupt came is called by the register's name.  *)
(***************************************************************************)
EXTENDS Integers, Sequences

General == <<"rax", "rbx", "rcx", "rdx", "rsi", "rdi", "rbp", "r8",
             "r9", "r10", "r11", "r12", "r13", "r14", "r15">>
Machine == <<"ss", "rsp", "rflags", "cs", "rip">>
Registers == {General[i] : i \in DOMAIN General} \cup {Machine[i] : i \in DOMAIN Machine}

(* The registers of the code an interrupt can come to. *)
Interrupted == [r \in Registers |-> r]

Push(stack, word) == <<word>> \o stack
PushRegs(stack, names, regs) ==     \* in the order of names: the last ends on top
    [i \in 1 .. Len(names) |-> regs[names[Len(names) + 1 - i]]] \o stack
Word(stack, offset) == stack[(offset \div 8) + 1]

(* The CPU, at a gate without an interrupt stack: it aligns rsp to 16 and  *)
(* pushes five words, and for these vectors an error code.                 *)
ErrorCodeVectors == {8, 17} \cup 10 .. 14
Delivered(vec, regs) ==
    LET frame == PushRegs(<<>>, Machine, regs) IN
    IF vec \in ErrorCodeVectors THEN Push(frame, "error_code") ELSE frame

(* The vectors whose stub is ISR_ERROR_CODE. *)
ErrorStubs == {8, 17} \cup 10 .. 15

(* ISR_ERROR_CODE copies the frame over the error code: push 40(%rsp) five *)
(* times, and each push moves the next word to that place.                 *)
PushWord(stack, offset) == Push(stack, Word(stack, offset))
CopyFrame_Offset(stack) ==  \* mutation: the offset of the last word without the error code
    PushWord(PushWord(PushWord(PushWord(PushWord(stack, 32), 32), 32), 32), 32)
CopyFrame(stack) == PushWord(PushWord(PushWord(PushWord(PushWord(stack, 40), 40), 40), 40), 40)

pusha_64(stack, regs) == PushRegs(stack, General, regs)

(* The stack when the stub calls isr_handler or irq_handler, and the error *)
(* code it passes in rdx.                                                  *)
AtCall(vec, regs) ==
    LET stack == Delivered(vec, regs) IN
    pusha_64(IF vec \in ErrorStubs THEN CopyFrame(stack) ELSE stack, regs)
SizeOfContext == 160
ErrorArgument(vec, stack) == IF vec \in ErrorStubs THEN Word(stack, SizeOfContext) ELSE "0"

(* What the compiled handler leaves behind: rbp, rbx and r12 to r15 as it  *)
(* found them (rbp cleared by the stub), the rest overwritten.             *)
CalleeSaved == {"rbx", "r12", "r13", "r14", "r15"}
AfterCall(regs) == [r \in Registers |->
    IF r \in CalleeSaved THEN regs[r] ELSE IF r = "rbp" THEN "0" ELSE "any"]

(* popa_64 and iretq: the registers taken from the top of the stack. *)
PopOrder_Swapped == <<"r15", "r14", "r13", "r12", "r11", "r10", "r9", "r8",
                      "rdi", "rbp", "rsi", "rdx", "rcx", "rbx", "rax">>   \* mutation
PopOrder == <<"r15", "r14", "r13", "r12", "r11", "r10", "r9", "r8",
              "rbp", "rdi", "rsi", "rdx", "rcx", "rbx", "rax">>
Iret == <<"rip", "cs", "rflags", "rsp", "ss">>
Returned(stack) ==
    LET order == PopOrder \o Iret IN
    [r \in Registers |-> stack[CHOOSE i \in DOMAIN order : order[i] = r]]

(* intr_context_t, the handler's view of the words from rsi on. *)
intr_context_t == <<"r15", "r14", "r13", "r12", "r11", "r10", "r9", "r8",
                    "rbp", "rdi", "rsi", "rdx", "rcx", "rbx", "rax",
                    "rip", "cs", "rflags", "rsp", "ss">>
=============================================================================

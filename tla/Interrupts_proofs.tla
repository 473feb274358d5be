-------------------------- MODULE Interrupts_proofs --------------------------
(***************************************************************************)
(* Proofs about the interrupt path of module Interrupts, for any set of    *)
(* devices, exceptions and drivers and any tick period: first the stubs as *)
(* operators on the stack, then the inductive invariant.                   *)
(***************************************************************************)
EXTENDS Interrupts, SequenceTheorems, WellFoundedInduction, TLAPS

(* Everything a stub can leave on the stack. *)
Words == Registers \cup {"error_code", "IF", "no IF"}

LEMMA PushIs ==
    ASSUME NEW stk \in Seq(Words), NEW word \in Words
    PROVE  /\ Push(stk, word) \in Seq(Words)
           /\ Len(Push(stk, word)) = Len(stk) + 1
           /\ Push(stk, word)[1] = word
           /\ \A i \in 1 .. Len(stk) : Push(stk, word)[i + 1] = stk[i]
<1>1. <<word>> \in Seq(Words) /\ Len(<<word>>) = 1 /\ <<word>>[1] = word
  OBVIOUS
<1> HIDE DEF Words
<1> QED BY <1>1, ConcatProperties, LenProperties DEF Push

LEMMA PushRegsIs ==
    ASSUME NEW stk \in Seq(Words), NEW names \in Seq(Registers),
           NEW vals \in [Registers -> Words]
    PROVE  /\ PushRegs(stk, names, vals) \in Seq(Words)
           /\ Len(PushRegs(stk, names, vals)) = Len(names) + Len(stk)
           /\ \A i \in 1 .. Len(names) :
                  PushRegs(stk, names, vals)[i] = vals[names[Len(names) + 1 - i]]
           /\ \A i \in 1 .. Len(stk) :
                  PushRegs(stk, names, vals)[Len(names) + i] = stk[i]
<1> DEFINE top == [i \in 1 .. Len(names) |-> vals[names[Len(names) + 1 - i]]]
<1>1. Len(names) \in Nat /\ Len(stk) \in Nat
  BY LenProperties
<1>2. \A i \in 1 .. Len(names) : vals[names[Len(names) + 1 - i]] \in Words
  <2> TAKE i \in 1 .. Len(names)
  <2>1. Len(names) + 1 - i \in 1 .. Len(names)
    BY <1>1
  <2>2. names[Len(names) + 1 - i] \in Registers
    BY <2>1, ElementOfSeq
  <2> QED BY <2>2
<1>3. top \in Seq(Words) /\ Len(top) = Len(names)
  BY <1>1, <1>2, IsASeq
<1> HIDE DEF top
<1>4. /\ top \o stk \in Seq(Words) /\ Len(top \o stk) = Len(names) + Len(stk)
      /\ \A i \in 1 .. Len(names) : (top \o stk)[i] = top[i]
      /\ \A i \in 1 .. Len(stk) : (top \o stk)[Len(names) + i] = stk[i]
  <2>1. /\ top \o stk \in Seq(Words) /\ Len(top \o stk) = Len(top) + Len(stk)
        /\ \A i \in 1 .. Len(top) + Len(stk) :
               (top \o stk)[i] = IF i <= Len(top) THEN top[i] ELSE stk[i - Len(top)]
    BY <1>3, ConcatProperties, Zenon
  <2>2. ASSUME NEW i \in 1 .. Len(stk)
        PROVE  (top \o stk)[Len(names) + i] = stk[i]
    <3>1. /\ Len(top) + i \in 1 .. Len(top) + Len(stk) /\ ~(Len(top) + i <= Len(top))
          /\ (Len(top) + i) - Len(top) = i
      BY <1>1, <1>3
    <3> QED BY <2>1, <3>1, <1>3
  <2> QED BY <1>1, <1>3, <2>1, <2>2
<1>5. PushRegs(stk, names, vals) = top \o stk
  BY DEF PushRegs, top
<1> QED BY <1>4, <1>5 DEF top

LEMMA NamesTyped ==
    /\ General \in Seq(Registers) /\ Len(General) = 15
    /\ Machine \in Seq(Registers) /\ Len(Machine) = 5
<1>1. \A i \in 1 .. 15 : General[i] \in Registers
  BY DEF General, Registers
<1>2. \A i \in 1 .. 5 : Machine[i] \in Registers
  BY DEF Machine, Registers
<1> QED BY <1>1, <1>2 DEF General, Machine

LEMMA PushWordIs ==
    ASSUME NEW stk \in Seq(Words), Len(stk) >= 6
    PROVE  /\ PushWord(stk, 40) \in Seq(Words)
           /\ Len(PushWord(stk, 40)) = Len(stk) + 1
           /\ PushWord(stk, 40)[1] = stk[6]
           /\ \A i \in 1 .. Len(stk) : PushWord(stk, 40)[i + 1] = stk[i]
<1>1. Word(stk, 40) = stk[6]
  BY DEF Word
<1>2. stk[6] \in Words
  BY ElementOfSeq, LenProperties
<1>3. PushWord(stk, 40) = Push(stk, stk[6])
  BY <1>1 DEF PushWord
<1>4. /\ Push(stk, stk[6]) \in Seq(Words) /\ Len(Push(stk, stk[6])) = Len(stk) + 1
      /\ Push(stk, stk[6])[1] = stk[6]
      /\ \A i \in 1 .. Len(stk) : Push(stk, stk[6])[i + 1] = stk[i]
  BY <1>2, PushIs, Zenon
<1> QED BY <1>3, <1>4, Zenon

(* ISR_ERROR_CODE: the five words above the error code, copied below it. *)
LEMMA CopyFrameIs ==
    ASSUME NEW stk \in Seq(Words), Len(stk) = 6
    PROVE  /\ CopyFrame(stk) \in Seq(Words) /\ Len(CopyFrame(stk)) = 11
           /\ \A i \in 1 .. 5 : CopyFrame(stk)[i] = stk[i + 1]
           /\ CopyFrame(stk)[6] = stk[1]
<1> DEFINE s1 == PushWord(stk, 40)
           s2 == PushWord(s1, 40)
           s3 == PushWord(s2, 40)
           s4 == PushWord(s3, 40)
           s5 == PushWord(s4, 40)
<1>1. /\ s1 \in Seq(Words) /\ Len(s1) = 7 /\ s1[1] = stk[6]
      /\ \A i \in 1 .. 6 : s1[i + 1] = stk[i]
  <2>1. Len(stk) >= 6
    OBVIOUS
  <2>2. /\ s1 \in Seq(Words) /\ Len(s1) = Len(stk) + 1 /\ s1[1] = stk[6]
        /\ \A i \in 1 .. Len(stk) : s1[i + 1] = stk[i]
    BY <2>1, PushWordIs, Zenon
  <2> HIDE DEF s1
  <2> QED BY <2>2
<1> HIDE DEF s1
<1>2. /\ s2 \in Seq(Words) /\ Len(s2) = 8 /\ s2[1] = s1[6]
      /\ \A i \in 1 .. 7 : s2[i + 1] = s1[i]
  <2>1. Len(s1) >= 6
    BY <1>1
  <2>2. /\ s2 \in Seq(Words) /\ Len(s2) = Len(s1) + 1 /\ s2[1] = s1[6]
        /\ \A i \in 1 .. Len(s1) : s2[i + 1] = s1[i]
    BY <1>1, <2>1, PushWordIs, Zenon
  <2> HIDE DEF s2
  <2> QED BY <1>1, <2>2
<1> HIDE DEF s2
<1>3. /\ s3 \in Seq(Words) /\ Len(s3) = 9 /\ s3[1] = s2[6]
      /\ \A i \in 1 .. 8 : s3[i + 1] = s2[i]
  <2>1. Len(s2) >= 6
    BY <1>2
  <2>2. /\ s3 \in Seq(Words) /\ Len(s3) = Len(s2) + 1 /\ s3[1] = s2[6]
        /\ \A i \in 1 .. Len(s2) : s3[i + 1] = s2[i]
    BY <1>2, <2>1, PushWordIs, Zenon
  <2> HIDE DEF s3
  <2> QED BY <1>2, <2>2
<1> HIDE DEF s3
<1>4. /\ s4 \in Seq(Words) /\ Len(s4) = 10 /\ s4[1] = s3[6]
      /\ \A i \in 1 .. 9 : s4[i + 1] = s3[i]
  <2>1. Len(s3) >= 6
    BY <1>3
  <2>2. /\ s4 \in Seq(Words) /\ Len(s4) = Len(s3) + 1 /\ s4[1] = s3[6]
        /\ \A i \in 1 .. Len(s3) : s4[i + 1] = s3[i]
    BY <1>3, <2>1, PushWordIs, Zenon
  <2> HIDE DEF s4
  <2> QED BY <1>3, <2>2
<1> HIDE DEF s4
<1>5. /\ s5 \in Seq(Words) /\ Len(s5) = 11 /\ s5[1] = s4[6]
      /\ \A i \in 1 .. 10 : s5[i + 1] = s4[i]
  <2>1. Len(s4) >= 6
    BY <1>4
  <2>2. /\ s5 \in Seq(Words) /\ Len(s5) = Len(s4) + 1 /\ s5[1] = s4[6]
        /\ \A i \in 1 .. Len(s4) : s5[i + 1] = s4[i]
    BY <1>4, <2>1, PushWordIs, Zenon
  <2> HIDE DEF s5
  <2> QED BY <1>4, <2>2
<1> HIDE DEF s5
<1>6. s1[1] = stk[6] /\ s1[2] = stk[1] /\ s1[3] = stk[2] /\ s1[4] = stk[3] /\ s1[5] = stk[4]
      /\ s1[6] = stk[5]
  BY <1>1
<1>7. s2[1] = stk[5] /\ s2[2] = stk[6] /\ s2[3] = stk[1] /\ s2[4] = stk[2] /\ s2[5] = stk[3]
      /\ s2[6] = stk[4]
  BY <1>2, <1>6
<1>8. s3[1] = stk[4] /\ s3[2] = stk[5] /\ s3[3] = stk[6] /\ s3[4] = stk[1] /\ s3[5] = stk[2]
      /\ s3[6] = stk[3]
  BY <1>3, <1>7
<1>9. s4[1] = stk[3] /\ s4[2] = stk[4] /\ s4[3] = stk[5] /\ s4[4] = stk[6] /\ s4[5] = stk[1]
      /\ s4[6] = stk[2]
  BY <1>4, <1>8
<1>10. s5[1] = stk[2] /\ s5[2] = stk[3] /\ s5[3] = stk[4] /\ s5[4] = stk[5] /\ s5[5] = stk[6]
       /\ s5[6] = stk[1]
  BY <1>5, <1>9
<1>11. CopyFrame(stk) = s5
  BY DEF CopyFrame, s1, s2, s3, s4, s5
<1> QED BY <1>5, <1>10, <1>11

(* The words a stub leaves for the handler: intr_context_t on top, and for *)
(* a vector with an error code that code behind it.                        *)
LEMMA AtCallIs ==
    ASSUME NEW vec \in Vectors \ {15}, NEW vals \in [Registers -> Words]
    PROVE  /\ AtCall(vec, vals) \in Seq(Words)
           /\ Len(AtCall(vec, vals)) = IF vec \in ErrorCodeVectors THEN 26 ELSE 20
           /\ \A i \in 1 .. 20 : AtCall(vec, vals)[i] = vals[intr_context_t[i]]
           /\ vec \in ErrorCodeVectors => AtCall(vec, vals)[21] = "error_code"
<1> DEFINE cpu == PushRegs(<<>>, Machine, vals)
           base == IF vec \in ErrorStubs THEN CopyFrame(Delivered(vec, vals)) ELSE Delivered(vec, vals)
           all == PushRegs(base, General, vals)
<1>0. vec \in ErrorStubs <=> vec \in ErrorCodeVectors
  BY DEF ErrorStubs, ErrorCodeVectors, Vectors
<1>1. <<>> \in Seq(Words) /\ Len(<<>>) = 0
  BY EmptySeq, Zenon
<1>2. /\ cpu \in Seq(Words) /\ Len(cpu) = 5
      /\ \A i \in 1 .. 5 : cpu[i] = vals[Machine[6 - i]]
  <2>0. Machine \in Seq(Registers)
    BY NamesTyped
  <2>1. cpu \in Seq(Words)
    BY <1>1, <2>0, PushRegsIs, Zenon
  <2>2. Len(cpu) = Len(Machine) + Len(<<>>)
    BY <1>1, <2>0, PushRegsIs, Zenon
  <2>3. \A i \in 1 .. Len(Machine) : cpu[i] = vals[Machine[Len(Machine) + 1 - i]]
    BY <1>1, <2>0, PushRegsIs, Zenon
  <2> HIDE DEF cpu
  <2> QED BY <1>1, <2>1, <2>2, <2>3, NamesTyped
<1>3. /\ base \in Seq(Words)
      /\ Len(base) = IF vec \in ErrorCodeVectors THEN 11 ELSE 5
      /\ \A i \in 1 .. 5 : base[i] = cpu[i]
      /\ vec \in ErrorCodeVectors => base[6] = "error_code"
  <2> HIDE DEF cpu
  <2>1. CASE vec \in ErrorCodeVectors
    <3>1. Delivered(vec, vals) = Push(cpu, "error_code")
      BY <2>1 DEF Delivered, cpu
    <3>2. "error_code" \in Words
      BY DEF Words
    <3>3. /\ Push(cpu, "error_code") \in Seq(Words) /\ Len(Push(cpu, "error_code")) = Len(cpu) + 1
          /\ Push(cpu, "error_code")[1] = "error_code"
          /\ \A i \in 1 .. Len(cpu) : Push(cpu, "error_code")[i + 1] = cpu[i]
      BY <1>2, <3>2, PushIs, Zenon
    <3>4. /\ base = CopyFrame(Push(cpu, "error_code"))
          /\ Len(Push(cpu, "error_code")) = 6
      BY <1>0, <1>2, <2>1, <3>1, <3>3
    <3>5. /\ base \in Seq(Words) /\ Len(base) = 11
          /\ \A i \in 1 .. 5 : base[i] = Push(cpu, "error_code")[i + 1]
          /\ base[6] = Push(cpu, "error_code")[1]
      <4> HIDE DEF base
      <4> DEFINE d == Push(cpu, "error_code")
      <4>1. d \in Seq(Words) /\ Len(d) = 6
        BY <3>3, <3>4
      <4> HIDE DEF d
      <4>2. /\ CopyFrame(d) \in Seq(Words) /\ Len(CopyFrame(d)) = 11
            /\ \A i \in 1 .. 5 : CopyFrame(d)[i] = d[i + 1]
            /\ CopyFrame(d)[6] = d[1]
        BY <4>1, CopyFrameIs, Zenon
      <4> QED BY <3>4, <4>2, Zenon DEF d
    <3> HIDE DEF base
    <3> QED BY <1>2, <2>1, <3>3, <3>5
  <2>2. CASE vec \notin ErrorCodeVectors
    <3>1. base = cpu
      BY <1>0, <2>2 DEF Delivered, cpu
    <3> HIDE DEF base
    <3> QED BY <1>2, <2>2, <3>1
  <2> QED BY <2>1, <2>2
<1> HIDE DEF cpu, base
<1>4. /\ all \in Seq(Words) /\ Len(all) = 15 + Len(base)
      /\ \A i \in 1 .. 15 : all[i] = vals[General[16 - i]]
      /\ \A i \in 1 .. Len(base) : all[15 + i] = base[i]
  <2>0. General \in Seq(Registers)
    BY NamesTyped
  <2>1. base \in Seq(Words)
    BY <1>3
  <2>2. all \in Seq(Words)
    BY <2>0, <2>1, PushRegsIs, Zenon
  <2>3. Len(all) = Len(General) + Len(base)
    BY <2>0, <2>1, PushRegsIs, Zenon
  <2>4. \A i \in 1 .. Len(General) : all[i] = vals[General[Len(General) + 1 - i]]
    BY <2>0, <2>1, PushRegsIs, Zenon
  <2>5. \A i \in 1 .. Len(base) : all[Len(General) + i] = base[i]
    BY <2>0, <2>1, PushRegsIs, Zenon
  <2> HIDE DEF all
  <2> QED BY <2>2, <2>3, <2>4, <2>5, NamesTyped
<1>5. AtCall(vec, vals) = all
  BY DEF AtCall, pusha_64, base
<1> HIDE DEF all
<1>6. \A i \in 1 .. 15 : General[16 - i] = intr_context_t[i]
  BY DEF General, intr_context_t
<1>7. \A i \in 1 .. 5 : Machine[6 - i] = intr_context_t[15 + i]
  BY DEF Machine, intr_context_t
<1>8. \A i \in 1 .. 5 : all[15 + i] = vals[intr_context_t[15 + i]]
  <2> TAKE i \in 1 .. 5
  <2>1. i \in 1 .. Len(base)
    BY <1>3
  <2>2. all[15 + i] = cpu[i]
    BY <1>3, <1>4, <2>1
  <2>3. cpu[i] = vals[Machine[6 - i]]
    BY <1>2
  <2> QED BY <1>7, <2>2, <2>3
<1>9. ASSUME NEW i \in 1 .. 20 PROVE all[i] = vals[intr_context_t[i]]
  <2>1. CASE i \in 1 .. 15
    BY <1>4, <1>6, <2>1
  <2>2. CASE i \notin 1 .. 15
    <3>1. i - 15 \in 1 .. 5 /\ 15 + (i - 15) = i
      BY <2>2
    <3> QED BY <1>8, <3>1
  <2> QED BY <2>1, <2>2
<1> QED BY <1>3, <1>4, <1>5, <1>9

LEMMA ContextTyped ==
    DOMAIN intr_context_t = 1 .. 20 /\ \A i \in 1 .. 20 : intr_context_t[i] \in Registers
<1>1. \A i \in 1 .. 15 : intr_context_t[i] = General[16 - i] /\ 16 - i \in DOMAIN General
  BY DEF General, intr_context_t
<1>2. \A i \in 16 .. 20 : intr_context_t[i] = Machine[21 - i] /\ 21 - i \in DOMAIN Machine
  BY DEF Machine, intr_context_t
<1>3. \A i \in 1 .. 20 : i \in 1 .. 15 \/ i \in 16 .. 20
  OBVIOUS
<1>4. DOMAIN intr_context_t = 1 .. 20
  BY DEF intr_context_t
<1> QED BY <1>1, <1>2, <1>3, <1>4 DEF Registers

LEMMA FramesAligned == (8 * 20) % 16 = 0 /\ (8 * 26) % 16 = 0
OBVIOUS

(* popa_64 and iretq give back what was there when the interrupt came. *)
LEMMA ReturnedIs ==
    ASSUME NEW vec \in Vectors \ {15}, NEW vals \in [Registers -> Words]
    PROVE  Returned(AtCall(vec, vals)) = vals
<1> DEFINE order == PopOrder \o Iret
<1>1. /\ DOMAIN order = 1 .. 20
      /\ \A i \in 1 .. 20 : order[i] = intr_context_t[i]
  BY DEF PopOrder, Iret, intr_context_t
<1>2. \A r \in Registers : \E i \in 1 .. 20 : intr_context_t[i] = r
  <2> SUFFICES ASSUME NEW r \in Registers PROVE \E i \in 1 .. 20 : intr_context_t[i] = r
    OBVIOUS
  <2>1. CASE \E i \in DOMAIN General : r = General[i]
    <3>1. PICK i \in 1 .. 15 : r = General[i]
      BY <2>1 DEF General
    <3>2. 16 - i \in 1 .. 20 /\ intr_context_t[16 - i] = r
      BY <3>1 DEF General, intr_context_t
    <3> QED BY <3>2
  <2>2. CASE \E i \in DOMAIN Machine : r = Machine[i]
    <3>1. PICK i \in 1 .. 5 : r = Machine[i]
      BY <2>2 DEF Machine
    <3>2. 21 - i \in 1 .. 20 /\ intr_context_t[21 - i] = r
      BY <3>1 DEF Machine, intr_context_t
    <3> QED BY <3>2
  <2> QED BY <2>1, <2>2 DEF Registers
<1> HIDE DEF order
<1>3. ASSUME NEW r \in Registers
      PROVE  AtCall(vec, vals)[CHOOSE i \in DOMAIN order : order[i] = r] = vals[r]
  <2> DEFINE at == CHOOSE i \in DOMAIN order : order[i] = r
  <2>1. at \in 1 .. 20 /\ order[at] = r
    BY <1>1, <1>2
  <2> HIDE DEF at
  <2>2. AtCall(vec, vals)[at] = vals[intr_context_t[at]]
    BY <2>1, AtCallIs
  <2>3. intr_context_t[at] = r
    BY <1>1, <2>1
  <2> QED BY <2>2, <2>3 DEF at
<1>4. Returned(AtCall(vec, vals))
        = [r \in Registers |-> AtCall(vec, vals)[CHOOSE i \in DOMAIN order : order[i] = r]]
  BY DEF Returned, order
<1>5. vals = [r \in Registers |-> vals[r]]
  OBVIOUS
<1> QED BY <1>3, <1>4, <1>5, Zenon

-----------------------------------------------------------------------------
(* The inductive invariant.  INTERRUPTS::init comes before anything that   *)
(* an interrupt needs, and gives each vector the handler of its kind.      *)
Inited == pc.at \notin {"intr_init", "stop"}

TablesInv ==
    /\ pc.vec \in IRQ0 .. 47
    /\ Inited => /\ idt = Gates /\ idtr_base = idt_addr
                 /\ \A v \in Defaults : interrupt_handlers[v] = "default"
                 /\ \A v \in Vectors \ Defaults :
                        interrupt_handlers[v] \in {"null", HandlerOf(v)}
    /\ ~Inited => /\ Quiet /\ ~rflags_if /\ idt = {}
                  /\ \A v \in Vectors : interrupt_handlers[v] = "null"

(* A line is open only after its handler is registered, and between the    *)
(* read and the write of enable_irq nobody else changes the mask.          *)
MaskInv ==
    /\ Inited => \A l \in Lines \ imr : interrupt_handlers[IRQ0 + l] # "null"
    /\ pc.at \in {"read_mask", "write_mask"} => interrupt_handlers[pc.vec] # "null"
    /\ pc.at = "write_mask" =>
           LET chip == MaskChip(pc.vec) IN mask = {l - Min(chip) : l \in imr \cap chip}

(* A line is in service exactly while its handler has not ended it.        *)
ServiceInv ==
    /\ active.at \in {"tick", "eoi"} =>
           \/ isr = InService(active.vec - IRQ0)
           \/ isr = {} /\ active.vec = IRQ0 + SpuriousLine
    /\ active.at \notin {"tick", "eoi"} => isr = {}
    /\ active.at = "tick" => active.vec = IRQ0
    /\ active.at \in {"tick", "eoi"} => active.vec >= IRQ0

TicksInv == IF active.at = "tick" THEN acks = (g_ticks + 1) % TickPeriod ELSE g_ticks = acks

(* While a handler runs, the stack is what the stub has left on it.        *)
FrameInv ==
    /\ Quiet <=> active.at = "none"
    /\ Quiet => regs = Interrupted /\ stack = <<>>
    /\ ~Quiet => /\ active.vec \in Vectors \ {15}
                 /\ \E flags \in {"IF", "no IF"} :
                        stack = AtCall(active.vec, [Interrupted EXCEPT !["rflags"] = flags])
                 /\ active.err_code = IF active.vec \in ErrorCodeVectors THEN "error_code" ELSE "0"

IInv == TypeOK /\ TablesInv /\ MaskInv /\ ServiceInv /\ TicksInv /\ FrameInv

-----------------------------------------------------------------------------
(* Lemmas about the PIC. *)
LEMMA MinIsLeast ==
    ASSUME NEW S \in SUBSET Nat, S # {}
    PROVE  Min(S) \in S /\ \A y \in S : Min(S) <= y
<1>1. \E x \in S : \A y \in S : ~(<<y, x>> \in OpToRel(<, Nat))
  BY WFMin, NatLessThanWellFounded, Zenon
<1>2. PICK x \in S : \A y \in S : ~(<<y, x>> \in OpToRel(<, Nat))
  BY <1>1
<1>3. \A y \in S : ~(y < x)
  BY <1>2 DEF OpToRel
<1>4. \A y \in S : x <= y
  BY <1>3
<1> QED BY <1>4 DEF Min

LEMMA MinOfChips == Min(Master) = 0 /\ Min(Slave) = 8
<1>1. /\ Master \in SUBSET Nat /\ 0 \in Master /\ \A y \in Master : 0 <= y
      /\ Slave \in SUBSET Nat /\ 8 \in Slave /\ \A y \in Slave : 8 <= y
  BY DEF Master, Slave
<1>2. Min(Master) \in Master /\ Min(Master) <= 0 /\ Min(Slave) \in Slave /\ Min(Slave) <= 8
  BY <1>1, MinIsLeast
<1> QED BY <1>1, <1>2 DEF Master, Slave

LEMMA MinOfOne ==
    ASSUME NEW x \in Nat PROVE Min({x}) = x
BY MinIsLeast

(* The PIC offers only lines that are not masked. *)
LEMMA OfferedOpen ==
    ASSUME NEW line \in Lines, Offered = line
    PROVE  line \notin imr
<1> DEFINE m == {l \in Master : MasterRequests(l)}
           s == {l \in Slave : Requests(l)}
<1>1. m # {}
  BY DEF Offered, NoLine, Lines
<1>2. Min(m) \in m
  BY <1>1, MinIsLeast DEF Master
<1>3. CASE Min(m) # Cascade
  <2>1. line = Min(m)
    BY <1>1, <1>3 DEF Offered
  <2> QED BY <1>2, <1>3, <2>1 DEF MasterRequests, Requests
<1>4. CASE Min(m) = Cascade
  <2>1. line = Min(s)
    BY <1>1, <1>4 DEF Offered
  <2>2. s # {}
    BY <1>2, <1>4 DEF MasterRequests, SlaveRequests
  <2>3. Min(s) \in s
    BY <2>2, MinIsLeast DEF Slave
  <2> QED BY <2>1, <2>3 DEF Requests
<1> QED BY <1>3, <1>4

(* send_eoi, which gets a vector, tells both chips, and each ends the only *)
(* line it has in service.                                                 *)
LEMMA EoiEnds ==
    ASSUME NEW vec \in IRQ0 .. 47, isr = {} \/ isr = InService(vec - IRQ0)
    PROVE  isr \ UNION {First(chip, isr) : chip \in ChipsToldEoi(vec)} = {}
<1>1. ChipsToldEoi(vec) = {Master, Slave}
  BY DEF ChipsToldEoi, IRQ0
<1>2. isr \subseteq First(Master, isr) \cup First(Slave, isr)
  <2>1. CASE isr = {}
    BY <2>1
  <2>2. CASE isr = InService(vec - IRQ0) /\ vec - IRQ0 \in Slave
    <3> DEFINE l == vec - IRQ0
    <3>0. isr = {l, 2} /\ l \in 8 .. 15
      BY <2>2 DEF InService, Cascade, Slave
    <3> HIDE DEF l
    <3>1. isr \cap Master = {2} /\ isr \cap Slave = {l} /\ l \in Nat
      <4>1. l \notin Master /\ l \in Slave /\ 2 \in Master /\ 2 \notin Slave /\ l \in Nat
        BY <3>0 DEF Master, Slave
      <4> QED BY <3>0, <4>1, Zenon
    <3>2. First(Master, isr) = {2} /\ First(Slave, isr) = {l}
      BY <3>1, MinOfOne DEF First
    <3> QED BY <3>0, <3>2
  <2>3. CASE isr = InService(vec - IRQ0) /\ vec - IRQ0 \notin Slave
    <3> DEFINE l == vec - IRQ0
    <3>0. isr = {l} /\ l \in Master /\ l \in Nat
      BY <2>3 DEF InService, Master, Slave, IRQ0
    <3> HIDE DEF l
    <3>1. isr = {l} /\ isr \cap Master = {l} /\ l \in Nat
      BY <3>0, Zenon
    <3>2. First(Master, isr) = {l}
      BY <3>1, MinOfOne DEF First
    <3> QED BY <3>1, <3>2
  <2> QED BY <2>1, <2>2, <2>3
<1> QED BY <1>1, <1>2

(* enable_irq opens its line and changes no other. *)
LEMMA MaskWritten ==
    ASSUME NEW vec \in IRQ0 .. 47, imr \subseteq Lines,
           mask = {l - Min(MaskChip(vec)) : l \in imr \cap MaskChip(vec)}
    PROVE  (imr \ MaskChip(vec)) \cup
               {Min(MaskChip(vec)) + b : b \in mask \ {MaskBit(vec)}} = imr \ {vec - IRQ0}
<1> DEFINE chip == MaskChip(vec)
           base == Min(chip)
<1>1. /\ vec - 32 \in 0 .. 15 /\ (vec - 32) % 256 = vec - 32
  BY DEF IRQ0
<1>2. /\ base \in {0, 8} /\ MaskBit(vec) = (vec - IRQ0) - base
      /\ vec - IRQ0 \in chip /\ chip \subseteq Int
  BY <1>1, MinOfChips DEF MaskChip, MaskBit, Index, IRQ0, Master, Slave
<1>3. {base + b : b \in mask \ {MaskBit(vec)}} = (imr \cap chip) \ {vec - IRQ0}
  <2> HIDE DEF base, chip
  <2>0. mask = {l - base : l \in imr \cap chip}
    BY DEF base, chip
  <2>1. ASSUME NEW l \in (imr \cap chip) \ {vec - IRQ0}
        PROVE  l \in {base + b : b \in mask \ {MaskBit(vec)}}
    <3>1. l \in Int /\ base \in Int /\ vec - IRQ0 \in Int
      BY <1>2 DEF IRQ0, Lines
    <3>2. l - base \in mask /\ l - base # MaskBit(vec) /\ base + (l - base) = l
      BY <1>2, <2>0, <3>1
    <3> QED BY <3>2
  <2>2. ASSUME NEW b \in mask \ {MaskBit(vec)}
        PROVE  base + b \in (imr \cap chip) \ {vec - IRQ0}
    <3>1. PICK l \in imr \cap chip : b = l - base
      BY <2>0
    <3>2. l \in Int /\ base \in Int
      BY <1>2 DEF Lines
    <3>3. base + b = l /\ l # vec - IRQ0
      BY <1>2, <3>1, <3>2
    <3> QED BY <3>1, <3>3
  <2> QED BY <2>1, <2>2
<1> QED BY <1>2, <1>3

-----------------------------------------------------------------------------
(* The values the interrupted code has in its registers, and its flags. *)
LEMMA InterruptedTyped ==
    /\ Interrupted \in [Registers -> Registers]
    /\ \A flags \in {"IF", "no IF"} :
           [Interrupted EXCEPT !["rflags"] = flags] \in [Registers -> Words]
    /\ {"rflags", "rsp"} \subseteq Registers
<1>1. "rflags" \in Registers /\ "rsp" \in Registers
  <2>1. Machine[3] = "rflags" /\ Machine[2] = "rsp" /\ {2, 3} \subseteq DOMAIN Machine
    BY DEF Machine
  <2> HIDE DEF Machine
  <2> QED BY <2>1 DEF Registers
<1> QED BY <1>1 DEF Interrupted, Words

LEMMA InitInv == Init => IInv
<1> SUFFICES ASSUME Init PROVE IInv
  OBVIOUS
<1> USE InterruptsAssumption
<1>1. TypeOK
  <2>1. stack \in Seq(Registers \cup {"error_code", "IF", "no IF"})
    BY DEF Init
  <2>2. regs \in [Registers -> Registers \cup {"0", "any"}]
    BY InterruptedTyped DEF Init
  <2>3. /\ active \in [vec : Vectors \cup {-1}, err_code : {"0", "error_code"},
                       at : {"none", "tick", "eoi", "iret", "spin"}]
        /\ pc \in [at : Steps, vec : Vectors]
    BY DEF Init, Idle, At, Steps, Vectors, IRQ0
  <2>4. interrupt_handlers \in [Vectors -> {"null", "default", "timer", "driver"}]
    BY DEF Init
  <2>5. /\ g_ticks \in 0 .. TickPeriod - 1 /\ acks \in 0 .. TickPeriod - 1
        /\ idtr_base \in 0 .. Uint32 - 1 /\ idt_addr \in IdtAddrs
        /\ mask \subseteq 0 .. 7
    BY DEF Init
  <2>6. rflags_if \in BOOLEAN
    BY Zenon DEF Init
  <2>7. irr \subseteq Lines /\ isr \subseteq Lines /\ imr \subseteq Lines /\ idt \subseteq Vectors
    BY DEF Init
  <2> QED BY <2>1, <2>2, <2>3, <2>4, <2>5, <2>6, <2>7 DEF TypeOK
<1>2. TablesInv
  BY DEF Init, TablesInv, Inited, At, Quiet, IRQ0
<1>3. MaskInv
  BY DEF Init, MaskInv, Inited, At
<1>4. ServiceInv /\ TicksInv
  BY DEF Init, ServiceInv, TicksInv, Idle
<1>5. FrameInv
  BY DEF Init, FrameInv, Quiet, Idle
<1> QED BY <1>1, <1>2, <1>3, <1>4, <1>5 DEF IInv

ActiveType == [vec : Vectors \cup {-1}, err_code : {"0", "error_code"},
               at : {"none", "tick", "eoi", "iret", "spin"}]

(* An interrupt enters only after init, and its stub leaves the frame that *)
(* FrameInv describes.                                                     *)
LEMMA EnterKeeps ==
    ASSUME IInv, NEW vec \in Vectors \ {15}, Enter(vec)
    PROVE  /\ FrameInv' /\ Inited /\ isr = {} /\ active.at = "none"
           /\ regs' \in [Registers -> Registers \cup {"0", "any"}]
           /\ stack' \in Seq(Words)
           /\ active' \in ActiveType /\ active'.vec = vec /\ active'.at = FirstStep(vec)
           /\ FirstStep(vec) # "none" /\ rflags_if' = FALSE /\ ~Quiet'
<1> DEFINE vals == [Interrupted EXCEPT !["rflags"] = Flags]
<1>1. Quiet /\ Inited /\ active.at = "none" /\ isr = {} /\ regs = Interrupted
  BY DEF IInv, Enter, TablesInv, FrameInv, ServiceInv
<1>2. Flags \in {"IF", "no IF"} /\ vals \in [Registers -> Words]
  BY InterruptedTyped DEF Flags
<1>3. stack' = AtCall(vec, vals)
  BY <1>1 DEF Enter
<1>4. /\ stack' \in Seq(Words)
      /\ vec \in ErrorCodeVectors => stack'[21] = "error_code"
  BY <1>2, <1>3, AtCallIs, Zenon
<1>5. regs' \in [Registers -> Registers \cup {"0", "any"}]
  <2>1. regs' = [r \in Registers |-> IF r \in CalleeSaved THEN Interrupted[r]
                                    ELSE IF r = "rbp" THEN "0" ELSE "any"]
    BY <1>1 DEF Enter, AfterCall
  <2> QED BY <2>1, InterruptedTyped
<1>6. FirstStep(vec) \in {"tick", "eoi", "iret", "spin"}
  BY DEF IInv, TypeOK, FirstStep
<1>7. ErrorArgument(vec, stack') = IF vec \in ErrorCodeVectors THEN "error_code" ELSE "0"
  <2>1. vec \in ErrorStubs <=> vec \in ErrorCodeVectors
    BY DEF ErrorStubs, ErrorCodeVectors, Vectors
  <2>2. SizeOfContext \div 8 + 1 = 21
    BY DEF SizeOfContext
  <2> QED BY <1>4, <2>1, <2>2 DEF ErrorArgument, Word
<1>8. active' = [vec |-> vec, at |-> FirstStep(vec),
                 err_code |-> IF vec \in ErrorCodeVectors THEN "error_code" ELSE "0"]
  BY <1>7 DEF Enter
<1>9. active' \in ActiveType /\ active'.vec = vec /\ active'.at = FirstStep(vec)
      /\ active'.err_code = IF vec \in ErrorCodeVectors THEN "error_code" ELSE "0"
  BY <1>6, <1>8 DEF ActiveType
<1>10. ~Quiet'
  BY <1>9 DEF Quiet, Idle, Vectors
<1>11. FrameInv'
  <2> HIDE DEF vals
  <2>1. \E flags \in {"IF", "no IF"} :
            stack' = AtCall(active'.vec, [Interrupted EXCEPT !["rflags"] = flags])
    BY <1>2, <1>3, <1>9 DEF vals
  <2>2. active'.at # "none"
    BY <1>6, <1>9
  <2> QED BY <1>9, <1>10, <2>1, <2>2 DEF FrameInv
<1> QED BY <1>1, <1>4, <1>5, <1>6, <1>9, <1>10, <1>11 DEF Enter

(* What kernel_main does outside handlers leaves these as they are. *)
LEMMA KernelKeeps ==
    ASSUME IInv, UNCHANGED <<frame, active, ticks, idt_addr>>
    PROVE  /\ FrameInv' /\ TicksInv'
           /\ Quiet /\ isr' = {} => ServiceInv'
           /\ Quiet' = Quiet
           /\ (/\ irr' \subseteq Lines /\ isr' \subseteq Lines /\ imr' \subseteq Lines
               /\ pc' \in [at : Steps, vec : Vectors]
               /\ idtr_base' \in 0 .. Uint32 - 1 /\ idt' \subseteq Vectors
               /\ interrupt_handlers' \in [Vectors -> {"null", "default", "timer", "driver"}]
               /\ rflags_if' \in BOOLEAN /\ mask' \subseteq 0 .. 7) => TypeOK'
<1>1. FrameInv' /\ Quiet' = Quiet
  BY DEF IInv, FrameInv, Quiet, frame
<1>2. TicksInv'
  BY DEF IInv, TicksInv, ticks
<1>3. Quiet /\ isr' = {} => ServiceInv'
  BY DEF IInv, ServiceInv, FrameInv
<1>4. ASSUME irr' \subseteq Lines, isr' \subseteq Lines, imr' \subseteq Lines,
             pc' \in [at : Steps, vec : Vectors],
             idtr_base' \in 0 .. Uint32 - 1, idt' \subseteq Vectors,
             interrupt_handlers' \in [Vectors -> {"null", "default", "timer", "driver"}],
             rflags_if' \in BOOLEAN, mask' \subseteq 0 .. 7
      PROVE  TypeOK'
  BY <1>4 DEF IInv, TypeOK, frame, ticks
<1> QED BY <1>1, <1>2, <1>3, <1>4

LEMMA QuietState ==
    ASSUME IInv, Quiet
    PROVE  isr = {} /\ active.at = "none" /\ pc = At(pc.at, pc.vec)
           /\ pc.at \in Steps /\ pc.vec \in IRQ0 .. 47 /\ pc.vec \in Vectors
BY DEF IInv, TypeOK, FrameInv, ServiceInv, TablesInv, At

LEMMA IntrInitKeeps ==
    ASSUME IInv, IntrInit, UNCHANGED frame PROVE IInv'
<1> USE InterruptsAssumption
<1>0. Quiet /\ pc.at = "intr_init" /\ ~Inited /\ idt = {} /\ isr = {} /\ ~rflags_if
  BY QuietState DEF IntrInit, Inited, IInv, TablesInv
<1>1. CASE InitAccepts(idt_addr) /\ IdtLoads(IdtrBase(idt_addr), 256 * 16 - 1)
  <2>1. /\ pc' = At("pit", IRQ0) /\ idt' = Gates /\ idtr_base' = IdtrBase(idt_addr)
        /\ interrupt_handlers' = [v \in Vectors |->
               IF v \in Defaults THEN "default" ELSE interrupt_handlers[v]]
        /\ irr' = {} /\ isr' = {} /\ imr' = Lines
        /\ UNCHANGED <<idt_addr, ticks, rflags_if, active, mask>>
    BY <1>1 DEF IntrInit, pic_init, Restarted
  <2>2. idtr_base' = idt_addr /\ idt_addr \in 0 .. Uint32 - 1
    <3>1. idt_addr \in 0 .. Uint32 - 1
      BY DEF IInv, TypeOK
    <3>2. idt_addr % Uint32 = idt_addr
      BY <3>1
    <3> QED BY <2>1, <3>1, <3>2 DEF IdtrBase
  <2>3. idt' \subseteq Vectors
    BY <2>1 DEF Gates, Vectors, Lines, IRQ0
  <2>4. interrupt_handlers' \in [Vectors -> {"null", "default", "timer", "driver"}]
    BY <2>1 DEF IInv, TypeOK
  <2>5. pc' \in [at : Steps, vec : Vectors] /\ pc'.at = "pit" /\ pc'.vec = IRQ0
    BY <2>1 DEF At, Steps, Vectors, IRQ0
  <2>6. TypeOK' /\ FrameInv' /\ TicksInv' /\ ServiceInv'
    <3>1. rflags_if' \in BOOLEAN /\ mask' \subseteq 0 .. 7
      BY <2>1 DEF IInv, TypeOK
    <3> QED BY <1>0, <2>1, <2>2, <2>3, <2>4, <2>5, <3>1, KernelKeeps
  <2>7. TablesInv'
    <3>1. ASSUME NEW v \in Vectors \ Defaults
          PROVE  interrupt_handlers'[v] \in {"null", HandlerOf(v)}
      <4>1. interrupt_handlers'[v] = interrupt_handlers[v]
        BY <2>1
      <4> QED BY <1>0, <4>1 DEF IInv, TablesInv
    <3>2. \A v \in Defaults : interrupt_handlers'[v] = "default"
      BY <2>1 DEF Defaults, Vectors, INTERRUPT_MAX
    <3> QED BY <2>1, <2>2, <2>5, <3>1, <3>2 DEF TablesInv, Inited, IRQ0
  <2>8. MaskInv'
    BY <2>1, <2>5 DEF MaskInv
  <2> QED BY <2>6, <2>7, <2>8 DEF IInv
<1>2. CASE ~(InitAccepts(idt_addr) /\ IdtLoads(IdtrBase(idt_addr), 256 * 16 - 1))
  <2>1. /\ pc' = At("stop", IRQ0)
        /\ UNCHANGED <<idtr_base, idt, interrupt_handlers, pic_vars,
                       idt_addr, ticks, rflags_if, active, mask>>
    BY <1>2 DEF IntrInit
  <2>2. pc' \in [at : Steps, vec : Vectors] /\ pc'.at = "stop" /\ pc'.vec = IRQ0
    BY <2>1 DEF At, Steps, Vectors, IRQ0
  <2>3. TypeOK' /\ FrameInv' /\ TicksInv' /\ ServiceInv' /\ Quiet'
    BY <1>0, <2>1, <2>2, KernelKeeps DEF IInv, TypeOK, pic_vars
  <2>4. ~Inited' /\ ~rflags_if' /\ pc'.vec \in IRQ0 .. 47
    BY <1>0, <2>1, <2>2 DEF Inited, IRQ0
  <2>5. TablesInv'
    BY <1>0, <2>1, <2>3, <2>4 DEF IInv, TablesInv
  <2>6. MaskInv'
    BY <2>2, <2>4 DEF MaskInv
  <2> QED BY <2>3, <2>5, <2>6 DEF IInv
<1> QED BY <1>1, <1>2

(* A step of kernel_main after init that changes only the pc and perhaps   *)
(* the interrupt flag.                                                     *)
LEMMA PcStepKeeps ==
    ASSUME IInv, Quiet, Inited, NEW step \in Steps \ {"intr_init", "stop", "read_mask", "write_mask"},
           NEW vec \in IRQ0 .. 47, pc' = At(step, vec), rflags_if' \in BOOLEAN,
           UNCHANGED <<pic_vars, tables, ticks, frame, active, mask>>
    PROVE  IInv'
<1>1. vec \in Vectors
  BY DEF Vectors, IRQ0
<1>2. pc' \in [at : Steps, vec : Vectors] /\ pc'.at = step /\ pc'.vec = vec /\ Inited'
  BY <1>1 DEF At, Inited
<1>3. TypeOK' /\ FrameInv' /\ TicksInv' /\ ServiceInv'
  BY <1>2, QuietState, KernelKeeps DEF IInv, TypeOK, pic_vars, tables
<1>4. TablesInv'
  BY <1>2 DEF IInv, TablesInv, tables
<1>5. MaskInv'
  BY <1>2 DEF IInv, MaskInv, tables, pic_vars
<1> QED BY <1>3, <1>4, <1>5 DEF IInv

LEMMA RegisterKeeps ==
    ASSUME IInv, register_intr_handler, UNCHANGED frame PROVE IInv'
<1>0. /\ Quiet /\ Inited /\ isr = {} /\ pc.vec \in IRQ0 .. 47 /\ pc.vec \in Vectors \ Defaults
  BY QuietState DEF register_intr_handler, Inited, Defaults, INTERRUPT_MAX, IRQ0
<1>1. /\ pc' = At("read_mask", pc.vec)
      /\ interrupt_handlers' = [interrupt_handlers EXCEPT ![pc.vec] = HandlerOf(pc.vec)]
      /\ UNCHANGED <<pic_vars, idt_addr, idtr_base, idt, ticks, rflags_if, active, mask>>
  BY DEF register_intr_handler, AfterRegister
<1>2. pc' \in [at : Steps, vec : Vectors] /\ pc'.at = "read_mask" /\ pc'.vec = pc.vec /\ Inited'
  BY <1>0, <1>1 DEF At, Inited, Steps
<1>3. HandlerOf(pc.vec) \in {"timer", "driver"}
  BY DEF HandlerOf
<1>4. interrupt_handlers \in [Vectors -> {"null", "default", "timer", "driver"}]
  BY DEF IInv, TypeOK
<1>5. /\ interrupt_handlers' \in [Vectors -> {"null", "default", "timer", "driver"}]
      /\ interrupt_handlers'[pc.vec] = HandlerOf(pc.vec)
      /\ \A v \in Vectors \ {pc.vec} : interrupt_handlers'[v] = interrupt_handlers[v]
  BY <1>0, <1>1, <1>3, <1>4
<1>6. TypeOK' /\ FrameInv' /\ TicksInv' /\ ServiceInv'
  BY <1>0, <1>1, <1>2, <1>5, KernelKeeps DEF IInv, TypeOK, pic_vars
<1>7. TablesInv'
  <2>1. /\ \A v \in Defaults : interrupt_handlers[v] = "default"
        /\ \A v \in Vectors \ Defaults : interrupt_handlers[v] \in {"null", HandlerOf(v)}
        /\ Defaults \subseteq Vectors
    BY <1>0 DEF IInv, TablesInv, Defaults, INTERRUPT_MAX, Vectors
  <2>2. /\ \A v \in Defaults : interrupt_handlers'[v] = "default"
        /\ \A v \in Vectors \ Defaults : interrupt_handlers'[v] \in {"null", HandlerOf(v)}
    BY <1>0, <1>5, <2>1
  <2> QED BY <1>0, <1>1, <1>2, <2>2 DEF IInv, TablesInv
<1>8. MaskInv'
  <2>1. ASSUME NEW l \in Lines \ imr' PROVE interrupt_handlers'[IRQ0 + l] # "null"
    <3>1. IRQ0 + l \in Vectors /\ interrupt_handlers[IRQ0 + l] # "null"
      BY <1>0, <1>1, <2>1 DEF IInv, MaskInv, pic_vars, Lines, Vectors, IRQ0
    <3> QED BY <1>3, <1>5, <3>1
  <2> QED BY <1>2, <1>3, <1>5, <2>1 DEF MaskInv
<1> QED BY <1>6, <1>7, <1>8 DEF IInv

LEMMA EnableIrqReadKeeps ==
    ASSUME IInv, enable_irq_read, UNCHANGED frame PROVE IInv'
<1>0. Quiet /\ Inited /\ isr = {} /\ pc.vec \in IRQ0 .. 47 /\ pc.vec \in Vectors /\ pc.at = "read_mask"
  BY QuietState DEF enable_irq_read, Inited
<1>1. /\ pc' = At("write_mask", pc.vec)
      /\ mask' = {l - Min(MaskChip(pc.vec)) : l \in imr \cap MaskChip(pc.vec)}
      /\ UNCHANGED <<pic_vars, tables, ticks, rflags_if, active>>
  BY DEF enable_irq_read
<1>2. pc' \in [at : Steps, vec : Vectors] /\ pc'.at = "write_mask" /\ pc'.vec = pc.vec /\ Inited'
  BY <1>0, <1>1 DEF At, Inited, Steps
<1>3. mask' \subseteq 0 .. 7
  <2>1. \/ MaskChip(pc.vec) = 0 .. 7 /\ Min(MaskChip(pc.vec)) = 0
        \/ MaskChip(pc.vec) = 8 .. 15 /\ Min(MaskChip(pc.vec)) = 8
    BY MinOfChips DEF MaskChip, Master, Slave
  <2> QED BY <1>1, <2>1
<1>4. TypeOK' /\ FrameInv' /\ TicksInv' /\ ServiceInv'
  BY <1>0, <1>1, <1>2, <1>3, KernelKeeps DEF IInv, TypeOK, pic_vars, tables
<1>5. TablesInv'
  BY <1>0, <1>1, <1>2 DEF IInv, TablesInv, tables
<1>6. MaskInv'
  BY <1>0, <1>1, <1>2 DEF IInv, MaskInv, tables, pic_vars
<1> QED BY <1>4, <1>5, <1>6 DEF IInv

LEMMA EnableIrqWriteKeeps ==
    ASSUME IInv, enable_irq_write, UNCHANGED frame PROVE IInv'
<1> DEFINE next == AfterEnableIrq(pc.vec)
<1>0. Quiet /\ Inited /\ isr = {} /\ pc.vec \in IRQ0 .. 47 /\ pc.vec \in Vectors /\ pc.at = "write_mask"
  BY QuietState DEF enable_irq_write, Inited
<1>1. /\ pc' = At(next, pc.vec)
      /\ imr' = (imr \ MaskChip(pc.vec)) \cup
                    {Min(MaskChip(pc.vec)) + b : b \in mask \ {MaskBit(pc.vec)}}
      /\ UNCHANGED <<irr, isr, tables, ticks, rflags_if, active, mask>>
  BY DEF enable_irq_write
<1>2. /\ pc' \in [at : Steps, vec : Vectors] /\ pc'.at \in {"sti", "hlt"} /\ pc'.vec = pc.vec
      /\ Inited'
  BY <1>0, <1>1 DEF At, Inited, Steps, AfterEnableIrq
<1>3. imr' = imr \ {pc.vec - IRQ0} /\ interrupt_handlers[pc.vec] # "null"
  <2>1. /\ mask = {l - Min(MaskChip(pc.vec)) : l \in imr \cap MaskChip(pc.vec)}
        /\ interrupt_handlers[pc.vec] # "null" /\ imr \subseteq Lines
    BY <1>0 DEF IInv, MaskInv, TypeOK
  <2> QED BY <1>0, <1>1, <2>1, MaskWritten
<1>4. TypeOK' /\ FrameInv' /\ TicksInv' /\ ServiceInv'
  BY <1>0, <1>1, <1>2, <1>3, KernelKeeps DEF IInv, TypeOK, tables
<1>5. TablesInv'
  BY <1>0, <1>1, <1>2 DEF IInv, TablesInv, tables
<1>6. MaskInv'
  <2>1. ASSUME NEW l \in Lines \ imr' PROVE interrupt_handlers'[IRQ0 + l] # "null"
    <3>1. CASE l = pc.vec - IRQ0
      <4>1. IRQ0 + l = pc.vec
        BY <1>0, <3>1 DEF IRQ0
      <4> QED BY <1>1, <1>3, <4>1 DEF tables
    <3>2. CASE l # pc.vec - IRQ0
      BY <1>0, <1>1, <1>3, <3>2 DEF IInv, MaskInv, tables
    <3> QED BY <3>1, <3>2
  <2> QED BY <1>2, <2>1 DEF MaskInv
<1> QED BY <1>4, <1>5, <1>6 DEF IInv

LEMMA KernelStepKeeps ==
    ASSUME IInv, Kernel PROVE IInv'
<1>0. UNCHANGED frame
  BY DEF Kernel
<1>1. CASE InitPit
  <2>1. /\ Quiet /\ Inited /\ pc' = At("register", IRQ0) /\ rflags_if' \in BOOLEAN
        /\ UNCHANGED <<pic_vars, tables, ticks, active, mask>>
    BY <1>1 DEF InitPit, Inited, IInv, TypeOK
  <2>2. "register" \in Steps \ {"intr_init", "stop", "read_mask", "write_mask"} /\ IRQ0 \in IRQ0 .. 47
    BY DEF Steps, IRQ0
  <2> QED BY <1>0, <2>1, <2>2, PcStepKeeps
<1>2. CASE enable
  <2>1. /\ Quiet /\ Inited /\ pc' = At("message", pc.vec) /\ rflags_if' \in BOOLEAN
        /\ UNCHANGED <<pic_vars, tables, ticks, active, mask>>
    BY <1>2 DEF enable, Inited
  <2>2. "message" \in Steps \ {"intr_init", "stop", "read_mask", "write_mask"} /\ pc.vec \in IRQ0 .. 47
    BY <2>1, QuietState DEF Steps
  <2> QED BY <1>0, <2>1, <2>2, PcStepKeeps
<1>3. CASE Messages
  <2>1. /\ Quiet /\ Inited /\ pc' = At("hlt", pc.vec) /\ rflags_if' \in BOOLEAN
        /\ UNCHANGED <<pic_vars, tables, ticks, active, mask>>
    BY <1>3 DEF Messages, Inited, IInv, TypeOK
  <2>2. "hlt" \in Steps \ {"intr_init", "stop", "read_mask", "write_mask"} /\ pc.vec \in IRQ0 .. 47
    BY <2>1, QuietState DEF Steps
  <2> QED BY <1>0, <2>1, <2>2, PcStepKeeps
<1> QED BY <1>0, <1>1, <1>2, <1>3, IntrInitKeeps, RegisterKeeps, EnableIrqReadKeeps,
           EnableIrqWriteKeeps DEF Kernel

LEMMA DriverStepKeeps ==
    ASSUME IInv, disable \/ \E vec \in DriverVectors : StartDriver(vec) PROVE IInv'
<1>1. CASE disable
  <2>1. /\ Quiet /\ Inited /\ pc' = At("sti", pc.vec) /\ rflags_if' \in BOOLEAN
        /\ UNCHANGED <<pic_vars, tables, ticks, frame, active, mask>>
    BY <1>1 DEF disable, Inited
  <2>2. "sti" \in Steps \ {"intr_init", "stop", "read_mask", "write_mask"} /\ pc.vec \in IRQ0 .. 47
    BY <2>1, QuietState DEF Steps
  <2> QED BY <2>1, <2>2, PcStepKeeps
<1>2. ASSUME NEW vec \in DriverVectors, StartDriver(vec) PROVE IInv'
  <2>1. /\ Quiet /\ Inited /\ pc' = At("register", vec) /\ rflags_if' \in BOOLEAN
        /\ UNCHANGED <<pic_vars, tables, ticks, frame, active, mask>>
    BY <1>2 DEF StartDriver, Inited, IInv, TypeOK
  <2>2. "register" \in Steps \ {"intr_init", "stop", "read_mask", "write_mask"} /\ vec \in IRQ0 .. 47
    BY InterruptsAssumption DEF Steps, IRQ0
  <2> QED BY <2>1, <2>2, PcStepKeeps
<1> QED BY <1>1, <1>2

(* An interrupt comes between two steps of kernel_main and leaves its      *)
(* tables alone.                                                           *)
LEMMA EnteredTables ==
    ASSUME IInv, Inited, UNCHANGED <<tables, pc, mask, imr>>
    PROVE  TablesInv' /\ MaskInv'
<1>1. Inited'
  BY DEF Inited
<1>2. TablesInv'
  BY <1>1 DEF IInv, TablesInv, tables
<1>3. MaskInv'
  BY <1>1 DEF IInv, MaskInv, tables
<1> QED BY <1>2, <1>3

LEMMA EnteredType ==
    ASSUME IInv, NEW vec \in Vectors \ {15}, Enter(vec), UNCHANGED <<tables, pc, mask, g_ticks, imr>>,
           irr' \subseteq irr, isr' \subseteq Lines, acks' \in 0 .. TickPeriod - 1
    PROVE  TypeOK'
<1>1. /\ regs' \in [Registers -> Registers \cup {"0", "any"}]
      /\ stack' \in Seq(Registers \cup {"error_code", "IF", "no IF"})
      /\ active' \in [vec : Vectors \cup {-1}, err_code : {"0", "error_code"},
                      at : {"none", "tick", "eoi", "iret", "spin"}]
      /\ rflags_if' \in BOOLEAN
  BY EnterKeeps DEF Words, ActiveType
<1> QED BY <1>1 DEF IInv, TypeOK, tables

LEMMA TakeKeeps ==
    ASSUME IInv, NEW line \in Devices, Take(line) PROVE IInv'
<1> USE InterruptsAssumption
<1> DEFINE vec == IRQ0 + line
<1>0. /\ line \in Lines /\ vec \in Vectors \ {15} /\ vec \in Vectors \ Defaults
      /\ vec - IRQ0 = line /\ vec >= IRQ0 /\ vec \in Int
  BY DEF Lines, Vectors, IRQ0, Defaults, INTERRUPT_MAX
<1>1. /\ Offered = line /\ Enter(vec)
      /\ irr' = irr \ {line} /\ isr' = isr \cup InService(line) /\ UNCHANGED imr
      /\ acks' = IF line = 0 THEN (acks + 1) % TickPeriod ELSE acks
      /\ UNCHANGED <<tables, g_ticks, pc, mask>>
  BY DEF Take, Acknowledge
<1> HIDE DEF vec
<1>2. /\ FrameInv' /\ Inited /\ isr = {} /\ active.at = "none"
      /\ active'.vec = vec /\ active'.at = FirstStep(vec)
  BY <1>0, <1>1, EnterKeeps
<1>3. isr' = InService(line) /\ isr' \subseteq Lines
  BY <1>0, <1>1, <1>2 DEF InService, Lines, Cascade
<1>4. interrupt_handlers[vec] = HandlerOf(vec)
  <2>1. line \notin imr
    BY <1>0, <1>1, OfferedOpen
  <2>2. interrupt_handlers[IRQ0 + line] # "null"
    BY <1>0, <1>2, <2>1 DEF IInv, MaskInv
  <2> QED BY <1>0, <1>2, <2>2 DEF IInv, TablesInv, vec
<1>5. FirstStep(vec) = IF line = 0 THEN "tick" ELSE "eoi"
  <2>1. line = 0 <=> vec = IRQ0
    BY <1>0 DEF vec, IRQ0, Lines
  <2> QED BY <1>4, <2>1 DEF FirstStep, HandlerOf
<1>6. g_ticks = acks /\ acks \in 0 .. TickPeriod - 1 /\ acks' \in 0 .. TickPeriod - 1
  <2>1. g_ticks = acks /\ acks \in 0 .. TickPeriod - 1
    BY <1>2 DEF IInv, TicksInv, TypeOK
  <2>2. (acks + 1) % TickPeriod \in 0 .. TickPeriod - 1
    BY <2>1
  <2> QED BY <1>1, <2>1, <2>2
<1>7. TicksInv'
  BY <1>1, <1>2, <1>5, <1>6 DEF TicksInv
<1>8. ServiceInv'
  <2>1. line = 0 => vec = IRQ0
    BY DEF vec, IRQ0
  <2> QED BY <1>0, <1>2, <1>3, <1>5, <2>1 DEF ServiceInv
<1>9. TypeOK'
  BY <1>0, <1>1, <1>3, <1>6, EnteredType
<1>10. TablesInv' /\ MaskInv'
  BY <1>1, <1>2, EnteredTables
<1> QED BY <1>2, <1>7, <1>8, <1>9, <1>10 DEF IInv

LEMMA SpuriousKeeps ==
    ASSUME IInv, Spurious PROVE IInv'
<1> DEFINE vec == IRQ0 + SpuriousLine
<1>0. vec \in Vectors \ {15} /\ vec \in Vectors \ Defaults /\ vec = 39 /\ vec # IRQ0
  BY DEF Vectors, IRQ0, SpuriousLine, Defaults, INTERRUPT_MAX
<1>1. /\ Enter(vec) /\ irr' = irr \ {Offered} /\ UNCHANGED <<isr, imr>>
      /\ UNCHANGED <<tables, ticks, pc, mask>>
  BY DEF Spurious, Withdraw
<1> HIDE DEF vec
<1>2. /\ FrameInv' /\ Inited /\ isr = {} /\ active.at = "none"
      /\ active'.vec = vec /\ active'.at = FirstStep(vec)
  BY <1>0, <1>1, EnterKeeps
<1>3. FirstStep(vec) \in {"iret", "eoi"}
  BY <1>0, <1>2 DEF IInv, TablesInv, FirstStep, HandlerOf
<1>4. TicksInv'
  BY <1>1, <1>2, <1>3 DEF IInv, TicksInv, ticks
<1>5. ServiceInv'
  BY <1>0, <1>1, <1>2, <1>3 DEF ServiceInv, vec, IRQ0
<1>6. TypeOK'
  BY <1>0, <1>1, EnteredType DEF IInv, TypeOK, ticks
<1>7. TablesInv' /\ MaskInv'
  BY <1>1, <1>2, EnteredTables
<1> QED BY <1>2, <1>4, <1>5, <1>6, <1>7 DEF IInv

LEMMA ExceptionKeeps ==
    ASSUME IInv, NEW vec \in Exceptions, Exception(vec) PROVE IInv'
<1>0. vec \in Vectors \ {15} /\ vec \in Defaults
  BY InterruptsAssumption DEF Vectors, Defaults, INTERRUPT_MAX
<1>1. Enter(vec) /\ UNCHANGED <<pic_vars, tables, ticks, pc, mask>>
  BY DEF Exception
<1>2. /\ FrameInv' /\ Inited /\ isr = {} /\ active.at = "none"
      /\ active'.vec = vec /\ active'.at = FirstStep(vec)
  BY <1>0, <1>1, EnterKeeps
<1>3. FirstStep(vec) = "spin"
  BY <1>0, <1>2 DEF IInv, TablesInv, FirstStep
<1>4. TicksInv'
  BY <1>1, <1>2, <1>3 DEF IInv, TicksInv, ticks
<1>5. ServiceInv'
  BY <1>1, <1>2, <1>3 DEF ServiceInv, pic_vars
<1>6. TypeOK'
  BY <1>0, <1>1, EnteredType DEF IInv, TypeOK, ticks, pic_vars
<1>7. TablesInv' /\ MaskInv'
  BY <1>1, <1>2, EnteredTables DEF pic_vars
<1> QED BY <1>2, <1>4, <1>5, <1>6, <1>7 DEF IInv

(* A step of a handler before its iretq: it stays in the same frame. *)
LEMMA HandlerStepKeeps ==
    ASSUME IInv, ~Quiet, NEW step \in {"eoi", "iret"}, active' = [active EXCEPT !.at = step],
           UNCHANGED <<tables, frame, pc, rflags_if, mask, irr, imr, acks>>,
           isr' \subseteq Lines, g_ticks' \in 0 .. TickPeriod - 1
    PROVE  /\ TypeOK' /\ TablesInv' /\ MaskInv' /\ FrameInv'
           /\ active'.at = step /\ active'.vec = active.vec
<1>0. active \in ActiveType
  BY DEF IInv, TypeOK, ActiveType
<1>1. /\ active'.at = step /\ active'.vec = active.vec /\ active'.err_code = active.err_code
      /\ active' \in ActiveType
  BY <1>0 DEF ActiveType
<1>2. ~Quiet'
  BY <1>1 DEF Quiet, Idle
<1>3. Inited
  BY DEF IInv, TablesInv
<1>4. TablesInv' /\ MaskInv'
  BY <1>3, EnteredTables
<1>5. TypeOK'
  BY <1>1 DEF IInv, TypeOK, ActiveType, tables, frame
<1>6. FrameInv'
  BY <1>1, <1>2 DEF IInv, FrameInv, frame
<1> QED BY <1>1, <1>4, <1>5, <1>6

LEMMA TimerTickKeeps ==
    ASSUME IInv, TimerTick PROVE IInv'
<1>0. active.at = "tick" /\ ~Quiet /\ active.vec = IRQ0
  BY DEF TimerTick, IInv, ServiceInv, Quiet, Idle
<1>1. /\ g_ticks' = (g_ticks + 1) % TickPeriod
      /\ active' = [active EXCEPT !.at = "eoi"]
      /\ UNCHANGED <<pic_vars, tables, acks, frame, pc, rflags_if, mask>>
  BY DEF TimerTick
<1>2. /\ g_ticks' \in 0 .. TickPeriod - 1 /\ isr' \subseteq Lines /\ isr' = isr
      /\ UNCHANGED <<irr, imr>>
  <2>0. TypeOK
    BY DEF IInv
  <2>1. g_ticks \in 0 .. TickPeriod - 1 /\ isr \subseteq Lines /\ TickPeriod \in Nat \ {0}
    BY <2>0, InterruptsAssumption, Zenon DEF TypeOK
  <2>2. (g_ticks + 1) % TickPeriod \in 0 .. TickPeriod - 1
    BY <2>1
  <2> QED BY <1>1, <2>1, <2>2 DEF pic_vars
<1>3. /\ TypeOK' /\ TablesInv' /\ MaskInv' /\ FrameInv'
      /\ active'.at = "eoi" /\ active'.vec = active.vec
  BY <1>0, <1>1, <1>2, HandlerStepKeeps
<1>4. TicksInv'
  BY <1>0, <1>1, <1>3 DEF IInv, TicksInv
<1>5. ServiceInv'
  BY <1>0, <1>2, <1>3 DEF IInv, ServiceInv
<1> QED BY <1>3, <1>4, <1>5 DEF IInv

LEMMA SendEoiKeeps ==
    ASSUME IInv, send_eoi PROVE IInv'
<1>0. active.at = "eoi" /\ ~Quiet
  BY DEF send_eoi, Quiet, Idle
<1>1. /\ isr' = isr \ UNION {First(chip, isr) : chip \in ChipsToldEoi(active.vec)}
      /\ active' = [active EXCEPT !.at = "iret"]
      /\ UNCHANGED <<irr, imr, tables, ticks, frame, pc, rflags_if, mask>>
  BY DEF send_eoi
<1>2. active.vec \in IRQ0 .. 47 /\ (isr = {} \/ isr = InService(active.vec - IRQ0))
  <2>1. active.vec \in Vectors /\ active.vec >= IRQ0
    BY <1>0 DEF IInv, ServiceInv, FrameInv
  <2>2. isr = {} \/ isr = InService(active.vec - IRQ0)
    BY <1>0 DEF IInv, ServiceInv
  <2> QED BY <2>1, <2>2 DEF Vectors, IRQ0
<1>3. isr' = {}
  BY <1>1, <1>2, EoiEnds
<1>4. /\ TypeOK' /\ TablesInv' /\ MaskInv' /\ FrameInv'
      /\ active'.at = "iret" /\ active'.vec = active.vec
  BY <1>0, <1>1, <1>3, HandlerStepKeeps DEF ticks, IInv, TypeOK
<1>5. TicksInv' /\ ServiceInv'
  BY <1>0, <1>1, <1>3, <1>4 DEF IInv, TicksInv, ServiceInv, ticks
<1> QED BY <1>4, <1>5 DEF IInv

LEMMA IretqKeeps ==
    ASSUME IInv, iretq PROVE IInv'
<1>0. active.at = "iret" /\ ~Quiet /\ isr = {} /\ active.vec \in Vectors \ {15} /\ Inited
  BY DEF iretq, IInv, FrameInv, ServiceInv, TablesInv, Quiet, Idle
<1>1. PICK flags \in {"IF", "no IF"} :
          stack = AtCall(active.vec, [Interrupted EXCEPT !["rflags"] = flags])
  BY <1>0 DEF IInv, FrameInv
<1> DEFINE vals == [Interrupted EXCEPT !["rflags"] = flags]
<1>2. Returned(stack) = vals
  BY <1>0, <1>1, InterruptedTyped, ReturnedIs
<1>3. /\ active' = Idle
      /\ rflags_if' = (vals["rflags"] = "IF")
      /\ regs' = [vals EXCEPT !["rflags"] = "rflags"]
      /\ stack' = IF vals["rsp"] = "rsp" THEN <<>> ELSE stack
      /\ UNCHANGED <<pic_vars, tables, ticks, pc, mask>>
  BY <1>2 DEF iretq
<1>4. regs' = Interrupted /\ stack' = <<>>
  BY <1>3, InterruptedTyped DEF Interrupted
<1>5. /\ active' \in ActiveType /\ active'.at = "none" /\ Quiet' /\ rflags_if' \in BOOLEAN
  BY <1>3 DEF ActiveType, Idle, Quiet
<1> HIDE DEF vals
<1>6. TypeOK'
  <2>1. regs' \in [Registers -> Registers \cup {"0", "any"}]
    BY <1>4, InterruptedTyped
  <2>2. stack' \in Seq(Registers \cup {"error_code", "IF", "no IF"})
    BY <1>4, EmptySeq, Zenon
  <2> QED BY <1>3, <1>5, <2>1, <2>2 DEF IInv, TypeOK, ActiveType, pic_vars, tables, ticks
<1>7. TablesInv' /\ MaskInv'
  BY <1>0, <1>3, EnteredTables DEF pic_vars
<1>8. FrameInv'
  BY <1>4, <1>5 DEF FrameInv
<1>9. TicksInv' /\ ServiceInv'
  BY <1>0, <1>3, <1>5 DEF IInv, TicksInv, ServiceInv, ticks, pic_vars
<1> QED BY <1>6, <1>7, <1>8, <1>9 DEF IInv

LEMMA DeviceKeeps ==
    ASSUME IInv, NEW line \in Devices, Device(line) PROVE IInv'
<1>1. /\ irr' = irr \cup {line}
      /\ UNCHANGED <<isr, imr, tables, ticks, frame, pc, rflags_if, active, mask>>
  BY DEF Device, Raise
<1>2. irr' \subseteq Lines
  <2>1. irr \subseteq Lines
    BY DEF IInv, TypeOK
  <2>2. line \in Lines
    BY InterruptsAssumption
  <2> QED BY <1>1, <2>1, <2>2
<1>3. TypeOK'
  BY <1>1, <1>2 DEF IInv, TypeOK, tables, ticks, frame
<1>4. TablesInv' /\ MaskInv'
  BY <1>1 DEF IInv, TablesInv, MaskInv, Inited, Quiet, tables
<1>5. TicksInv' /\ ServiceInv' /\ FrameInv'
  BY <1>1 DEF IInv, TicksInv, ServiceInv, FrameInv, Quiet, ticks, frame
<1> QED BY <1>3, <1>4, <1>5 DEF IInv

LEMMA StepInv == IInv /\ [Next]_vars => IInv'
<1> SUFFICES ASSUME IInv, [Next]_vars PROVE IInv'
  OBVIOUS
<1>1. CASE UNCHANGED vars
  <2>1. UNCHANGED <<irr, isr, imr, tables, ticks, frame, pc, rflags_if, active, mask>>
    BY <1>1 DEF vars, pic_vars
  <2>2. TypeOK'
    BY <2>1 DEF IInv, TypeOK, tables, ticks, frame
  <2>3. TablesInv' /\ MaskInv'
    BY <2>1 DEF IInv, TablesInv, MaskInv, Inited, Quiet, tables
  <2>4. TicksInv' /\ ServiceInv' /\ FrameInv'
    BY <2>1 DEF IInv, TicksInv, ServiceInv, FrameInv, Quiet, ticks, frame
  <2> QED BY <2>2, <2>3, <2>4 DEF IInv
<1> QED BY <1>1, KernelStepKeeps, TimerTickKeeps, SendEoiKeeps, IretqKeeps, DriverStepKeeps,
           SpuriousKeeps, ExceptionKeeps, TakeKeeps, DeviceKeeps DEF Next, Handler

-----------------------------------------------------------------------------
(* The state stays well typed: with any tick period, g_ticks never leaves  *)
(* 0 .. TickPeriod - 1 (timer.cpp:18).                                     *)
THEOREM TypesKept == Spec => []TypeOK
<1>1. IInv => TypeOK
  BY DEF IInv
<1> QED BY <1>1, InitInv, StepInv, PTL DEF Spec

(* With any devices and drivers, on either chip, no line stays in service  *)
(* once its handler has returned, and each handler that ends a line ends   *)
(* the one that was taken (intr.cpp:338, timer.cpp:46-50).                 *)
THEOREM EveryLineEnded == Spec => []InServiceIsHandled
<1>1. IInv => InServiceIsHandled
  <2> SUFFICES ASSUME IInv PROVE InServiceIsHandled
    OBVIOUS
  <2>1. isr # {} => /\ active.at \in {"tick", "eoi"} /\ ~Quiet /\ active.vec \in Vectors
                    /\ isr = InService(active.vec - IRQ0)
    BY DEF IInv, ServiceInv, FrameInv
  <2>2. InService(active.vec - IRQ0) # {}
    BY DEF InService
  <2> QED BY <2>1, <2>2 DEF IInv, ServiceInv, InServiceIsHandled, Vectors
<1> QED BY <1>1, InitInv, StepInv, PTL DEF Spec

(* g_ticks counts each timer interrupt that the CPU took once, whatever    *)
(* else interrupts (timer.cpp:18).                                         *)
THEOREM EveryTickCounted == Spec => []TicksExact
<1>1. IInv => TicksExact
  BY DEF IInv, TicksInv, TicksExact
<1> QED BY <1>1, InitInv, StepInv, PTL DEF Spec

(* Every handler finds on its stack what intr_context_t declares, whether  *)
(* or not the CPU has pushed an error code (intr.h:44, idt.S:111).         *)
THEOREM HandlersFindTheirFrame == Spec => []FrameAsDeclared
<1>1. IInv => FrameAsDeclared
  <2> SUFFICES ASSUME IInv, ~Quiet PROVE FrameAsDeclared
    BY DEF FrameAsDeclared
  <2>0. /\ active.vec \in Vectors \ {15} /\ idtr_base = idt_addr
        /\ active.err_code = IF active.vec \in ErrorCodeVectors THEN "error_code" ELSE "0"
    BY DEF IInv, FrameInv, TablesInv
  <2>1. PICK flags \in {"IF", "no IF"} :
            stack = AtCall(active.vec, [Interrupted EXCEPT !["rflags"] = flags])
    BY DEF IInv, FrameInv
  <2> DEFINE vals == [Interrupted EXCEPT !["rflags"] = flags]
  <2>2. vals \in [Registers -> Words]
    BY InterruptedTyped
  <2>3. /\ Len(stack) = IF active.vec \in ErrorCodeVectors THEN 26 ELSE 20
        /\ \A i \in 1 .. 20 : stack[i] = vals[intr_context_t[i]]
    BY <2>0, <2>1, <2>2, AtCallIs, Zenon
  <2> HIDE DEF vals
  <2>4. (8 * Len(stack)) % 16 = 0
    <3>1. Len(stack) = 20 \/ Len(stack) = 26
      BY <2>3
    <3> QED BY <3>1, FramesAligned
  <2>5. \A i \in 1 .. 20 :
            stack[i] \in IF intr_context_t[i] = "rflags" THEN {"IF", "no IF"}
                        ELSE {Interrupted[intr_context_t[i]]}
    BY <2>3, ContextTyped, InterruptedTyped DEF vals
  <2> QED BY <2>0, <2>4, <2>5, ContextTyped DEF FrameAsDeclared
<1> QED BY <1>1, InitInv, StepInv, PTL DEF Spec

(* Interrupted code goes on with its own registers and stack pointer, for  *)
(* every interrupt and exception that returns (idt.S:95).                  *)
THEOREM InterruptedGoesOn == Spec => []ContextRestored
<1>1. IInv => ContextRestored
  BY DEF IInv, FrameInv, ContextRestored
<1> QED BY <1>1, InitInv, StepInv, PTL DEF Spec
=============================================================================

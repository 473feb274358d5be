-------------------------------- MODULE PIC ---------------------------------
(***************************************************************************)
(* The two 8259A interrupt controllers behind the ports 0x20, 0x21, 0xA0   *)
(* and 0xA1, external to the kernel and modelled from the commands intr.cpp*)
(* sends them.  Lines 0 .. 7 are the master's, 8 .. 15 the slave's, whose  *)
(* output is line 2 of the master.  A chip holds the latched requests      *)
(* (irr), the lines in service (isr) and the masked lines (imr); a lower   *)
(* line has priority.                                                      *)
(***************************************************************************)
EXTENDS Integers, FiniteSetsExt

VARIABLES irr, isr, imr

pic_vars == <<irr, isr, imr>>

Lines   == 0 .. 15
Master  == 0 .. 7
Slave   == 8 .. 15
Cascade == 2
ChipOf(line) == IF line \in Master THEN Master ELSE Slave

(* A device signals on its line. *)
Raise(line) == irr' = irr \cup {line} /\ UNCHANGED <<isr, imr>>

(* A line in service holds back itself and the lines below it. *)
Ahead(line, busy) == \A l \in busy \cap ChipOf(line) : line < l
Requests(line) == line \in irr /\ line \notin imr /\ Ahead(line, isr)
SlaveRequests == \E l \in Slave : Requests(l)
MasterRequests(line) == IF line = Cascade
                        THEN SlaveRequests /\ line \notin imr /\ Ahead(line, isr)
                        ELSE Requests(line)

(* The line the CPU is told of when it acknowledges; none: NoLine. *)
NoLine == -1
Offered ==
    LET m == {l \in Master : MasterRequests(l)} IN
    IF m = {} THEN NoLine
    ELSE IF Min(m) # Cascade THEN Min(m)
    ELSE Min({l \in Slave : Requests(l)})

InService(line) == IF line \in Slave THEN {line, Cascade} ELSE {line}

Acknowledge(line) ==
    /\ irr' = irr \ {line}
    /\ isr' = isr \cup InService(line)
    /\ UNCHANGED imr

(* The request has gone away when the CPU acknowledges: the master answers *)
(* with its line 7 and puts nothing in service.                            *)
SpuriousLine == 7
Withdraw(line) == irr' = irr \ {line} /\ UNCHANGED <<isr, imr>>

(* The non-specific end of interrupt: the chip's first line in service.    *)
First(chip, busy) == IF busy \cap chip = {} THEN {} ELSE {Min(busy \cap chip)}

(* ICW1 to ICW4 restart both chips. *)
Restarted(masked) == irr' = {} /\ isr' = {} /\ imr' = masked
=============================================================================

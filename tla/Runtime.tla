------------------------------ MODULE Runtime -------------------------------
(***************************************************************************)
(* The libraries the kernel is linked with: string.c, vsprintf.c and       *)
(* cxxabi.cpp.  They share no state, so each is explored while the others  *)
(* are as they were at the start.                                          *)
(***************************************************************************)
EXTENDS CString, Format, CxxAbi

vars == <<string_vars, fmt, cxx_vars>>

Init == StringInit /\ FormatInit /\ CxxInit

StringIdle == call = NoCall /\ mem = [a \in Addresses |-> 0]
FormatIdle == fmt = NoFormat
TableIdle == __atexit_func_count = 0 /\ done = 0
GuardIdle == ~at.sti /\ at["kernel"] = Outside /\ \A s \in Statics : ~guard[s]

UseStrings ==
    /\ FormatIdle /\ TableIdle /\ GuardIdle
    /\ StringCall /\ UNCHANGED <<fmt, cxx_vars>>
UseFormat ==
    /\ StringIdle /\ TableIdle /\ GuardIdle
    /\ FormatCall /\ UNCHANGED <<string_vars, cxx_vars>>
Formatting == _vsnprintf /\ UNCHANGED <<string_vars, cxx_vars>>
UseTable ==
    /\ StringIdle /\ FormatIdle /\ GuardIdle
    /\ TableStep /\ UNCHANGED <<string_vars, fmt>>
UseStatics ==
    /\ StringIdle /\ FormatIdle /\ TableIdle
    /\ GuardStep /\ UNCHANGED <<string_vars, fmt>>

Next == UseStrings \/ UseFormat \/ Formatting \/ UseTable \/ UseStatics

Spec == Init /\ [][Next]_vars

-----------------------------------------------------------------------------
TypeOK ==
    /\ mem \in [Addresses -> 0 .. UCHAR - 1]
    /\ fmt.at \in Labels
    /\ fmt.at # "none" => /\ fmt.width \in 0 .. 2 ^ INT_BITS - 1
                          /\ fmt.precision \in 0 .. 2 ^ INT_BITS - 1
                          /\ DOMAIN fmt.buffer = 0 .. BufBytes - 1
    /\ __atexit_func_count \in 0 .. ATEXIT_MAX_FUNCS
    /\ \A k \in DOMAIN fin : fin[k].i \in 0 .. ATEXIT_MAX_FUNCS
    /\ \A i \in Table : __atexit_funcs[i].f \in Destructors \cup {All}
    /\ guard \in [Statics -> BOOLEAN]
=============================================================================

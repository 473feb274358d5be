------------------------------- MODULE CxxAbi -------------------------------
(***************************************************************************)
(* libcxx/src/cxxabi.cpp: the table of destructors, and the guards of      *)
(* static objects inside functions, as the compiler uses them for          *)
(* get_instance in the kernel and in interrupt handlers.                   *)
(*                                                                         *)
(* A destructor is a function with an object.  __cxa_atexit, which the     *)
(* compiler calls on x86, stores nothing; __aeabi_atexit does.             *)
(***************************************************************************)
EXTENDS Integers, SequencesExt, FiniteSetsExt

CONSTANTS ATEXIT_MAX_FUNCS, \* 128
          Destructors, Objects,
          Statics,          \* the statics kernel_main gets, among them
          HandlerStatics,   \* the ones interrupt handlers get too (INTERRUPTS)
          MaxFinalize       \* bound: calls of __cxa_finalize

ASSUME CxxAbiAssumption ==
    /\ ATEXIT_MAX_FUNCS \in Nat \ {0} /\ MaxFinalize \in Nat
    /\ HandlerStatics \subseteq Statics

VARIABLES __atexit_funcs, __atexit_func_count,
          fin,              \* the calls of __cxa_finalize under way, the innermost last, see Frame
          done,             \* how many calls there were so far
          destroyed,        \* the calls of destructors so far, see Destruction
          guard, built,     \* the guard of each static, and how often it was constructed
          at                \* of kernel_main and a handler: in get_instance of which static

cxx_vars == <<__atexit_funcs, __atexit_func_count, fin, done, destroyed, guard, built, at>>
table_vars == <<__atexit_funcs, __atexit_func_count, fin, done, destroyed>>
guard_vars == <<guard, built, at>>

All == "0"                  \* a null function
Table == 0 .. ATEXIT_MAX_FUNCS - 1
Outside == [step |-> "out", s |-> "none"]

CxxInit ==
    /\ __atexit_funcs = [i \in Table |-> [f |-> All, obj |-> All]] /\ __atexit_func_count = 0
    /\ fin = <<>> /\ done = 0 /\ destroyed = <<>>
    /\ guard = [s \in Statics |-> FALSE] /\ built = [s \in Statics |-> 0]
    /\ at = [kernel |-> Outside, handler |-> Outside, sti |-> FALSE]

-----------------------------------------------------------------------------
(* A destructor may register another one and call __cxa_finalize again.    *)
Top == fin[Len(fin)]
Calling == fin # <<>> => Top.n # 0  \* none of the loops runs, or it has called a destructor

__aeabi_atexit_Full(f, obj) ==      \* mutation: > for >=
    /\ Calling
    /\ IF __atexit_func_count > ATEXIT_MAX_FUNCS
       THEN UNCHANGED <<__atexit_funcs, __atexit_func_count>>
       ELSE /\ __atexit_funcs' = [__atexit_funcs EXCEPT ![__atexit_func_count] = [f |-> f, obj |-> obj]]
            /\ __atexit_func_count' = __atexit_func_count + 1
    /\ UNCHANGED <<fin, done, destroyed, guard_vars>>
__aeabi_atexit(f, obj) ==
    /\ Calling
    /\ IF __atexit_func_count >= ATEXIT_MAX_FUNCS
       THEN UNCHANGED <<__atexit_funcs, __atexit_func_count>>
       ELSE /\ __atexit_funcs' = [__atexit_funcs EXCEPT ![__atexit_func_count] = [f |-> f, obj |-> obj]]
            /\ __atexit_func_count' = __atexit_func_count + 1
    /\ UNCHANGED <<fin, done, destroyed, guard_vars>>

(* The entries a call is to destroy. *)
Alive(f) == {i \in 0 .. __atexit_func_count - 1 :
                 __atexit_funcs[i].f # All /\ f \in {All, __atexit_funcs[i].f}}

(* A call: its argument and i, the destructor call it is in (its place in  *)
(* destroyed, or 0), how many there were when it began, the entries it     *)
(* called so far, and those it is to destroy.                              *)
Frame(f) == [f |-> f, i |-> __atexit_func_count, n |-> 0, since |-> Len(destroyed),
             log |-> <<>>, want |-> Alive(f)]
__cxa_finalize(f) ==
    /\ Calling /\ done < MaxFinalize
    /\ fin' = Append(fin, Frame(f)) /\ done' = done + 1
    /\ UNCHANGED <<__atexit_funcs, __atexit_func_count, destroyed, guard_vars>>

(* One round of either loop, up to the call of the destructor: of which    *)
(* entry, for which argument, and inside which destructors.                *)
Matches(f, entry) == IF f = All THEN entry.f # All ELSE entry.f = f
Destruction(i) == [i |-> i, f |-> Top.f, inside |-> {fin[k].n : k \in 1 .. Len(fin) - 1}]
FinalizeEntry ==
    /\ fin # <<>> /\ Top.n = 0 /\ Top.i > 0
    /\ LET i == Top.i - 1 IN
       IF Matches(Top.f, __atexit_funcs[i])
       THEN /\ fin' = [fin EXCEPT ![Len(fin)] =
                           [Top EXCEPT !.i = i, !.n = Len(destroyed) + 1, !.log = Append(@, i)]]
            /\ destroyed' = Append(destroyed, Destruction(i))
       ELSE fin' = [fin EXCEPT ![Len(fin)].i = i] /\ UNCHANGED destroyed
    /\ UNCHANGED <<__atexit_funcs, __atexit_func_count, done, guard_vars>>

(* Only the second loop clears the entry, and only now. *)
Kept_Always(i) == __atexit_funcs                \* mutation: the entry is not cleared
Kept(i) == IF Top.f = All THEN __atexit_funcs ELSE [__atexit_funcs EXCEPT ![i].f = All]
DestructorReturns ==
    /\ fin # <<>> /\ Top.n # 0
    /\ __atexit_funcs' = Kept(Top.i) /\ fin' = [fin EXCEPT ![Len(fin)].n = 0]
    /\ UNCHANGED <<__atexit_func_count, done, destroyed, guard_vars>>

FinalizeReturn ==
    /\ fin # <<>> /\ Top.n = 0 /\ Top.i = 0 /\ fin' = Front(fin)
    /\ UNCHANGED <<__atexit_funcs, __atexit_func_count, done, destroyed, guard_vars>>

-----------------------------------------------------------------------------
(* get_instance: __cxa_guard_acquire; if it says so, the constructor and   *)
(* __cxa_guard_release.                                                    *)
__cxa_guard_acquire(s) == ~guard[s]

Runs(x) == x = "handler" \/ at["handler"] = Outside
GetInstance(x, s) ==
    /\ Runs(x) /\ at[x] = Outside
    /\ x = "handler" => at.sti /\ s \in HandlerStatics
    /\ at' = [at EXCEPT ![x] = [step |-> IF __cxa_guard_acquire(s) THEN "construct" ELSE "out",
                                s |-> IF __cxa_guard_acquire(s) THEN s ELSE "none"]]
    /\ UNCHANGED <<guard, built>>

Construct(x) ==
    /\ Runs(x) /\ at[x].step = "construct"
    /\ built' = [built EXCEPT ![at[x].s] = @ + 1]
    /\ at' = [at EXCEPT ![x].step = "release"]
    /\ UNCHANGED guard

__cxa_guard_release(x) ==
    /\ Runs(x) /\ at[x].step = "release"
    /\ guard' = [guard EXCEPT ![at[x].s] = TRUE]
    /\ at' = [at EXCEPT ![x] = Outside]
    /\ UNCHANGED built

(* kernel_main turns interrupts on in TIMER::init, which has called        *)
(* get_instance for what the handlers use.                                 *)
TurnOn_Early ==             \* mutation: before INTERRUPTS::get_instance
    /\ at["kernel"] = Outside /\ ~at.sti
    /\ at' = [at EXCEPT !.sti = TRUE] /\ UNCHANGED <<guard, built>>
TurnOn ==
    /\ at["kernel"] = Outside /\ ~at.sti /\ \A s \in HandlerStatics : guard[s]
    /\ at' = [at EXCEPT !.sti = TRUE] /\ UNCHANGED <<guard, built>>

GuardStep ==
    /\ \/ TurnOn
       \/ \E x \in {"kernel", "handler"} : Construct(x) \/ __cxa_guard_release(x)
                                            \/ \E s \in Statics : GetInstance(x, s)
    /\ UNCHANGED table_vars

TableStep ==
    \/ FinalizeEntry \/ DestructorReturns \/ FinalizeReturn
    \/ \E f \in Destructors \cup {All} : __cxa_finalize(f)
    \/ \E f \in Destructors, obj \in Objects : __aeabi_atexit(f, obj)

-----------------------------------------------------------------------------
(* No object is destroyed a second time, with two exceptions: one that a   *)
(* call without a function destroyed, which keeps its entry, and one whose *)
(* own destructor still runs, whose entry is cleared only when it returns  *)
(* (cxxabi.cpp:147, cxxabi.cpp:166, cxxabi.cpp:200-201).                   *)
DestroyedOnce ==
    \A m, n \in DOMAIN destroyed :
        m < n /\ destroyed[m].i = destroyed[n].i => destroyed[m].f = All \/ m \in destroyed[n].inside

LastFirst(log) == \A m, n \in DOMAIN log : m < n => log[m] > log[n]
DestroyedSince(m, j) == \E n \in m + 1 .. Len(destroyed) : destroyed[n].i = j

(* A call destroys nothing but what was registered for it when it began,   *)
(* the last one first; and when it returns, all of that is destroyed, by   *)
(* itself or by a call out of one of its destructors, although destructors *)
(* may register more meanwhile, earlier calls have left holes, and inner   *)
(* calls leave new ones.  Nothing is destroyed a second time but as        *)
(* DestroyedOnce says (cxxabi.cpp:145, cxxabi.cpp:166, cxxabi.cpp:173-185).*)
FinalizeRight ==
    /\ DestroyedOnce
    /\ \A k \in DOMAIN fin :
          /\ Range(fin[k].log) \subseteq fin[k].want /\ LastFirst(fin[k].log)
          /\ fin[k].i = 0 /\ fin[k].n = 0 => \A j \in fin[k].want : DestroyedSince(fin[k].since, j)

(* A static is constructed once, however kernel_main and the handlers that *)
(* interrupt it get it, and nobody gets it unfinished (cxxabi.cpp:222,     *)
(* cxxabi.cpp:226, timer.cpp:46-50).                                       *)
BuiltOnce == \A s \in Statics : built[s] <= 1 /\ (guard[s] => built[s] = 1)
=============================================================================

---------------------------- MODULE PageAllocator ---------------------------
(***************************************************************************)
(* What ALLOCATOR (libk/include/allocator.h) promises its callers: a       *)
(* region of pages from which runs of free pages are taken and to which    *)
(* pages are given back.  Which free run an allocation takes is open; a    *)
(* refusal is allowed only when no run would do.                           *)
(***************************************************************************)
EXTENDS Integers, FiniteSets

CONSTANT Capacities             \* the numbers of pages a region may have

VARIABLES capacity,             \* the pages of the region are 0 .. capacity - 1
          taken,                \* the pages callers own
          op,                   \* the last call,
          asked,                \* the number of pages it asked for,
          granted               \* and the pages it handed out

vars == <<capacity, taken, op, asked, granted>>

Pages == 0 .. capacity - 1
Free  == Pages \ taken

(* The runs of n free pages. *)
FreeRuns(n) == {k .. k + n - 1 : k \in {j \in Pages : j .. j + n - 1 \subseteq Free}}

Init == capacity = 0 /\ taken = {} /\ op = "none" /\ granted = {} /\ asked = 0

(* The constructor gives the region its size, once. *)
Create ==
    /\ capacity = 0 /\ taken = {}
    /\ capacity' \in Capacities
    /\ op' = "none" /\ asked' = 0 /\ granted' = {} /\ taken' = {}

(* alloc(_len): some free run, or nothing when there is none.  A request   *)
(* for no page takes nothing.                                              *)
Alloc ==
    /\ op' = "alloc" /\ asked' \in Nat
    /\ \/ asked' > 0 /\ granted' \in FreeRuns(asked')
       \/ granted' = {} /\ (asked' > 0 => FreeRuns(asked') = {})
    /\ taken' = taken \cup granted'
    /\ UNCHANGED capacity

(* alloc(_addr, _len): the run at the given page, or nothing when a page   *)
(* of that run is taken or the run starts outside the region (Outside).    *)
Outside == -1
AllocAt(k) ==
    /\ op' = "alloc_at" /\ asked' \in Nat
    /\ LET run == k .. k + asked' - 1 IN
       /\ granted' = IF k \in Pages /\ run \subseteq Free THEN run ELSE {}
       /\ taken' = taken \cup granted'
    /\ UNCHANGED capacity

(* free(_addr, _len): the caller gives back pages that are taken. *)
Release(pages) ==
    /\ pages \subseteq taken
    /\ taken' = taken \ pages
    /\ op' = "free" /\ asked' = 0 /\ granted' = {}
    /\ UNCHANGED capacity

Next ==
    \/ Create
    \/ Alloc
    \/ \E k \in Pages \cup {Outside} : AllocAt(k)
    \/ \E pages \in SUBSET taken : Release(pages)

Spec == Init /\ [][Next]_vars
=============================================================================

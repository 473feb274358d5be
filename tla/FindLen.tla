------------------------------ MODULE FindLen -------------------------------
(***************************************************************************)
(* The loop of FIRSTFIT::find_len, one iteration per step, on every bitmap *)
(* of up to MaxLength pages and every request of up to MaxLen pages.  The  *)
(* other modules use Bitmap!find_len, which says in one formula what the   *)
(* loop returns; here the loop is shown to return exactly that.            *)
(***************************************************************************)
EXTENDS Bitmap

CONSTANTS MaxLength, MaxLen

ASSUME BoundsAssumption ==
    MaxLength \in Nat /\ MaxLen \in Nat /\ MaxLength < SizeMod - 1

VARIABLES map, allocator_length, len, val,   \* the object and the arguments
          i, count, idx,                     \* the locals of find_len
          done, res                          \* the returned value

vars == <<map, allocator_length, len, val, i, count, idx, done, res>>
args == <<map, allocator_length, len, val>>

Bits == 0 .. MaxLength - 1

Init ==
    /\ map \in [Bits -> BOOLEAN]
    /\ allocator_length \in 0 .. MaxLength
    /\ len \in 0 .. MaxLen
    /\ val \in BOOLEAN
    /\ i = 0 /\ count = 0 /\ idx = 0
    /\ done = FALSE /\ res = 0

(* The counter after the body of one iteration has looked at bit i. *)
NextCount == IF test(map, i) # val THEN 0 ELSE count + 1
NextIdx   == IF test(map, i) # val THEN i + 1 ELSE idx

(* One iteration that does not return. *)
Scan ==
    /\ ~done /\ i < allocator_length
    /\ NextCount # len
    /\ count' = NextCount /\ idx' = NextIdx /\ i' = i + 1
    /\ UNCHANGED <<args, done, res>>

(* The iteration in which count == _len. *)
ReturnIdx_Stale ==          \* mutation: the idx of the previous iteration
    /\ ~done /\ i < allocator_length
    /\ NextCount = len
    /\ count' = NextCount /\ idx' = NextIdx
    /\ done' = TRUE /\ res' = idx
    /\ UNCHANGED <<args, i>>

ReturnIdx ==
    /\ ~done /\ i < allocator_length
    /\ NextCount = len
    /\ count' = NextCount /\ idx' = NextIdx
    /\ done' = TRUE /\ res' = NextIdx
    /\ UNCHANGED <<args, i>>

(* The loop ends without a run. *)
ReturnNone ==
    /\ ~done /\ i = allocator_length
    /\ done' = TRUE /\ res' = NoIndex
    /\ UNCHANGED <<args, i, count, idx>>

Next == Scan \/ ReturnIdx \/ ReturnNone

Spec == Init /\ [][Next]_vars

-----------------------------------------------------------------------------
TypeOK ==
    /\ map \in [Bits -> BOOLEAN]
    /\ allocator_length \in 0 .. MaxLength
    /\ len \in 0 .. MaxLen
    /\ val \in BOOLEAN
    /\ i \in 0 .. allocator_length
    /\ count \in 0 .. MaxLength
    /\ idx \in 0 .. MaxLength
    /\ done \in BOOLEAN
    /\ res \in 0 .. SizeMod - 1

(* The loop invariant at the head of an iteration (firstfit.cpp:33): the   *)
(* count pages before i are exactly the run of val that starts at idx, and *)
(* no earlier iteration could have returned.                               *)
ScanInv ==
    ~done => /\ count = i - idx
             /\ \A j \in idx .. i - 1 : map[j] = val
             /\ idx > 0 => map[idx - 1] # val
             /\ len = 0 => idx = 0
             /\ \A e \in RunEnds(map, allocator_length, len, val) : e >= i

(* find_len returns the start of the first run of _len bits equal to _val  *)
(* and ~0 only when there is none, for every bitmap and every length,      *)
(* a request for no page included.                                         *)
ReturnsFirstRun == done => res = find_len(map, allocator_length, len, val)
=============================================================================

------------------------------- MODULE Bitmap -------------------------------
(***************************************************************************)
(* The page bitmap of FIRSTFIT (libk/src/firstfit.cpp): one bit per page,  *)
(* TRUE when the page is in use.  A bitmap is a function from bit numbers  *)
(* to BOOLEAN; the word and the mask that hold bit i (_idx >> SHIFT,       *)
(* _idx & MASK) are a bijection on bit numbers and are left out.           *)
(***************************************************************************)
EXTENDS Integers

CONSTANT SizeMod        \* 2^w for the width w of size_t

ASSUME SizeModAssumption == SizeMod \in Nat /\ SizeMod > 1

(* size_t arithmetic wraps. *)
Add(a, b) == (a + b) % SizeMod

Sub(a, b) == (a - b) % SizeMod

(* ~(size_t)0: what find_len answers when there is no run. *)
NoIndex == SizeMod - 1

test(map, i) == map[i]

(* The loops "for (auto i = idx; i < idx + _len; i++) set(i)" and clr(i). *)
set(map, idx, len) == [i \in DOMAIN map |-> map[i] \/ i \in idx .. idx + len - 1]

(* Mutation: the loop of free stops one page early. *)
clr_OffByOne(map, idx, len) ==
    [i \in DOMAIN map |-> map[i] /\ i \notin idx .. idx + len - 2]

clr(map, idx, len) == [i \in DOMAIN map |-> map[i] /\ i \notin idx .. idx + len - 1]

(***************************************************************************)
(* The positions i at which the scan of find_len can have count == _len:   *)
(* the last _len bits up to i all have the value val.  For _len = 0 the    *)
(* counter is 0 only just after a bit that differs from val.               *)
(***************************************************************************)
RunEnds(map, length, len, val) ==
    {e \in 0 .. length - 1 :
        /\ len <= e + 1
        /\ \A j \in (e + 1 - len) .. e : test(map, j) = val
        /\ len = 0 => test(map, e) # val}

(* FIRSTFIT::find_len: the start of the run that ends first, or ~0. *)
find_len(map, length, len, val) ==
    LET ends == RunEnds(map, length, len, val) IN
    IF ends = {} THEN NoIndex
                 ELSE (CHOOSE e \in ends : \A f \in ends : e <= f) + 1 - len
=============================================================================

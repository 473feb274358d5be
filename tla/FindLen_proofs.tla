--------------------------- MODULE FindLen_proofs ---------------------------
(***************************************************************************)
(* The loop of FIRSTFIT::find_len returns the start of the first run, for  *)
(* every bitmap, length and request.                                       *)
(***************************************************************************)
EXTENDS FindLen, TLAPS

(* The invariant of the loop: ScanInv at the head of an iteration, and     *)
(* what is returned once the loop is left.                                 *)
IInv == TypeOK /\ ScanInv /\ ReturnsFirstRun

(* If position e is a run end and none is smaller, find_len is the start   *)
(* of the run that ends at e.                                              *)
LEMMA FirstEnd ==
    ASSUME NEW m, NEW n \in Nat, NEW l \in Nat, NEW v,
           NEW e \in RunEnds(m, n, l, v),
           \A f \in RunEnds(m, n, l, v) : e <= f
    PROVE  find_len(m, n, l, v) = e + 1 - l
<1> DEFINE E == RunEnds(m, n, l, v)
           first == CHOOSE x \in E : \A f \in E : x <= f
<1>1. E \subseteq Int
  BY DEF RunEnds
<1>2. first \in E /\ \A f \in E : first <= f
  <2>1. \E x \in E : \A f \in E : x <= f
    OBVIOUS
  <2> QED BY <2>1
<1>3. first = e
  BY <1>1, <1>2
<1> QED BY <1>3 DEF find_len

(* Without a run end find_len is ~0. *)
LEMMA NoEnd ==
    ASSUME NEW m, NEW n, NEW l, NEW v, RunEnds(m, n, l, v) = {}
    PROVE  find_len(m, n, l, v) = NoIndex
BY DEF find_len

(* The initial state satisfies the invariant. *)
LEMMA InitInv == Init => IInv
<1> SUFFICES ASSUME Init PROVE IInv
  OBVIOUS
<1>1. TypeOK
  <2>1. i \in 0 .. allocator_length /\ count \in 0 .. MaxLength
        /\ idx \in 0 .. MaxLength /\ res \in 0 .. SizeMod - 1
    BY BoundsAssumption, SizeModAssumption DEF Init
  <2> QED BY <2>1, Zenon DEF Init, TypeOK
<1>2. ScanInv
  BY DEF Init, ScanInv, RunEnds
<1>3. ReturnsFirstRun
  BY DEF Init, ReturnsFirstRun
<1> QED BY <1>1, <1>2, <1>3 DEF IInv

(* Every step of the loop preserves the invariant. *)
LEMMA StepInv == IInv /\ [Next]_vars => IInv'
<1> SUFFICES ASSUME IInv, [Next]_vars PROVE IInv'
  OBVIOUS
<1> USE BoundsAssumption, SizeModAssumption DEF IInv
<1> DEFINE E == RunEnds(map, allocator_length, len, val)
<1>1. CASE Scan
  <2>1. ~done /\ i < allocator_length /\ i \in Bits
    BY <1>1 DEF Scan, TypeOK, Bits
  <2>2. count = i - idx /\ \A j \in idx .. i - 1 : map[j] = val
    BY <2>1 DEF ScanInv
  <2>3. CASE map[i] # val
    <3>1. count' = 0 /\ idx' = i + 1 /\ i' = i + 1 /\ len # 0
          /\ UNCHANGED <<args, done, res>>
      BY <1>1, <2>3 DEF Scan, NextCount, NextIdx, test
    <3>2. TypeOK'
      BY <2>1, <3>1 DEF TypeOK, Bits, args
    <3>3. i \notin E
      BY <2>1, <2>3, <3>1 DEF RunEnds, test, TypeOK
    <3>4. \A e \in E : e >= i + 1
      BY <2>1, <3>3 DEF ScanInv, RunEnds, TypeOK
    <3>5. ScanInv'
      BY <2>1, <2>3, <3>1, <3>4 DEF ScanInv, args, TypeOK
    <3> QED BY <2>1, <3>1, <3>2, <3>5 DEF ReturnsFirstRun
  <2>4. CASE map[i] = val
    <3>1. count' = count + 1 /\ idx' = idx /\ i' = i + 1 /\ count + 1 # len
          /\ UNCHANGED <<args, done, res>>
      BY <1>1, <2>4 DEF Scan, NextCount, NextIdx, test
    <3>2. TypeOK'
      BY <2>1, <2>2, <3>1 DEF TypeOK, Bits, args
    <3>3. i \notin E
      <4>1. CASE len = 0
        BY <2>4, <4>1 DEF RunEnds, test
      <4>2. CASE len > i + 1
        BY <4>2 DEF RunEnds, TypeOK
      <4>3. CASE len > 0 /\ len <= i + 1
        <5>1. CASE len < count + 1
          (* The run before i was long enough already. *)
          <6>1. i - 1 \in E
            BY <2>1, <2>2, <4>3, <5>1 DEF RunEnds, test, TypeOK
          <6> QED BY <2>1, <6>1 DEF ScanInv, TypeOK
        <5>2. CASE len > count + 1
          <6>1. idx > 0 /\ map[idx - 1] # val /\ idx - 1 \in (i + 1 - len) .. i
            BY <2>1, <2>2, <4>3, <5>2 DEF ScanInv, TypeOK
          <6> QED BY <6>1 DEF RunEnds, test
        <5> QED BY <3>1, <5>1, <5>2 DEF TypeOK
      <4> QED BY <4>1, <4>2, <4>3 DEF TypeOK
    <3>4. \A e \in E : e >= i + 1
      BY <2>1, <3>3 DEF ScanInv, RunEnds, TypeOK
    <3>5. \A j \in idx .. i : map[j] = val
      BY <2>2, <2>4 DEF TypeOK
    <3>6. ScanInv'
      BY <2>1, <2>2, <3>1, <3>4, <3>5 DEF ScanInv, args, TypeOK
    <3> QED BY <2>1, <3>1, <3>2, <3>6 DEF ReturnsFirstRun
  <2> QED BY <2>3, <2>4
<1>2. CASE ReturnIdx
  <2>1. ~done /\ i < allocator_length /\ i \in Bits
    BY <1>2 DEF ReturnIdx, TypeOK, Bits
  <2>2. /\ count = i - idx
        /\ \A j \in idx .. i - 1 : map[j] = val
        /\ \A e \in E : e >= i
    BY <2>1 DEF ScanInv
  <2>3. CASE map[i] # val
    <3>1. count' = 0 /\ idx' = i + 1 /\ len = 0 /\ done' /\ res' = i + 1
          /\ UNCHANGED <<args, i>>
      BY <1>2, <2>3 DEF ReturnIdx, NextCount, NextIdx, test
    <3>2. i \in E
      BY <2>1, <2>3, <3>1 DEF RunEnds, test, TypeOK
    <3>3. find_len(map, allocator_length, len, val) = i + 1 - len
      BY <2>2, <3>2, FirstEnd DEF TypeOK
    <3>4. TypeOK'
      BY <2>1, <3>1 DEF TypeOK, Bits, args
    <3> QED BY <3>1, <3>3, <3>4 DEF ReturnsFirstRun, ScanInv, args, TypeOK
  <2>4. CASE map[i] = val
    <3>1. count' = count + 1 /\ idx' = idx /\ len = count + 1 /\ done' /\ res' = idx
          /\ UNCHANGED <<args, i>>
      BY <1>2, <2>4 DEF ReturnIdx, NextCount, NextIdx, test
    <3>2. i \in E
      BY <2>1, <2>2, <2>4, <3>1 DEF RunEnds, test, TypeOK
    <3>3. find_len(map, allocator_length, len, val) = i + 1 - len
      BY <2>2, <3>2, FirstEnd DEF TypeOK
    <3>4. TypeOK'
      BY <2>1, <2>2, <3>1 DEF TypeOK, Bits, args
    <3> QED BY <2>2, <3>1, <3>3, <3>4 DEF ReturnsFirstRun, ScanInv, args, TypeOK
  <2> QED BY <2>3, <2>4
<1>3. CASE ReturnNone
  <2>1. ~done /\ i = allocator_length /\ done' /\ res' = NoIndex
        /\ UNCHANGED <<args, i, count, idx>>
    BY <1>3 DEF ReturnNone
  <2>2. E = {}
    BY <2>1 DEF ScanInv, RunEnds, TypeOK
  <2>3. find_len(map, allocator_length, len, val) = NoIndex
    BY <2>2, NoEnd
  <2>4. TypeOK'
    BY <2>1 DEF TypeOK, Bits, args, NoIndex
  <2> QED BY <2>1, <2>3, <2>4 DEF ReturnsFirstRun, ScanInv, args
<1>4. CASE UNCHANGED vars
  <2>1. UNCHANGED <<map, allocator_length, len, val, i, count, idx, done, res>>
    BY <1>4 DEF vars
  <2>2. TypeOK'
    BY <2>1 DEF TypeOK
  <2>3. ScanInv'
    BY <2>1 DEF ScanInv
  <2>4. ReturnsFirstRun'
    BY <2>1 DEF ReturnsFirstRun
  <2> QED BY <2>2, <2>3, <2>4
<1> QED BY <1>1, <1>2, <1>3, <1>4 DEF Next

(* find_len (firstfit.cpp:29-46) keeps its locals in range and, when it    *)
(* returns, returns the start of the first run of _len bits equal to _val, *)
(* or ~0 when there is none.                                               *)
THEOREM FindLenCorrect == Spec => [](TypeOK /\ ReturnsFirstRun)
<1>1. Init => IInv
  BY InitInv
<1>2. IInv /\ [Next]_vars => IInv'
  BY StepInv
<1>3. IInv => TypeOK /\ ReturnsFirstRun
  BY DEF IInv
<1> QED BY <1>1, <1>2, <1>3, PTL DEF Spec
=============================================================================

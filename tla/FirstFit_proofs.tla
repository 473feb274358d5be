-------------------------- MODULE FirstFit_proofs ---------------------------
(***************************************************************************)
(* What FirstFit promises its callers, for every page size, bitmap size,   *)
(* region and request.                                                     *)
(***************************************************************************)
EXTENDS FirstFit, FiniteSetTheorems, WellFoundedInduction, TLAPS

(***************************************************************************)
(* The inductive invariant: the bitmap and the counters say what callers   *)
(* hold.  It needs that the region fits the array, and that nothing is     *)
(* held before the constructor has run.                                    *)
(***************************************************************************)
RegionFits ==
    /\ allocator_length <= MapBits
    /\ ~constructed => allocator_length = 0 /\ held = {}

IInv == TypeOK /\ RegionFits /\ MapTellsHeld /\ CountsExact

-----------------------------------------------------------------------------
(* Arithmetic of pages and addresses. *)

(* A product of a page number grows by a page from one number to the next. *)
LEMMA PageMultiples ==
    ASSUME NEW p \in Nat, p > 0, NEW x \in Int, NEW y \in Int, x < y
    PROVE  p * x + p <= p * y
<1>1. p * (y - x - 1) >= 0
  OBVIOUS
<1>2. p * (y - x - 1) = p * y - p * x - p
  OBVIOUS
<1> QED BY <1>1, <1>2

(* Quotient and remainder. *)
LEMMA DivMod ==
    ASSUME NEW a \in Int, NEW p \in Nat, p > 0
    PROVE  /\ a \div p \in Int /\ a % p \in Int
           /\ a = p * (a \div p) + (a % p)
           /\ 0 <= a % p /\ a % p < p
OBVIOUS

(* The quotient is the only number with a remainder below p. *)
LEMMA DivUnique ==
    ASSUME NEW p \in Nat, p > 0, NEW q \in Int, NEW r \in Int, 0 <= r, r < p
    PROVE  (p * q + r) \div p = q
<1> DEFINE a == p * q + r
<1>1. /\ a \div p \in Int /\ a % p \in Int
      /\ a = p * (a \div p) + (a % p)
      /\ 0 <= a % p /\ a % p < p
  BY DivMod
<1>2. ASSUME a \div p < q PROVE FALSE
  <2>1. p * (a \div p) + p <= p * q
    BY <1>1, <1>2, PageMultiples
  <2> QED BY <2>1, <1>1
<1>3. ASSUME q < a \div p PROVE FALSE
  <2>1. p * q + p <= p * (a \div p)
    BY <1>1, <1>3, PageMultiples
  <2> QED BY <2>1, <1>1
<1> QED BY <1>1, <1>2, <1>3

(* The pages of n pages at the address of page k are k .. k + n - 1. *)
LEMMA PagesOfRun ==
    ASSUME TypeOK, NEW k \in Nat, NEW n \in Nat
    PROVE  /\ AddrOf(k) \in Nat
           /\ IndexOf(AddrOf(k)) = k
           /\ PagesOf(AddrOf(k), n) = k .. k + n - 1
<1> USE PageSizeAssumption
<1>1. AddrOf(k) \in Nat /\ AddrOf(k) - allocator_start_addr = PageSize * k + 0
  BY DEF AddrOf, TypeOK
<1>2. IndexOf(AddrOf(k)) = k
  BY <1>1, DivUnique DEF IndexOf
<1>3. CASE n = 0
  BY <1>1, <1>2, <1>3 DEF PagesOf
<1>4. CASE n > 0
  <2> DEFINE last == AddrOf(k) + n * PageSize - 1
  <2>1. last - allocator_start_addr = PageSize * (k + n - 1) + (PageSize - 1)
    BY DEF AddrOf, TypeOK
  <2>2. (PageSize * (k + n - 1) + (PageSize - 1)) \div PageSize = k + n - 1
    <3> HIDE PageSizeAssumption
    <3>1. PageSize \in Nat /\ PageSize > 0 /\ k + n - 1 \in Int
          /\ PageSize - 1 \in Int /\ 0 <= PageSize - 1 /\ PageSize - 1 < PageSize
      BY PageSizeAssumption
    <3> QED BY <3>1, DivUnique
  <2>3. IndexOf(last) = k + n - 1
    <3> HIDE DEF last
    <3> QED BY <2>1, <2>2, Zenon DEF IndexOf
  <2> QED BY <1>1, <1>2, <1>4, <2>3 DEF PagesOf
<1> QED BY <1>3, <1>4

(* An aligned address of the region is the address of one of its pages. *)
LEMMA AlignedAddr ==
    ASSUME TypeOK, NEW addr \in Nat, Managed(addr), Aligned(addr)
    PROVE  /\ IndexOf(addr) \in 0 .. allocator_length - 1
           /\ addr = AddrOf(IndexOf(addr))
<1> USE PageSizeAssumption
<1> DEFINE off == addr - allocator_start_addr
           idx == IndexOf(addr)
<1>1. /\ off \in Nat /\ off < allocator_length * PageSize
      /\ off % PageSize = 0
  BY DEF Managed, EndAddr, Aligned, TypeOK
<1>2. idx \in Int /\ off = PageSize * idx
  BY <1>1, DivMod DEF IndexOf
<1>3. ASSUME idx < 0 PROVE FALSE
  <2>1. PageSize * idx + PageSize <= PageSize * 0
    BY <1>2, <1>3, PageMultiples
  <2> QED BY <2>1, <1>1, <1>2
<1>4. ASSUME idx > allocator_length - 1 PROVE FALSE
  <2>1. CASE idx = allocator_length
    BY <1>1, <1>2, <2>1 DEF TypeOK
  <2>2. CASE idx > allocator_length
    <3>1. PageSize * allocator_length + PageSize <= PageSize * idx
      BY <1>2, <2>2, PageMultiples DEF TypeOK
    <3> QED BY <3>1, <1>1, <1>2 DEF TypeOK
  <2> QED BY <1>2, <1>4, <2>1, <2>2 DEF TypeOK
<1>5. allocator_length \in Nat /\ allocator_start_addr \in Nat
  BY DEF TypeOK
<1> HIDE DEF idx
<1>6. idx \in 0 .. allocator_length - 1
  BY <1>2, <1>3, <1>4, <1>5
<1>7. addr = AddrOf(idx)
  <2> DEFINE p == PageSize * idx
  <2>1. AddrOf(idx) = allocator_start_addr + p /\ off = p
    BY <1>2 DEF AddrOf
  <2> HIDE DEF p
  <2> QED BY <1>1, <1>5, <2>1
<1> QED BY <1>6, <1>7 DEF idx

-----------------------------------------------------------------------------
(* What find_len finds. *)

(* A set of natural numbers that is not empty has a least element. *)
LEMMA LeastNat ==
    ASSUME NEW T \in SUBSET Nat, T # {}
    PROVE  \E x \in T : \A y \in T : x <= y
<1>1. \E x \in T : \A y \in T : ~ (<<y, x>> \in OpToRel(<, Nat))
  BY WFMin, NatLessThanWellFounded, Zenon
<1>2. PICK x \in T : \A y \in T : ~ (<<y, x>> \in OpToRel(<, Nat))
  BY <1>1
<1>3. \A y \in T : ~ (y < x)
  BY <1>2 DEF OpToRel
<1> QED BY <1>3

(* What alloc(_len) is answered by find_len: a run of clear bits inside    *)
(* the region, or ~0 and there is none.                                    *)
LEMMA FirstRunIsFree ==
    ASSUME allocator_length \in 0 .. MapBits + Overrun, NEW len \in Nat
    PROVE  \/ /\ FirstRun(len) \in Nat
              /\ FirstRun(len) # NoIndex
              /\ FirstRun(len) + len <= allocator_length
              /\ \A i \in FirstRun(len) .. FirstRun(len) + len - 1 : ~map[i]
           \/ /\ FirstRun(len) = NoIndex
              /\ RunEnds(map, allocator_length, len, FALSE) = {}
<1> DEFINE E == RunEnds(map, allocator_length, len, FALSE)
           first == CHOOSE x \in E : \A y \in E : x <= y
<1>1. CASE E = {}
  BY <1>1 DEF FirstRun, find_len
<1>2. CASE E # {}
  <2>0. allocator_length \in Nat /\ allocator_length <= MapBits + Overrun
    BY MapAssumption
  <2>1. E \in SUBSET Nat
    <3>1. 0 .. allocator_length - 1 \subseteq Nat
      BY <2>0
    <3>2. E \subseteq 0 .. allocator_length - 1
      BY Zenon DEF RunEnds
    <3> QED BY <3>1, <3>2
  <2>2. first \in E
    <3>1. \E x \in E : \A y \in E : x <= y
      BY <1>2, <2>1, LeastNat
    <3> QED BY <3>1
  <2>3. FirstRun(len) = first + 1 - len
    BY <1>2 DEF FirstRun, find_len
  <2>4. /\ first \in 0 .. allocator_length - 1
        /\ len <= first + 1
        /\ \A j \in (first + 1 - len) .. first : map[j] = FALSE
    BY <2>2 DEF RunEnds, test
  <2>5. first + 1 - len \in Nat /\ first + 1 - len <= allocator_length
    BY <2>0, <2>4
  <2>6. first + 1 - len # NoIndex
    BY <2>0, <2>5, MapAssumption, SizeModAssumption DEF NoIndex
  <2>7. \A i \in (first + 1 - len) .. first : ~map[i]
    BY <2>4
  <2>8. FirstRun(len) + len - 1 = first /\ FirstRun(len) + len <= allocator_length
    <3> HIDE DEF first
    <3> QED BY <2>0, <2>3, <2>4
  <2> HIDE DEF first
  <2> QED BY <2>3, <2>5, <2>6, <2>7, <2>8
<1> QED BY <1>1, <1>2

-----------------------------------------------------------------------------
(* The operations preserve the invariant. *)

(* A number below the modulus is its own remainder. *)
LEMMA SmallMod ==
    ASSUME NEW m \in Nat, m > 0, NEW x \in Nat, x < m
    PROVE  x % m = x
<1>1. (m * 0 + x) \div m = 0
  BY DivUnique
<1>2. x = m * (x \div m) + (x % m) /\ x % m \in Int
  BY DivMod
<1> QED BY <1>1, <1>2

(* Callers hold finitely many pages, at most all of the region. *)
LEMMA HeldFinite ==
    ASSUME IInv
    PROVE  /\ allocator_length \in Nat /\ allocator_length < SizeMod
           /\ IsFiniteSet(held)
           /\ Cardinality(held) \in Nat
           /\ Cardinality(held) <= allocator_length
<1>1. allocator_length \in Nat /\ allocator_length <= MapBits
      /\ allocator_length < SizeMod
  BY MapAssumption, SizeModAssumption DEF IInv, TypeOK, RegionFits
<1>2. IsFiniteSet(0 .. allocator_length - 1)
      /\ Cardinality(0 .. allocator_length - 1) = allocator_length
  BY <1>1, FS_Interval
<1>3. held \in SUBSET (0 .. allocator_length - 1)
  BY DEF IInv, MapTellsHeld
<1>4. IsFiniteSet(held) /\ Cardinality(held) <= allocator_length
  BY <1>2, <1>3, FS_Subset
<1> QED BY <1>1, <1>4, FS_CardinalityType

(* A run has as many pages as were asked for. *)
LEMMA RunCardinality ==
    ASSUME NEW k \in Nat, NEW n \in Nat
    PROVE  IsFiniteSet(k .. k + n - 1) /\ Cardinality(k .. k + n - 1) = n
<1>1. k \in Int /\ k + n - 1 \in Int
  OBVIOUS
<1>2. /\ IsFiniteSet(k .. k + n - 1)
      /\ Cardinality(k .. k + n - 1) =
            IF k > k + n - 1 THEN 0 ELSE (k + n - 1) - k + 1
  BY <1>1, FS_Interval, Zenon
<1> QED BY <1>2

(* Taking a run of clear bits of the region. *)
LEMMA TakeKeeps ==
    ASSUME IInv, constructed, NEW op \in Ops, NEW idx \in Nat, NEW len \in Nat,
           idx + len <= allocator_length,
           \A i \in idx .. idx + len - 1 : ~map[i],
           Take(op, idx, len, AddrOf(idx))
    PROVE  /\ IInv'
           /\ answer' = Answer(op, len, AddrOf(idx), idx .. idx + len - 1)
           /\ held' = held \cup (idx .. idx + len - 1)
           /\ (idx .. idx + len - 1) \cap held = {}
<1> DEFINE run == idx .. idx + len - 1
<1>0. TypeOK /\ RegionFits /\ MapTellsHeld /\ CountsExact
  BY DEF IInv
<1>1. AddrOf(idx) \in Nat /\ PagesOf(AddrOf(idx), len) = run
  BY <1>0, PagesOfRun
<1>2. /\ map' = set(map, idx, len)
      /\ allocator_free_count' = Sub(allocator_free_count, len)
      /\ allocator_used_count' = Add(allocator_used_count, len)
      /\ held' = held \cup run
      /\ answer' = Answer(op, len, AddrOf(idx), run)
      /\ UNCHANGED region
  BY <1>1 DEF Take
<1>3. allocator_length \in Nat /\ allocator_length <= MapBits /\ MapBits \in Nat
  BY <1>0, HeldFinite, MapAssumption DEF RegionFits
<1>4. run \subseteq 0 .. allocator_length - 1 /\ run \subseteq Nat
      /\ run \subseteq 0 .. MapBits - 1
  BY <1>3
<1>5. run \cap held = {}
  BY <1>0, <1>4 DEF MapTellsHeld
<1>6. IsFiniteSet(run) /\ Cardinality(run) = len
  BY RunCardinality
<1>7. Cardinality(held') = Cardinality(held) + len
  <2>1. Cardinality(held \cup run) = Cardinality(held) + Cardinality(run)
                                       - Cardinality(held \cap run)
    BY <1>6, HeldFinite, FS_Union
  <2>2. Cardinality(held \cap run) = 0
    BY <1>5, FS_EmptySet
  <2> QED BY <1>2, <1>6, <2>1, <2>2, HeldFinite
<1>8. MapTellsHeld'
  <2>1. held' \subseteq 0 .. allocator_length' - 1
    BY <1>0, <1>2, <1>4 DEF MapTellsHeld, region
  <2>2. ASSUME NEW i \in 0 .. MapBits - 1 PROVE map'[i] <=> i \in held'
    <3>1. i \in DOMAIN map
      BY <1>0, <2>2, MapAssumption DEF TypeOK, Bits
    <3>2. map'[i] <=> map[i] \/ i \in run
      BY <1>2, <3>1 DEF set
    <3>3. map[i] <=> i \in held
      BY <1>0, <2>2 DEF MapTellsHeld
    <3> QED BY <1>2, <3>2, <3>3
  <2> QED BY <2>1, <2>2 DEF MapTellsHeld
<1>9. Cardinality(held) + len <= allocator_length
  <2>1. held' \in SUBSET (0 .. allocator_length - 1)
    BY <1>8, <1>2 DEF MapTellsHeld, region
  <2>2. IsFiniteSet(0 .. allocator_length - 1)
        /\ Cardinality(0 .. allocator_length - 1) = allocator_length
    BY <1>3, FS_Interval
  <2> QED BY <1>7, <2>1, <2>2, FS_Subset
<1>10. CountsExact'
  <2> DEFINE c == Cardinality(held)
  <2>1. c \in Nat /\ allocator_length < SizeMod /\ c + len <= allocator_length
        /\ SizeMod \in Nat /\ SizeMod > 0
    BY <1>9, HeldFinite, SizeModAssumption
  <2>2. c + len \in Nat /\ c + len < SizeMod
    BY <1>3, <2>1
  <2>3. allocator_length - c - len \in Nat /\ allocator_length - c - len < SizeMod
    BY <1>3, <2>1
  <2>4. allocator_used_count' = c + len
    BY <1>0, <1>2, <2>1, <2>2, SmallMod DEF CountsExact, Add
  <2>5. allocator_free_count' = allocator_length - c - len
    BY <1>0, <1>2, <2>1, <2>3, SmallMod DEF CountsExact, Sub
  <2> QED BY <1>2, <1>3, <1>7, <2>1, <2>4, <2>5 DEF CountsExact, region
<1>11. TypeOK'
  <2>1. map' \in [Bits -> BOOLEAN]
    BY <1>0, <1>2, Zenon DEF TypeOK, set
  <2>2. /\ allocator_free_count' \in 0 .. SizeMod - 1
        /\ allocator_used_count' \in 0 .. SizeMod - 1
    BY <1>0, <1>2, SizeModAssumption DEF TypeOK, Sub, Add
  <2>3. held' \subseteq Nat
    BY <1>0, <1>2, <1>4 DEF TypeOK
  <2>4. answer' \in [op : Ops, asked : Nat, addr : Nat, pages : SUBSET Nat]
    BY <1>1, <1>2, <1>4 DEF Answer
  <2>5. /\ constructed' \in BOOLEAN
        /\ allocator_start_addr' \in Nat
        /\ allocator_length' \in 0 .. MapBits + Overrun
    BY <1>0, <1>2 DEF TypeOK, region
  <2> QED BY <2>1, <2>2, <2>3, <2>4, <2>5 DEF TypeOK
<1>12. RegionFits'
  BY <1>0, <1>2 DEF RegionFits, region
<1> QED BY <1>2, <1>5, <1>8, <1>10, <1>11, <1>12 DEF IInv

(* Refusing changes nothing but the answer. *)
LEMMA RefuseKeeps ==
    ASSUME IInv, NEW op \in Ops, NEW len \in Nat, Refuse(op, len)
    PROVE  IInv' /\ answer' = Answer(op, len, 0, {})
<1>1. /\ UNCHANGED <<constructed, allocator_start_addr, allocator_length, map,
                     allocator_free_count, allocator_used_count, held>>
      /\ answer' = Answer(op, len, 0, {})
  BY DEF Refuse, region, counts
<1>2. answer' \in [op : Ops, asked : Nat, addr : Nat, pages : SUBSET Nat]
  BY <1>1 DEF Answer
<1>3. TypeOK'
  BY <1>1, <1>2, Zenon DEF IInv, TypeOK
<1>4. RegionFits' /\ MapTellsHeld' /\ CountsExact'
  BY <1>1, Zenon DEF IInv, RegionFits, MapTellsHeld, CountsExact
<1> QED BY <1>1, <1>3, <1>4 DEF IInv

(* The constructor. *)
LEMMA ConstructKeeps ==
    ASSUME IInv, Construct
    PROVE  /\ IInv'
           /\ answer' = NoAnswer /\ held' = {}
           /\ allocator_length = 0 /\ held = {}
           /\ allocator_length' \in 0 .. MapBits
<1>1. PICK r \in Regions : r[2] <= MapBits /\ FIRSTFIT(r[1], r[2])
  BY DEF Construct
<1>2. r[1] \in Nat /\ r[2] \in Nat /\ r[2] <= MapBits /\ MapBits \in Nat
      /\ Overrun \in Nat /\ r[2] < SizeMod
  BY <1>1, RegionsAssumption, MapAssumption, SizeModAssumption
<1>3. /\ ~constructed /\ constructed' = TRUE
      /\ allocator_start_addr' = r[1] /\ allocator_length' = r[2]
      /\ allocator_free_count' = r[2] /\ allocator_used_count' = 0
      /\ map' = [i \in Bits |-> i \in Foreign /\ map[i]]
      /\ held' = {} /\ answer' = NoAnswer
  BY <1>1 DEF FIRSTFIT
<1>4. TypeOK'
  <2>1. map' \in [Bits -> BOOLEAN]
    BY <1>3, Zenon
  <2>2. answer' \in [op : Ops, asked : Nat, addr : Nat, pages : SUBSET Nat]
    BY <1>3 DEF NoAnswer, Answer, Ops
  <2>3. /\ constructed' \in BOOLEAN
        /\ allocator_start_addr' \in Nat
        /\ allocator_length' \in 0 .. MapBits + Overrun
        /\ allocator_free_count' \in 0 .. SizeMod - 1
        /\ allocator_used_count' \in 0 .. SizeMod - 1
        /\ held' \subseteq Nat
    BY <1>2, <1>3, SizeModAssumption
  <2> QED BY <2>1, <2>2, <2>3 DEF TypeOK
<1>5. MapTellsHeld'
  <2>1. ASSUME NEW i \in 0 .. MapBits - 1 PROVE ~map'[i]
    <3>1. i \in Bits /\ i \notin Foreign
      BY <1>2 DEF Bits, Foreign
    <3> QED BY <1>3, <3>1
  <2> QED BY <1>3, <2>1 DEF MapTellsHeld
<1>6. CountsExact'
  BY <1>2, <1>3, FS_EmptySet DEF CountsExact
<1>7. RegionFits'
  BY <1>2, <1>3 DEF RegionFits
<1>8. allocator_length = 0 /\ held = {}
  BY <1>3 DEF IInv, RegionFits
<1> QED BY <1>2, <1>3, <1>4, <1>5, <1>6, <1>7, <1>8 DEF IInv

(* Giving back held pages of the region. *)
LEMMA FreeKeeps ==
    ASSUME IInv, NEW addr \in Nat, NEW len \in Nat,
           InsideRegion(addr, len), OnlyHeld(addr, len), free(addr, len)
    PROVE  /\ IInv'
           /\ answer' = Answer("free", 0, 0, {})
           /\ \E pages \in SUBSET held : held' = held \ pages
           /\ UNCHANGED allocator_length
<1>0. TypeOK /\ RegionFits /\ MapTellsHeld /\ CountsExact /\ constructed
      /\ answer' = Answer("free", 0, 0, {})
  BY DEF IInv, free
<1>1. answer' \in [op : Ops, asked : Nat, addr : Nat, pages : SUBSET Nat]
  BY <1>0 DEF Answer, Ops
<1>2. CASE ~Managed(addr)
  <2>1. UNCHANGED <<constructed, allocator_start_addr, allocator_length, map,
                    allocator_free_count, allocator_used_count, held>>
    BY <1>2 DEF free, region, counts
  <2>2. TypeOK'
    BY <1>0, <1>1, <2>1, Zenon DEF TypeOK
  <2>3. RegionFits' /\ MapTellsHeld' /\ CountsExact'
    BY <1>0, <2>1, Zenon DEF RegionFits, MapTellsHeld, CountsExact
  <2>4. {} \in SUBSET held /\ held' = held \ {}
    BY <2>1
  <2> QED BY <1>0, <2>1, <2>2, <2>3, <2>4 DEF IInv
<1>3. CASE Managed(addr)
  <2> DEFINE idx == IndexOf(addr)
             run == idx .. idx + len - 1
  <2>1. idx \in Nat /\ addr = AddrOf(idx) /\ idx + len <= allocator_length
    BY <1>0, <1>3, AlignedAddr DEF InsideRegion
  <2>2. PagesOf(addr, len) = run
    BY <1>0, <2>1, PagesOfRun
  <2>3. /\ map' = clr(map, idx, len)
        /\ allocator_free_count' = Add(allocator_free_count, len)
        /\ allocator_used_count' = Sub(allocator_used_count, len)
        /\ held' = held \ run
        /\ UNCHANGED region
    BY <1>3, <2>2 DEF free
  <2>4. run \in SUBSET held
    BY <1>3, <2>2 DEF OnlyHeld
  <2>5. IsFiniteSet(run) /\ Cardinality(run) = len
    BY <2>1, RunCardinality
  <2>6. Cardinality(held') = Cardinality(held) - len
    <3>1. Cardinality(held \ run) = Cardinality(held) - Cardinality(held \cap run)
      BY HeldFinite, FS_Difference
    <3>2. held \cap run = run
      BY <2>4
    <3> QED BY <2>3, <2>5, <3>1, <3>2
  <2>7. len <= Cardinality(held)
    <3>1. Cardinality(run) <= Cardinality(held)
      BY <2>4, HeldFinite, FS_Subset
    <3> QED BY <2>5, <3>1
  <2>8. MapTellsHeld'
    <3>1. held' \subseteq 0 .. allocator_length' - 1
      BY <1>0, <2>3 DEF MapTellsHeld, region
    <3>2. ASSUME NEW i \in 0 .. MapBits - 1 PROVE map'[i] <=> i \in held'
      <4>1. i \in DOMAIN map
        BY <1>0, <3>2, MapAssumption DEF TypeOK, Bits
      <4>2. map'[i] <=> map[i] /\ i \notin run
        BY <2>3, <4>1 DEF clr
      <4>3. map[i] <=> i \in held
        BY <1>0, <3>2 DEF MapTellsHeld
      <4> QED BY <2>3, <4>2, <4>3
    <3> QED BY <3>1, <3>2 DEF MapTellsHeld
  <2>9. CountsExact'
    <3> DEFINE c == Cardinality(held)
    <3>1. c \in Nat /\ allocator_length \in Nat /\ allocator_length < SizeMod
          /\ c <= allocator_length /\ len <= c /\ SizeMod \in Nat /\ SizeMod > 0
      BY <2>7, HeldFinite, SizeModAssumption
    <3>2. c - len \in Nat /\ c - len < SizeMod
      BY <3>1
    <3>3. allocator_length - c + len \in Nat /\ allocator_length - c + len < SizeMod
      BY <3>1
    <3>4. allocator_used_count' = c - len
      BY <1>0, <2>3, <3>1, <3>2, SmallMod DEF CountsExact, Sub
    <3>5. allocator_free_count' = allocator_length - c + len
      BY <1>0, <2>3, <3>1, <3>3, SmallMod DEF CountsExact, Add
    <3> QED BY <2>3, <2>6, <3>1, <3>4, <3>5 DEF CountsExact, region
  <2>10. TypeOK'
    <3>1. map' \in [Bits -> BOOLEAN]
      BY <1>0, <2>3, Zenon DEF TypeOK, clr
    <3>2. /\ allocator_free_count' \in 0 .. SizeMod - 1
          /\ allocator_used_count' \in 0 .. SizeMod - 1
      BY <1>0, <2>3, SizeModAssumption DEF TypeOK, Sub, Add
    <3>3. held' \subseteq Nat
      BY <1>0, <2>3 DEF TypeOK
    <3>4. /\ constructed' \in BOOLEAN
          /\ allocator_start_addr' \in Nat
          /\ allocator_length' \in 0 .. MapBits + Overrun
      BY <1>0, <2>3 DEF TypeOK, region
    <3> QED BY <1>1, <3>1, <3>2, <3>3, <3>4 DEF TypeOK
  <2>11. RegionFits'
    BY <1>0, <2>3 DEF RegionFits, region
  <2> QED BY <1>0, <2>3, <2>4, <2>8, <2>9, <2>10, <2>11 DEF IInv, region
<1> QED BY <1>2, <1>3

(* A call that hands out the run of len pages at page idx. *)
HandsOut(op, idx, len) ==
    /\ idx + len <= allocator_length
    /\ answer' = Answer(op, len, AddrOf(idx), idx .. idx + len - 1)
    /\ held' = held \cup (idx .. idx + len - 1)
    /\ (idx .. idx + len - 1) \cap held = {}
    /\ map' = set(map, idx, len)
    /\ UNCHANGED <<constructed, allocator_start_addr, allocator_length>>

(* A call that hands out nothing. *)
HandsOutNothing(op, len) ==
    /\ answer' = Answer(op, len, 0, {})
    /\ UNCHANGED <<constructed, allocator_start_addr, allocator_length, held, map>>

(* alloc(_len) hands out a run, or nothing when find_len found none. *)
LEMMA AllocOutcome ==
    ASSUME IInv, NEW len \in Nat, alloc(len)
    PROVE  /\ IInv'
           /\ \/ \E idx \in Nat : HandsOut("alloc", idx, len)
              \/ /\ HandsOutNothing("alloc", len)
                 /\ RunEnds(map, allocator_length, len, FALSE) = {}
<1>0. TypeOK /\ constructed /\ "alloc" \in Ops
  BY DEF IInv, alloc, Ops
<1>1. CASE FirstRun(len) = NoIndex
  <2>1. Refuse("alloc", len)
    BY <1>1 DEF alloc
  <2>2. IInv' /\ answer' = Answer("alloc", len, 0, {})
    BY <1>0, <2>1, RefuseKeeps
  <2>3. RunEnds(map, allocator_length, len, FALSE) = {}
    BY <1>0, <1>1, FirstRunIsFree DEF TypeOK
  <2> QED BY <2>1, <2>2, <2>3 DEF HandsOutNothing, Refuse, region
<1>2. CASE FirstRun(len) # NoIndex
  <2> DEFINE idx == FirstRun(len)
  <2>1. idx \in Nat /\ idx + len <= allocator_length
        /\ \A i \in idx .. idx + len - 1 : ~map[i]
    BY <1>0, <1>2, FirstRunIsFree DEF TypeOK
  <2>2. Take("alloc", idx, len, AddrOf(idx))
    BY <1>2 DEF alloc
  <2> HIDE DEF idx
  <2>3. /\ IInv'
        /\ answer' = Answer("alloc", len, AddrOf(idx), idx .. idx + len - 1)
        /\ held' = held \cup (idx .. idx + len - 1)
        /\ (idx .. idx + len - 1) \cap held = {}
    BY <1>0, <2>1, <2>2, TakeKeeps
  <2>4. HandsOut("alloc", idx, len)
    BY <2>1, <2>2, <2>3 DEF HandsOut, Take, region
  <2> QED BY <2>1, <2>3, <2>4
<1> QED BY <1>1, <1>2

(* alloc(_addr, _len) of a run inside the region hands out that run, or    *)
(* nothing when the address is outside or a page of the run is held.       *)
LEMMA AllocAtOutcome ==
    ASSUME IInv, NEW addr \in Nat, NEW len \in Nat,
           InsideRegion(addr, len), alloc_at(addr, len)
    PROVE  /\ IInv'
           /\ \/ /\ Managed(addr) /\ IndexOf(addr) \in 0 .. allocator_length - 1
                 /\ HandsOut("alloc_at", IndexOf(addr), len)
              \/ /\ HandsOutNothing("alloc_at", len)
                 /\ ~Managed(addr)
              \/ /\ HandsOutNothing("alloc_at", len)
                 /\ IndexOf(addr) \in 0 .. allocator_length - 1
                 /\ (IndexOf(addr) .. IndexOf(addr) + len - 1) \cap held # {}
<1> DEFINE idx == IndexOf(addr)
<1>0. TypeOK /\ constructed /\ "alloc_at" \in Ops
  BY DEF IInv, alloc_at, Ops
<1>1. CASE Claimable(addr, len)
  <2>1. /\ Managed(addr) /\ idx \in 0 .. allocator_length - 1
        /\ addr = AddrOf(idx) /\ idx + len <= allocator_length
    BY <1>0, <1>1, AlignedAddr DEF Claimable, InsideRegion
  <2>2. \A i \in idx .. idx + len - 1 : ~map[i]
    BY <1>1 DEF Claimable, test
  <2>3. Take("alloc_at", idx, len, AddrOf(idx))
    BY <1>1, <2>1 DEF alloc_at
  <2> HIDE DEF idx
  <2>4. idx \in Nat
    BY <2>1
  <2>5. /\ IInv'
        /\ answer' = Answer("alloc_at", len, AddrOf(idx), idx .. idx + len - 1)
        /\ held' = held \cup (idx .. idx + len - 1)
        /\ (idx .. idx + len - 1) \cap held = {}
    BY <1>0, <2>1, <2>2, <2>3, <2>4, TakeKeeps
  <2>6. HandsOut("alloc_at", idx, len)
    BY <2>1, <2>3, <2>5 DEF HandsOut, Take, region
  <2> QED BY <2>1, <2>5, <2>6 DEF idx
<1>2. CASE ~Claimable(addr, len)
  <2>1. Refuse("alloc_at", len)
    BY <1>2 DEF alloc_at
  <2>2. IInv' /\ answer' = Answer("alloc_at", len, 0, {})
    BY <1>0, <2>1, RefuseKeeps
  <2>3. HandsOutNothing("alloc_at", len)
    BY <2>1, <2>2 DEF HandsOutNothing, Refuse, region
  <2>4. CASE Managed(addr)
    <3>1. idx \in 0 .. allocator_length - 1 /\ idx + len <= allocator_length
      BY <1>0, <2>4, AlignedAddr DEF InsideRegion
    <3>2. PICK i \in idx .. idx + len - 1 : map[i]
      BY <1>2, <2>4 DEF Claimable, test
    <3>3. i \in 0 .. MapBits - 1
      <4>1. allocator_length <= MapBits /\ allocator_length \in Nat /\ MapBits \in Nat
        BY HeldFinite, MapAssumption DEF IInv, RegionFits
      <4> HIDE DEF idx
      <4> QED BY <3>1, <3>2, <4>1
    <3>4. i \in held
      BY <3>2, <3>3 DEF IInv, MapTellsHeld
    <3> QED BY <2>2, <2>3, <3>1, <3>2, <3>4
  <2> QED BY <2>2, <2>3, <2>4
<1> QED BY <1>1, <1>2

-----------------------------------------------------------------------------
(* The theorems. *)

(* The zeroed object satisfies the invariant. *)
LEMMA InitInv == Init => IInv
<1> SUFFICES ASSUME Init PROVE IInv
  OBVIOUS
<1>1. TypeOK
  <2>1. map \in [Bits -> BOOLEAN] /\ constructed \in BOOLEAN
    BY Zenon DEF Init
  <2>2. answer \in [op : Ops, asked : Nat, addr : Nat, pages : SUBSET Nat]
    BY DEF Init, NoAnswer, Answer, Ops
  <2>3. /\ allocator_start_addr \in Nat
        /\ allocator_length \in 0 .. MapBits + Overrun
        /\ allocator_free_count \in 0 .. SizeMod - 1
        /\ allocator_used_count \in 0 .. SizeMod - 1
        /\ held \subseteq Nat
    BY MapAssumption, SizeModAssumption DEF Init
  <2> QED BY <2>1, <2>2, <2>3 DEF TypeOK
<1>2. MapTellsHeld
  <2>1. ASSUME NEW i \in 0 .. MapBits - 1 PROVE ~map[i]
    <3>1. i \in Bits \ Foreign
      BY MapAssumption DEF Bits, Foreign
    <3> QED BY <3>1, Zenon DEF Init
  <2>2. held = {}
    BY DEF Init
  <2> QED BY <2>1, <2>2 DEF MapTellsHeld
<1>3. CountsExact
  BY FS_EmptySet DEF Init, CountsExact
<1>4. RegionFits
  BY MapAssumption DEF Init, RegionFits
<1> QED BY <1>1, <1>2, <1>3, <1>4 DEF IInv

(* Every call of a caller that keeps to Spec preserves the invariant. *)
LEMMA StepInv == IInv /\ [Next]_vars => IInv'
<1> SUFFICES ASSUME IInv, [Next]_vars PROVE IInv'
  OBVIOUS
<1>1. CASE Construct
  BY <1>1, ConstructKeeps
<1>2. CASE AllocAny
  BY <1>2, AllocOutcome, ArgsAssumption DEF AllocAny
<1>3. CASE AllocAt
  BY <1>3, AllocAtOutcome, ArgsAssumption DEF AllocAt
<1>4. CASE FreeHeld
  BY <1>4, FreeKeeps, ArgsAssumption DEF FreeHeld
<1>5. CASE UNCHANGED vars
  <2>1. UNCHANGED <<constructed, allocator_start_addr, allocator_length, map,
                    allocator_free_count, allocator_used_count, held, answer>>
    BY <1>5 DEF vars, region, counts
  <2> QED BY <2>1, Zenon DEF IInv, TypeOK, RegionFits, MapTellsHeld, CountsExact
<1> QED BY <1>1, <1>2, <1>3, <1>4, <1>5 DEF Next

(* For callers that ask for whole pages of the region and give back only   *)
(* pages they hold, the fields keep their types, the bitmap marks exactly  *)
(* the pages that are held, and both counters are exact.                   *)
THEOREM BitmapAndCountsExact == Spec => [](TypeOK /\ MapTellsHeld /\ CountsExact)
<1>1. Init => IInv
  BY InitInv
<1>2. IInv /\ [Next]_vars => IInv'
  BY StepInv
<1>3. IInv => TypeOK /\ MapTellsHeld /\ CountsExact
  BY DEF IInv
<1> QED BY <1>1, <1>2, <1>3, PTL DEF Spec

(* get_used_count and get_free_count answer the exact numbers of pages in  *)
(* use and free, for these callers and any sequence of calls               *)
(* (firstfit.cpp:70, 100, 119, firstfit.h:107, 113).                       *)
THEOREM CountsAreExact == Spec => []CountsExact
BY BitmapAndCountsExact, PTL

(* No call hands out a page that another caller holds (firstfit.cpp:61-108).*)
THEOREM NoDoubleHandOut == Spec => HandOutIsFresh
<1> DEFINE Fresh == answer'.pages \cap held = {}
<1>1. Init => IInv
  BY InitInv
<1>2. IInv /\ [Next]_vars => IInv'
  BY StepInv
<1>3. IInv /\ [Next]_vars => [Fresh]_vars
  <2> SUFFICES ASSUME IInv, Next PROVE Fresh
    OBVIOUS
  <2>a. ASSUME NEW op, NEW idx, NEW len, HandsOut(op, idx, len) PROVE Fresh
    <3>1. answer'.pages = idx .. idx + len - 1
      BY <2>a DEF HandsOut, Answer
    <3> QED BY <2>a, <3>1 DEF HandsOut
  <2>b. ASSUME NEW op, NEW len, HandsOutNothing(op, len) PROVE Fresh
    <3>1. answer'.pages = {}
      BY <2>b DEF HandsOutNothing, Answer
    <3> QED BY <3>1
  <2>1. CASE Construct
    <3>1. answer'.pages = {}
      BY <2>1, ConstructKeeps DEF NoAnswer, Answer
    <3> QED BY <3>1
  <2>2. CASE AllocAny
    <3>1. PICK len \in Lens : alloc(len)
      BY <2>2 DEF AllocAny
    <3>2. \/ \E idx \in Nat : HandsOut("alloc", idx, len)
          \/ HandsOutNothing("alloc", len)
      BY <3>1, AllocOutcome, ArgsAssumption
    <3> QED BY <2>a, <2>b, <3>2
  <2>3. CASE AllocAt
    <3>1. PICK addr \in Addrs, len \in Lens :
             InsideRegion(addr, len) /\ alloc_at(addr, len)
      BY <2>3 DEF AllocAt
    <3>2. \/ HandsOut("alloc_at", IndexOf(addr), len)
          \/ HandsOutNothing("alloc_at", len)
      BY <3>1, AllocAtOutcome, ArgsAssumption
    <3> QED BY <2>a, <2>b, <3>2
  <2>4. CASE FreeHeld
    <3>1. answer' = Answer("free", 0, 0, {})
      BY <2>4 DEF FreeHeld, free
    <3> QED BY <3>1 DEF Answer
  <2> QED BY <2>1, <2>2, <2>3, <2>4 DEF Next
<1> QED BY <1>1, <1>2, <1>3, PTL DEF Spec, HandOutIsFresh

(* The memory behind the bitmap is never written (firstfit.cpp:15-23). *)
THEOREM NoStrayWrite == Spec => ForeignUntouched
<1> DEFINE Same == \A i \in Foreign : map'[i] = map[i]
<1>1. Init => IInv
  BY InitInv
<1>2. IInv /\ [Next]_vars => IInv'
  BY StepInv
<1>3. IInv /\ [Next]_vars => [Same]_vars
  <2> SUFFICES ASSUME IInv, Next, NEW i \in Foreign PROVE map'[i] = map[i]
    OBVIOUS
  <2>1. /\ i \in Bits /\ i \in DOMAIN map
        /\ map[i] \in BOOLEAN /\ map'[i] \in BOOLEAN
        /\ \A k \in Nat, n \in Nat : k + n <= allocator_length => i \notin k .. k + n - 1
    <3>1. i \in Bits /\ i >= MapBits /\ i \in Int
      BY MapAssumption DEF Bits, Foreign
    <3>2. i \in DOMAIN map /\ map[i] \in BOOLEAN
      BY <3>1 DEF IInv, TypeOK
    <3>4. IInv'
      BY StepInv
    <3>5. map'[i] \in BOOLEAN
      BY <3>1, <3>4 DEF IInv, TypeOK, Bits
    <3>3. allocator_length \in Nat /\ allocator_length <= MapBits /\ MapBits \in Nat
      BY HeldFinite, MapAssumption DEF IInv, RegionFits
    <3> QED BY <3>1, <3>2, <3>3, <3>5
  <2>2. CASE Construct
    <3>1. map' = [j \in Bits |-> j \in Foreign /\ map[j]]
      BY <2>2 DEF Construct, FIRSTFIT
    <3>2. map'[i] <=> map[i]
      BY <2>1, <3>1
    <3> QED BY <2>1, <3>2
  <2>3. ASSUME NEW idx \in Nat, NEW len \in Nat, NEW op, HandsOut(op, idx, len)
        PROVE  map'[i] = map[i]
    <3>1. i \notin idx .. idx + len - 1
      BY <2>1, <2>3 DEF HandsOut
    <3>2. map'[i] <=> map[i] \/ i \in idx .. idx + len - 1
      BY <2>1, <2>3, Zenon DEF HandsOut, set
    <3> QED BY <2>1, <3>1, <3>2
  <2>4. CASE AllocAny
    <3>1. PICK len \in Lens : alloc(len)
      BY <2>4 DEF AllocAny
    <3>2. \/ \E idx \in Nat : HandsOut("alloc", idx, len)
          \/ HandsOutNothing("alloc", len)
      BY <3>1, AllocOutcome, ArgsAssumption
    <3> QED BY <2>3, <3>2, ArgsAssumption DEF HandsOutNothing
  <2>5. CASE AllocAt
    <3>1. PICK addr \in Addrs, len \in Lens :
             InsideRegion(addr, len) /\ alloc_at(addr, len)
      BY <2>5 DEF AllocAt
    <3>2. \/ IndexOf(addr) \in Nat /\ HandsOut("alloc_at", IndexOf(addr), len)
          \/ HandsOutNothing("alloc_at", len)
      BY <3>1, AllocAtOutcome, ArgsAssumption
    <3> QED BY <2>3, <3>2, ArgsAssumption DEF HandsOutNothing
  <2>6. CASE FreeHeld
    <3>1. PICK addr \in Addrs, len \in Lens :
             InsideRegion(addr, len) /\ OnlyHeld(addr, len) /\ free(addr, len)
      BY <2>6 DEF FreeHeld
    <3>2. CASE ~Managed(addr)
      BY <3>1, <3>2 DEF free
    <3>3. CASE Managed(addr)
      <4>1. IndexOf(addr) \in Nat /\ IndexOf(addr) + len <= allocator_length
        BY <3>1, <3>3, AlignedAddr, ArgsAssumption DEF IInv, InsideRegion
      <4>2. i \notin IndexOf(addr) .. IndexOf(addr) + len - 1
        BY <2>1, <4>1, ArgsAssumption
      <4>3. map' = clr(map, IndexOf(addr), len)
        BY <3>1, <3>3 DEF free
      <4>4. map'[i] <=> map[i] /\ i \notin IndexOf(addr) .. IndexOf(addr) + len - 1
        BY <2>1, <4>3, Zenon DEF clr
      <4> QED BY <2>1, <4>2, <4>4
    <3> QED BY <3>2, <3>3
  <2> QED BY <2>2, <2>4, <2>5, <2>6 DEF Next
<1> QED BY <1>1, <1>2, <1>3, PTL DEF Spec, ForeignUntouched

(* FIRSTFIT implements the abstract allocator: every call is a step of     *)
(* PageAllocator on the pages that are held, and a refusal of alloc(_len)  *)
(* means that no run of _len free pages exists.                            *)
THEOREM Refinement == Spec => Refines
<1>1. Init => Abstract!Init
  BY DEF Init, Abstract!Init, NoAnswer, Answer
<1>2. IInv /\ [Next]_vars => [Abstract!Next]_(Abstract!vars)
  <2> SUFFICES ASSUME IInv, Next PROVE Abstract!Next
    BY DEF vars, Abstract!vars, region
  <2>0. allocator_length \in Nat /\ allocator_length <= MapBits /\ MapBits \in Nat
        /\ held \subseteq 0 .. allocator_length - 1
    BY HeldFinite, MapAssumption DEF IInv, RegionFits, MapTellsHeld
  <2>1. CASE Construct
    <3>1. Abstract!Create
      BY <2>1, ConstructKeeps DEF Abstract!Create, NoAnswer, Answer
    <3> QED BY <3>1 DEF Abstract!Next
  <2>2. CASE AllocAny
    <3>1. PICK len \in Lens : alloc(len)
      BY <2>2 DEF AllocAny
    <3>2. len \in Nat
      BY ArgsAssumption
    <3>3. ASSUME NEW idx \in Nat, HandsOut("alloc", idx, len)
          PROVE  Abstract!Alloc
      <4> DEFINE run == idx .. idx + len - 1
      <4>1. /\ answer'.op = "alloc" /\ answer'.asked = len /\ answer'.pages = run
            /\ held' = held \cup run /\ UNCHANGED allocator_length
        BY <3>3 DEF HandsOut, Answer
      <4>2. CASE len = 0
        BY <3>2, <4>1, <4>2 DEF Abstract!Alloc
      <4>3. CASE len > 0
        <5>1. idx \in Abstract!Pages /\ run \subseteq Abstract!Free
          BY <2>0, <3>2, <3>3, <4>3 DEF HandsOut, Abstract!Pages, Abstract!Free
        <5>2. run \in Abstract!FreeRuns(len)
          BY <5>1 DEF Abstract!FreeRuns
        <5> QED BY <3>2, <4>1, <4>3, <5>2 DEF Abstract!Alloc
      <4> QED BY <3>2, <4>2, <4>3
    <3>4. ASSUME HandsOutNothing("alloc", len),
                 RunEnds(map, allocator_length, len, FALSE) = {}
          PROVE  Abstract!Alloc
      <4>1. /\ answer'.op = "alloc" /\ answer'.asked = len /\ answer'.pages = {}
            /\ held' = held /\ UNCHANGED allocator_length
        BY <3>4 DEF HandsOutNothing, Answer
      <4>2. ASSUME len > 0, NEW k \in Abstract!Pages,
                   k .. k + len - 1 \subseteq Abstract!Free
            PROVE  FALSE
        <5>1. k \in Nat /\ k + len - 1 \in k .. k + len - 1
          BY <2>0, <3>2, <4>2 DEF Abstract!Pages
        <5>2. k + len - 1 \in 0 .. allocator_length - 1
          BY <4>2, <5>1 DEF Abstract!Free, Abstract!Pages
        <5>3. ASSUME NEW j \in k .. k + len - 1 PROVE map[j] = FALSE
          <6>1. j \in 0 .. MapBits - 1 /\ j \notin held /\ j \in Bits
            BY <2>0, <4>2, <5>3, MapAssumption DEF Abstract!Free, Abstract!Pages, Bits
          <6>2. ~map[j] /\ map[j] \in BOOLEAN
            BY <6>1 DEF IInv, MapTellsHeld, TypeOK
          <6> QED BY <6>2
        <5>4. (k + len - 1) + 1 - len = k /\ len <= (k + len - 1) + 1 /\ len # 0
          BY <3>2, <4>2, <5>1
        <5>5. k + len - 1 \in RunEnds(map, allocator_length, len, FALSE)
          BY <5>2, <5>3, <5>4, Zenon DEF RunEnds, test
        <5> QED BY <3>4, <5>5
      <4>3. len > 0 => Abstract!FreeRuns(len) = {}
        BY <4>2 DEF Abstract!FreeRuns
      <4> QED BY <3>2, <4>1, <4>3 DEF Abstract!Alloc
    <3>5. \/ \E idx \in Nat : HandsOut("alloc", idx, len)
          \/ /\ HandsOutNothing("alloc", len)
             /\ RunEnds(map, allocator_length, len, FALSE) = {}
      BY <3>1, <3>2, AllocOutcome
    <3> QED BY <3>3, <3>4, <3>5 DEF Abstract!Next
  <2>3. CASE AllocAt
    <3>1. PICK addr \in Addrs, len \in Lens :
             InsideRegion(addr, len) /\ alloc_at(addr, len)
      BY <2>3 DEF AllocAt
    <3>2. len \in Nat /\ addr \in Nat
      BY ArgsAssumption
    <3> DEFINE idx == IndexOf(addr)
               run == idx .. idx + len - 1
    <3>3. ASSUME idx \in 0 .. allocator_length - 1, HandsOut("alloc_at", idx, len)
          PROVE  Abstract!AllocAt(idx)
      <4>1. /\ answer'.op = "alloc_at" /\ answer'.asked = len /\ answer'.pages = run
            /\ held' = held \cup run /\ UNCHANGED allocator_length
        BY <3>3 DEF HandsOut, Answer
      <4>2. idx \in Abstract!Pages /\ run \subseteq Abstract!Free
        <5> HIDE DEF idx
        <5> QED BY <2>0, <3>2, <3>3 DEF HandsOut, Abstract!Pages, Abstract!Free
      <4> QED BY <3>2, <4>1, <4>2 DEF Abstract!AllocAt
    <3>4. ASSUME HandsOutNothing("alloc_at", len), NEW k,
                 k \notin Abstract!Pages
                   \/ ~((k .. k + len - 1) \subseteq Abstract!Free)
          PROVE  Abstract!AllocAt(k)
      <4>1. /\ answer'.op = "alloc_at" /\ answer'.asked = len /\ answer'.pages = {}
            /\ held' = held /\ UNCHANGED allocator_length
        BY <3>4 DEF HandsOutNothing, Answer
      <4> QED BY <3>2, <3>4, <4>1 DEF Abstract!AllocAt
    <3>5. CASE idx \in 0 .. allocator_length - 1 /\ HandsOut("alloc_at", idx, len)
      <4>1. Abstract!AllocAt(idx) /\ idx \in Abstract!Pages
        BY <3>3, <3>5 DEF Abstract!Pages
      <4> QED BY <4>1 DEF Abstract!Next
    <3>6. CASE HandsOutNothing("alloc_at", len) /\ ~Managed(addr)
      <4>1. Abstract!Outside \notin Abstract!Pages
        BY <2>0 DEF Abstract!Outside, Abstract!Pages
      <4>2. Abstract!AllocAt(Abstract!Outside)
        BY <3>4, <3>6, <4>1
      <4> QED BY <4>2 DEF Abstract!Next
    <3>7. CASE /\ HandsOutNothing("alloc_at", len)
               /\ idx \in 0 .. allocator_length - 1 /\ run \cap held # {}
      <4>1. Abstract!AllocAt(idx) /\ idx \in Abstract!Pages
        BY <3>4, <3>7 DEF Abstract!Pages, Abstract!Free
      <4> QED BY <4>1 DEF Abstract!Next
    <3> QED BY <3>1, <3>2, <3>5, <3>6, <3>7, AllocAtOutcome
  <2>4. CASE FreeHeld
    <3>1. PICK addr \in Addrs, len \in Lens :
             InsideRegion(addr, len) /\ OnlyHeld(addr, len) /\ free(addr, len)
      BY <2>4 DEF FreeHeld
    <3>2. /\ answer' = Answer("free", 0, 0, {})
          /\ \E pages \in SUBSET held : held' = held \ pages
          /\ UNCHANGED allocator_length
      BY <3>1, FreeKeeps, ArgsAssumption
    <3>3. PICK pages \in SUBSET held : held' = held \ pages
      BY <3>2
    <3>4. Abstract!Release(pages)
      BY <3>2, <3>3 DEF Abstract!Release, Answer
    <3> QED BY <3>4 DEF Abstract!Next
  <2> QED BY <2>1, <2>2, <2>3, <2>4 DEF Next
<1>3. Init => IInv
  BY InitInv
<1>4. IInv /\ [Next]_vars => IInv'
  BY StepInv
<1> QED BY <1>1, <1>2, <1>3, <1>4, PTL DEF Spec, Refines, Abstract!Spec

-----------------------------------------------------------------------------
(* What holds whatever the callers do. *)

(* Multiples of the modulus do not change a remainder. *)
LEMMA ModMultiple ==
    ASSUME NEW m \in Nat, m > 0, NEW q \in Int, NEW x \in Int
    PROVE  (m * q + x) % m = x % m
<1> DEFINE d == x \div m
           r == x % m
           y == m * (q + d) + r
<1>1. d \in Int /\ r \in Int /\ x = m * d + r /\ 0 <= r /\ r < m
  BY DivMod
<1> HIDE DEF d, r
<1>2. m * q + x = y
  BY <1>1
<1>3. y \div m = q + d
  BY <1>1, DivUnique
<1>4. y \in Int /\ y % m \in Int /\ y = m * (y \div m) + (y % m)
  BY <1>1, DivMod
<1>5. y % m = r
  <2> HIDE DEF y
  <2>1. y = m * (q + d) + r
    BY DEF y
  <2> QED BY <1>1, <1>3, <1>4, <2>1
<1> QED BY <1>2, <1>5 DEF r

(* Sums of remainders. *)
LEMMA ModSum ==
    ASSUME NEW m \in Nat, m > 0, NEW a \in Int, NEW b \in Int
    PROVE  ((a % m) + (b % m)) % m = (a + b) % m
<1> DEFINE qa == a \div m
           qb == b \div m
           s == (a % m) + (b % m)
<1>1. qa \in Int /\ qb \in Int /\ a % m \in Int /\ b % m \in Int
      /\ a = m * qa + (a % m) /\ b = m * qb + (b % m)
  BY DivMod
<1>2. s \in Int /\ a + b = m * (qa + qb) + s
  <2> HIDE DEF qa, qb
  <2> QED BY <1>1
<1>3. (m * (qa + qb) + s) % m = s % m
  <2>1. qa + qb \in Int
    <3> HIDE DEF qa, qb
    <3> QED BY <1>1
  <2> DEFINE q == qa + qb
  <2> HIDE DEF q, s
  <2>2. (m * q + s) % m = s % m
    BY <1>2, <2>1, ModMultiple DEF q
  <2> QED BY <2>2 DEF q
<1> QED BY <1>2, <1>3

(* Moving n from one counter to the other keeps their sum. *)
LEMMA MoveCount ==
    ASSUME NEW a \in Int, NEW b \in Int, NEW n \in Int
    PROVE  Add(Sub(a, n), Add(b, n)) = Add(a, b)
<1>1. /\ a - n \in Int /\ b + n \in Int
      /\ SizeMod \in Nat /\ SizeMod > 0
  BY SizeModAssumption
<1>2. (((a - n) % SizeMod) + ((b + n) % SizeMod)) % SizeMod
        = ((a - n) + (b + n)) % SizeMod
  BY <1>1, ModSum
<1>3. (a - n) + (b + n) = a + b
  OBVIOUS
<1> QED BY <1>2, <1>3 DEF Add, Sub

CountTypes ==
    /\ allocator_length \in 0 .. MapBits + Overrun
    /\ allocator_free_count \in Nat /\ allocator_used_count \in Nat

(* Whatever addresses and lengths callers pass, get_free_count and         *)
(* get_used_count add up to the length of the region modulo 2^w.           *)
THEOREM CountsAlwaysConserved == WildSpec => []CountsConserved
<1> DEFINE WInv == CountTypes /\ CountsConserved
<1> USE MapAssumption, SizeModAssumption
<1>1. Init => WInv
  <2> SUFFICES ASSUME Init PROVE WInv
    OBVIOUS
  <2>1. 0 % SizeMod = 0
    BY SmallMod
  <2> QED BY <2>1 DEF Init, CountTypes, CountsConserved, Add
<1>2. WInv /\ [WildNext]_vars => WInv'
  <2> SUFFICES ASSUME WInv, [WildNext]_vars PROVE WInv'
    OBVIOUS
  <2>0. Lens \subseteq Nat
    BY ArgsAssumption
  <2>1. ASSUME NEW len \in Lens, UNCHANGED allocator_length,
               \/ /\ allocator_free_count' = Sub(allocator_free_count, len)
                  /\ allocator_used_count' = Add(allocator_used_count, len)
               \/ /\ allocator_free_count' = Add(allocator_free_count, len)
                  /\ allocator_used_count' = Sub(allocator_used_count, len)
               \/ UNCHANGED counts
        PROVE  WInv'
    <3>1. len \in Int /\ allocator_free_count \in Int /\ allocator_used_count \in Int
      BY <2>0 DEF CountTypes
    <3>2. CASE UNCHANGED counts
      BY <2>1, <3>2 DEF CountTypes, CountsConserved, counts
    <3>3. CASE /\ allocator_free_count' = Sub(allocator_free_count, len)
               /\ allocator_used_count' = Add(allocator_used_count, len)
      <4>1. CountTypes'
        BY <2>1, <3>1, <3>3 DEF CountTypes, Add, Sub
      <4>2. Add(allocator_free_count', allocator_used_count')
              = Add(allocator_free_count, allocator_used_count)
        BY <3>1, <3>3, MoveCount
      <4> QED BY <2>1, <4>1, <4>2 DEF CountsConserved
    <3>4. CASE /\ allocator_free_count' = Add(allocator_free_count, len)
               /\ allocator_used_count' = Sub(allocator_used_count, len)
      <4>1. CountTypes'
        BY <2>1, <3>1, <3>4 DEF CountTypes, Add, Sub
      <4>2. /\ allocator_free_count' \in Int /\ allocator_used_count' \in Int
            /\ Add(allocator_used_count', allocator_free_count')
                 = Add(allocator_used_count, allocator_free_count)
        BY <3>1, <3>4, <4>1, MoveCount DEF CountTypes
      <4> QED BY <2>1, <3>1, <4>1, <4>2 DEF CountsConserved, Add
    <3> QED BY <2>1, <3>2, <3>3, <3>4
  <2>2. CASE ConstructWild
    <3>1. PICK r \in Regions : r[2] <= MapBits + Overrun /\ FIRSTFIT(r[1], r[2])
      BY <2>2 DEF ConstructWild
    <3>2. r[2] \in Nat /\ r[2] < SizeMod
      BY <3>1, RegionsAssumption
    <3>3. (r[2] + 0) % SizeMod = r[2]
      BY <3>2, SmallMod
    <3> QED BY <3>1, <3>2, <3>3 DEF FIRSTFIT, CountTypes, CountsConserved, Add
  <2>3. CASE AllocAny
    BY <2>1, <2>3 DEF AllocAny, alloc, Take, Refuse, region
  <2>4. CASE AllocAtWild
    BY <2>1, <2>4 DEF AllocAtWild, alloc_at, Take, Refuse, region
  <2>5. CASE FreeWild
    BY <2>1, <2>5 DEF FreeWild, free, region
  <2>6. CASE UNCHANGED vars
    BY <2>6 DEF vars, region, counts, CountTypes, CountsConserved
  <2> QED BY <2>2, <2>3, <2>4, <2>5, <2>6 DEF WildNext
<1>3. WInv => CountsConserved
  OBVIOUS
<1> QED BY <1>1, <1>2, <1>3, PTL DEF WildSpec

MapTypes ==
    /\ allocator_length \in 0 .. MapBits + Overrun
    /\ map \in [Bits -> BOOLEAN]

(* Whatever the callers do, the bitmap is a bitmap and the region is one   *)
(* the model has bits for.                                                 *)
LEMMA MapTypesKept == WildSpec => []MapTypes
<1>1. Init => MapTypes
  BY MapAssumption DEF Init, MapTypes
<1>2. ASSUME MapTypes, [WildNext]_vars PROVE MapTypes'
  <2>1. ASSUME NEW m, map' = [k \in Bits |-> map[k] \/ k \in m], UNCHANGED allocator_length
        PROVE  MapTypes'
    BY <1>2, <2>1 DEF MapTypes
  <2>2. ASSUME NEW m, map' = [k \in Bits |-> map[k] /\ k \notin m], UNCHANGED allocator_length
        PROVE  MapTypes'
    BY <1>2, <2>2 DEF MapTypes
  <2>3. ASSUME NEW op, NEW idx, NEW len, NEW addr, Take(op, idx, len, addr)
        PROVE  MapTypes'
    BY <1>2, <2>1, <2>3 DEF Take, set, MapTypes, region
  <2>4. ASSUME NEW op, NEW len, Refuse(op, len)
        PROVE  MapTypes'
    BY <1>2, <2>4 DEF Refuse, MapTypes, region
  <2>5. CASE ConstructWild
    <3>1. PICK r \in Regions : r[2] <= MapBits + Overrun /\ FIRSTFIT(r[1], r[2])
      BY <2>5 DEF ConstructWild
    <3>2. r[2] \in Nat
      BY <3>1, RegionsAssumption
    <3> QED BY <1>2, <3>1, <3>2, MapAssumption DEF FIRSTFIT, MapTypes
  <2>6. CASE AllocAny
    BY <2>3, <2>4, <2>6 DEF AllocAny, alloc
  <2>7. CASE AllocAtWild
    BY <2>3, <2>4, <2>7 DEF AllocAtWild, alloc_at
  <2>8. CASE FreeWild
    BY <1>2, <2>2, <2>8 DEF FreeWild, free, clr, MapTypes, region
  <2>9. CASE UNCHANGED vars
    BY <1>2, <2>9 DEF vars, region, MapTypes
  <2> QED BY <1>2, <2>5, <2>6, <2>7, <2>8, <2>9 DEF WildNext
<1> QED BY <1>1, <1>2, PTL DEF WildSpec

(* alloc(_len) is safe on its own: whatever addresses and lengths other    *)
(* callers passed before, it marks _len clear bits of pages of the region, *)
(* or leaves the bitmap alone (firstfit.cpp:64-73).                        *)
THEOREM AllocAlwaysTakesFreePages == WildSpec => AllocTakesFreePages
<1>1. ASSUME MapTypes, NEW len \in Lens, alloc(len) PROVE AllocMarks(len)
  <2> DEFINE marked == {k \in Bits : map'[k] # map[k]}
             idx == FirstRun(len)
             run == idx .. idx + len - 1
  <2>0. len \in Nat /\ allocator_length \in 0 .. MapBits + Overrun
        /\ map \in [Bits -> BOOLEAN]
    BY <1>1, ArgsAssumption DEF MapTypes
  <2>1. CASE idx = NoIndex
    <3>1. map' = map
      BY <1>1, <2>1 DEF alloc, Refuse
    <3> QED BY <3>1 DEF AllocMarks
  <2>2. CASE idx # NoIndex
    <3>1. /\ idx \in Nat /\ idx + len <= allocator_length
          /\ \A k \in run : ~map[k]
      BY <2>0, <2>2, FirstRunIsFree
    <3>2. map' = [k \in Bits |-> map[k] \/ k \in run]
      BY <1>1, <2>0, <2>2 DEF alloc, Take, set
    <3> HIDE DEF idx
    <3>3. run \subseteq Bits /\ \A k \in run : k < allocator_length
      BY <2>0, <3>1, MapAssumption DEF Bits
    <3> HIDE DEF run
    <3>4. marked = run
      BY <2>0, <3>1, <3>2, <3>3
    <3>5. \A k \in run : map'[k]
      BY <3>2, <3>3
    <3>6. Cardinality(run) = len
      BY <2>0, <3>1, RunCardinality DEF run
    <3> QED BY <3>3, <3>4, <3>5, <3>6 DEF AllocMarks
  <2> QED BY <2>1, <2>2
<1>2. ASSUME MapTypes PROVE [\A len \in Lens : alloc(len) => AllocMarks(len)]_vars
  BY <1>1, <1>2
<1> QED BY <1>2, MapTypesKept, PTL DEF AllocTakesFreePages

-----------------------------------------------------------------------------
(* One FIRSTFIT object as PMM sees it: a space of physical memory that     *)
(* begins on a page, whose pages have numbers.  PMM_proofs instantiates    *)
(* this module for the kernel space and for the rest.                      *)

(* The number of the first page, and the pages callers hold, by number. *)
Base  == allocator_start_addr \div PageSize
Taken == {Base + i : i \in held}

(* The pages n pages at addr lie on, and what an answer gives its caller.  *)
PhysAt(addr, n) == IF n = 0 THEN {}
                   ELSE addr \div PageSize .. (addr + n * PageSize - 1) \div PageSize
Given(ans) == IF ans.pages = {} THEN {} ELSE PhysAt(ans.addr, ans.asked)

SpaceInv == IInv /\ allocator_start_addr % PageSize = 0

LEMMA BaseIs ==
    ASSUME SpaceInv
    PROVE  Base \in Nat /\ allocator_start_addr = PageSize * Base
<1>1. allocator_start_addr \in Nat /\ PageSize \in Nat /\ PageSize > 0
  BY PageSizeAssumption DEF SpaceInv, IInv, TypeOK
<1>2. Base \in Int /\ allocator_start_addr = PageSize * Base
  BY <1>1, DivMod DEF SpaceInv, Base
<1>3. ASSUME Base < 0 PROVE FALSE
  <2>1. PageSize * Base + PageSize <= PageSize * 0
    BY <1>1, <1>2, <1>3, PageMultiples
  <2> QED BY <1>1, <1>2, <2>1
<1> QED BY <1>2, <1>3

(* The run of n pages at page idx of the space. *)
LEMMA RunAt ==
    ASSUME SpaceInv, NEW idx \in Nat, NEW n \in Nat
    PROVE  /\ AddrOf(idx) = PageSize * (Base + idx)
           /\ PhysAt(AddrOf(idx), n) = {Base + i : i \in idx .. idx + n - 1}
<1>0. /\ PageSize \in Nat /\ PageSize > 0 /\ Base \in Nat
      /\ allocator_start_addr = PageSize * Base
  BY BaseIs, PageSizeAssumption
<1>1. AddrOf(idx) = PageSize * (Base + idx) + 0
  BY <1>0 DEF AddrOf
<1>2. AddrOf(idx) \div PageSize = Base + idx
  BY <1>0, <1>1, DivUnique
<1>3. CASE n = 0
  BY <1>0, <1>1, <1>3 DEF PhysAt
<1>4. CASE n > 0
  <2> DEFINE last == AddrOf(idx) + n * PageSize - 1
  <2>1. last = PageSize * (Base + idx + n - 1) + (PageSize - 1)
    BY <1>0, <1>1
  <2>2. (PageSize * (Base + idx + n - 1) + (PageSize - 1)) \div PageSize = Base + idx + n - 1
    <3>1. Base + idx + n - 1 \in Int /\ PageSize - 1 \in Int /\ 0 <= PageSize - 1 /\ PageSize - 1 < PageSize
      BY <1>0
    <3> QED BY <1>0, <3>1, DivUnique
  <2>3. PhysAt(AddrOf(idx), n) = Base + idx .. Base + idx + n - 1
    BY <1>2, <1>4, <2>1, <2>2 DEF PhysAt
  <2>4. ASSUME NEW p \in Base + idx .. Base + idx + n - 1
        PROVE  p \in {Base + i : i \in idx .. idx + n - 1}
    <3>1. p - Base \in idx .. idx + n - 1 /\ Base + (p - Base) = p
      BY <1>0
    <3> QED BY <3>1
  <2> QED BY <1>0, <1>1, <2>3, <2>4
<1> QED BY <1>3, <1>4

LEMMA TakenBounds ==
    ASSUME SpaceInv
    PROVE  /\ Taken \subseteq Base .. Base + allocator_length - 1
           /\ IsFiniteSet(Taken)
           /\ Cardinality(Taken) = allocator_used_count
           /\ allocator_free_count = allocator_length - Cardinality(Taken)
           /\ Cardinality(Taken) <= allocator_length /\ Cardinality(Taken) \in Nat
           /\ allocator_length <= MapBits /\ allocator_length \in Nat
<1>1. /\ held \subseteq 0 .. allocator_length - 1 /\ IsFiniteSet(held)
      /\ allocator_length \in Nat /\ Cardinality(held) <= allocator_length /\ Base \in Nat
      /\ Cardinality(held) \in Nat /\ allocator_length <= MapBits
  BY BaseIs, HeldFinite DEF SpaceInv, IInv, MapTellsHeld, RegionFits
<1>2. ExistsBijection(held, Taken)
  <2> DEFINE f == [i \in held |-> Base + i]
  <2>1. f \in [held -> Taken]
    BY DEF Taken
  <2>2. \A x, y \in held : f[x] = f[y] => x = y
    BY <1>1
  <2>3. \A t \in Taken : \E x \in held : f[x] = t
    BY DEF Taken
  <2>4. f \in Bijection(held, Taken)
    BY <2>1, <2>2, <2>3 DEF Bijection, Injection, IsInjective, Surjection
  <2> QED BY <2>4 DEF ExistsBijection
<1>3. IsFiniteSet(Taken) /\ Cardinality(Taken) = Cardinality(held)
  BY <1>1, <1>2, FS_Bijection
<1>4. Taken \subseteq Base .. Base + allocator_length - 1
  BY <1>1 DEF Taken
<1> QED BY <1>1, <1>3, <1>4 DEF SpaceInv, IInv, CountsExact

(* The marked bits are the pages held. *)
LEMMA MarkedIs ==
    ASSUME SpaceInv
    PROVE  {allocator_start_addr \div PageSize + i : i \in {j \in 0 .. MapBits - 1 : map[j]}} = Taken
<1>1. /\ held \subseteq 0 .. allocator_length - 1
      /\ \A i \in 0 .. MapBits - 1 : map[i] <=> i \in held
      /\ allocator_length \in Nat /\ allocator_length <= MapBits /\ MapBits \in Nat
  BY TakenBounds, MapAssumption DEF SpaceInv, IInv, MapTellsHeld
<1>2. held \subseteq 0 .. MapBits - 1
  BY <1>1
<1>3. {j \in 0 .. MapBits - 1 : map[j]} = held
  BY <1>1, <1>2, Zenon
<1> QED BY <1>3 DEF Taken, Base

(* What a call that hands out a run changes, by page numbers. *)
LEMMA HandsOutSpace ==
    ASSUME SpaceInv, IInv', NEW op, NEW idx \in Nat, NEW len \in Nat, HandsOut(op, idx, len)
    PROVE  /\ SpaceInv' /\ Base' = Base
           /\ Taken' = Taken \cup Given(answer')
           /\ Given(answer') \cap Taken = {}
           /\ UNCHANGED <<constructed, allocator_start_addr, allocator_length>>
<1> DEFINE run == idx .. idx + len - 1
<1>1. /\ answer' = Answer(op, len, AddrOf(idx), run)
      /\ held' = held \cup run /\ run \cap held = {}
      /\ UNCHANGED <<constructed, allocator_start_addr, allocator_length>>
  BY DEF HandsOut
<1>2. Base' = Base /\ Base \in Nat /\ SpaceInv'
  BY <1>1, BaseIs DEF Base, SpaceInv
<1>3. Given(answer') = {Base + i : i \in run}
  <2>1. answer'.pages = run /\ answer'.addr = AddrOf(idx) /\ answer'.asked = len
    BY <1>1 DEF Answer
  <2>2. PhysAt(AddrOf(idx), len) = {Base + i : i \in run}
    BY RunAt
  <2> HIDE DEF run
  <2> QED BY <2>1, <2>2 DEF Given
<1>4. held \subseteq Nat /\ run \subseteq Nat
  BY DEF SpaceInv, IInv, TypeOK
<1> HIDE DEF run
<1>5. Taken' = {Base + i : i \in held \cup run}
  BY <1>1, <1>2 DEF Taken
<1>6. Taken' = Taken \cup Given(answer')
  BY <1>3, <1>5 DEF Taken
<1>7. Given(answer') \cap Taken = {}
  <2> SUFFICES ASSUME NEW i \in run, NEW j \in held, Base + i = Base + j PROVE FALSE
    BY <1>3 DEF Taken
  <2>1. i = j
    BY <1>2, <1>4
  <2> QED BY <1>1, <2>1
<1> QED BY <1>1, <1>2, <1>6, <1>7

LEMMA HandsOutNothingSpace ==
    ASSUME SpaceInv, IInv', NEW op, NEW len, HandsOutNothing(op, len)
    PROVE  /\ SpaceInv' /\ Base' = Base
           /\ Taken' = Taken /\ Given(answer') = {}
           /\ UNCHANGED <<constructed, allocator_start_addr, allocator_length>>
BY DEF SpaceInv, HandsOutNothing, Taken, Base, Given, Answer

(* alloc(_len): the pages given are new. *)
LEMMA AllocSpace ==
    ASSUME SpaceInv, NEW len \in Nat, alloc(len)
    PROVE  /\ SpaceInv' /\ Base' = Base
           /\ Taken' = Taken \cup Given(answer')
           /\ Given(answer') \cap Taken = {}
           /\ UNCHANGED <<constructed, allocator_start_addr, allocator_length>>
<1>0. IInv
  BY DEF SpaceInv
<1>1. /\ IInv'
      /\ (\E idx \in Nat : HandsOut("alloc", idx, len)) \/ HandsOutNothing("alloc", len)
  BY <1>0, AllocOutcome
<1>2. CASE \E idx \in Nat : HandsOut("alloc", idx, len)
  BY <1>1, <1>2, HandsOutSpace
<1>3. CASE HandsOutNothing("alloc", len)
  <2>1. /\ SpaceInv' /\ Base' = Base /\ Taken' = Taken /\ Given(answer') = {}
        /\ UNCHANGED <<constructed, allocator_start_addr, allocator_length>>
    BY <1>1, <1>3, HandsOutNothingSpace
  <2> QED BY <2>1
<1> QED BY <1>1, <1>2, <1>3

LEMMA AllocAtSpace ==
    ASSUME SpaceInv, NEW addr \in Nat, NEW len \in Nat,
           InsideRegion(addr, len), alloc_at(addr, len)
    PROVE  /\ SpaceInv' /\ Base' = Base
           /\ Taken' = Taken \cup Given(answer')
           /\ Given(answer') \cap Taken = {}
           /\ UNCHANGED <<constructed, allocator_start_addr, allocator_length>>
<1>0. IInv
  BY DEF SpaceInv
<1>1. /\ IInv'
      /\ (\E idx \in Nat : HandsOut("alloc_at", idx, len)) \/ HandsOutNothing("alloc_at", len)
  <2>1. \A n \in 0 .. allocator_length - 1 : n \in Nat
    BY DEF SpaceInv, IInv, TypeOK
  <2> QED BY <1>0, <2>1, AllocAtOutcome
<1>2. CASE \E idx \in Nat : HandsOut("alloc_at", idx, len)
  BY <1>1, <1>2, HandsOutSpace
<1>3. CASE HandsOutNothing("alloc_at", len)
  <2>1. /\ SpaceInv' /\ Base' = Base /\ Taken' = Taken /\ Given(answer') = {}
        /\ UNCHANGED <<constructed, allocator_start_addr, allocator_length>>
    BY <1>1, <1>3, HandsOutNothingSpace
  <2> QED BY <2>1
<1> QED BY <1>1, <1>2, <1>3

(* free(_addr, _len) of pages that are held gives back exactly these. *)
LEMMA FreeSpace ==
    ASSUME SpaceInv, NEW addr \in Nat, NEW len \in Nat, Managed(addr),
           InsideRegion(addr, len), PhysAt(addr, len) \subseteq Taken, free(addr, len)
    PROVE  /\ SpaceInv' /\ Base' = Base
           /\ Taken' = Taken \ PhysAt(addr, len)
           /\ Given(answer') = {}
           /\ UNCHANGED <<constructed, allocator_start_addr, allocator_length>>
<1> DEFINE idx == IndexOf(addr)
           run == idx .. idx + len - 1
<1>0. IInv /\ TypeOK /\ held \subseteq Nat
  BY DEF SpaceInv, IInv, TypeOK
<1>1. idx \in Nat /\ addr = AddrOf(idx) /\ idx + len <= allocator_length
  BY <1>0, AlignedAddr DEF InsideRegion
<1> HIDE DEF idx
<1>2. PagesOf(addr, len) = run
  BY <1>0, <1>1, PagesOfRun
<1>3. PhysAt(addr, len) = {Base + i : i \in run}
  BY <1>1, RunAt
<1>4. Base \in Nat /\ run \subseteq Nat
  BY <1>1, BaseIs
<1> HIDE DEF run
<1>5. run \subseteq held
  <2> SUFFICES ASSUME NEW i \in run PROVE i \in held
    OBVIOUS
  <2>1. PICK j \in held : Base + i = Base + j
    BY <1>3 DEF Taken
  <2> QED BY <1>0, <1>4, <2>1
<1>6. OnlyHeld(addr, len)
  BY <1>2, <1>5 DEF OnlyHeld
<1>7. IInv' /\ answer' = Answer("free", 0, 0, {})
  BY <1>0, <1>6, FreeKeeps
<1>8. /\ held' = held \ run
      /\ UNCHANGED <<constructed, allocator_start_addr, allocator_length>>
  BY <1>2 DEF free, region
<1>9. Base' = Base /\ SpaceInv'
  BY <1>7, <1>8 DEF Base, SpaceInv
<1>10. Taken' = Taken \ PhysAt(addr, len)
  <2>1. Taken' = {Base + i : i \in held \ run}
    BY <1>8, <1>9 DEF Taken
  <2>2. ASSUME NEW i \in held, NEW j \in run, Base + i = Base + j PROVE i = j
    BY <1>0, <1>4, <2>2
  <2> QED BY <1>3, <2>1, <2>2 DEF Taken
<1> QED BY <1>7, <1>8, <1>9, <1>10 DEF Given, Answer

(* The constructor on a region of whole pages that fits the array. *)
LEMMA ConstructSpace ==
    ASSUME SpaceInv, NEW addr \in Nat, NEW len \in Nat, <<addr, len>> \in Regions,
           addr % PageSize = 0, len <= MapBits, FIRSTFIT(addr, len)
    PROVE  /\ SpaceInv' /\ Taken' = {} /\ held' = {}
           /\ constructed' = TRUE /\ allocator_start_addr' = addr /\ allocator_length' = len
<1>1. Construct
  BY DEF Construct
<1>2. IInv'
  BY <1>1, ConstructKeeps DEF SpaceInv
<1> QED BY <1>2 DEF FIRSTFIT, SpaceInv, Taken

LEMMA InitSpace ==
    ASSUME Init
    PROVE  SpaceInv /\ ~constructed /\ held = {} /\ Taken = {}
<1>1. IInv
  BY InitInv
<1>2. allocator_start_addr = 0 /\ ~constructed /\ held = {}
  BY DEF Init
<1>3. 0 % PageSize = 0
  BY PageSizeAssumption
<1> QED BY <1>1, <1>2, <1>3 DEF SpaceInv, Taken

(* When the first k pages of the space are taken, and only these, alloc    *)
(* of n pages that are left hands out the n pages behind them.             *)
LEMMA AllocRoom ==
    ASSUME SpaceInv, NEW k \in Nat, NEW n \in Nat, n > 0, k + n <= allocator_length,
           held = 0 .. k - 1, alloc(n)
    PROVE  /\ answer'.addr = AddrOf(k) /\ answer'.pages # {}
           /\ answer'.asked = n
<1> DEFINE ends == RunEnds(map, allocator_length, n, FALSE)
           last == k + n - 1
<1>0. /\ allocator_length \in Nat /\ allocator_length <= MapBits /\ MapBits \in Nat
      /\ \A i \in 0 .. MapBits - 1 : map[i] <=> i \in held
      /\ map \in [Bits -> BOOLEAN] /\ MapBits + Overrun < SizeMod - 1
      /\ SizeMod \in Nat /\ Overrun \in Nat
  BY TakenBounds, MapAssumption, SizeModAssumption
     DEF SpaceInv, IInv, MapTellsHeld, TypeOK
<1>1. last \in ends
  <2>1. last \in 0 .. allocator_length - 1 /\ n <= last + 1 /\ n # 0
    BY <1>0
  <2>2. ASSUME NEW j \in (last + 1 - n) .. last PROVE test(map, j) = FALSE
    <3>1. j \in 0 .. MapBits - 1 /\ j \notin 0 .. k - 1
      BY <1>0
    <3>2. j \in Bits
      BY <1>0, <3>1 DEF Bits
    <3>3. ~map[j] /\ map[j] \in BOOLEAN
      BY <1>0, <3>1, <3>2
    <3> QED BY <3>3, Zenon DEF test
  <2> HIDE DEF last
  <2> QED BY <2>1, <2>2 DEF RunEnds
<1>2. ASSUME NEW e \in ends PROVE last <= e
  <2>1. e \in 0 .. allocator_length - 1 /\ n <= e + 1
        /\ \A j \in (e + 1 - n) .. e : test(map, j) = FALSE
    BY DEF RunEnds
  <2>2. CASE e + 1 - n < k
    <3> DEFINE j == e + 1 - n
    <3>1. j \in (e + 1 - n) .. e /\ j \in 0 .. k - 1 /\ j \in 0 .. MapBits - 1
      BY <1>0, <2>1, <2>2
    <3>2. map[j] = FALSE
      BY <2>1, <3>1, Zenon DEF test
    <3>3. map[j]
      BY <1>0, <3>1, Zenon
    <3> QED BY <3>2, <3>3
  <2> QED BY <2>1, <2>2
<1>3. FirstRun(n) = k
  <2>1. last \in ends /\ \A f \in ends : last <= f
    BY <1>1, <1>2
  <2>2. \A f \in ends : f \in Int
    BY <1>0 DEF RunEnds
  <2> DEFINE c == CHOOSE e \in ends : \A f \in ends : e <= f
  <2> HIDE DEF ends
  <2>3. c \in ends /\ \A f \in ends : c <= f
    <3> HIDE DEF last
    <3> QED BY <2>1, Zenon
  <2>4. c = last
    <3> HIDE DEF c
    <3>1. c <= last /\ last <= c /\ c \in Int /\ last \in Int
      BY <1>1, <2>1, <2>2, <2>3
    <3> QED BY <3>1
  <2>5. FirstRun(n) = c + 1 - n
    BY <1>1 DEF FirstRun, find_len, ends
  <2> HIDE DEF c
  <2> QED BY <2>4, <2>5
<1>4. FirstRun(n) # NoIndex
  BY <1>0, <1>3 DEF NoIndex
<1>5. answer' = Answer("alloc", n, AddrOf(k), PagesOf(AddrOf(k), n))
  BY <1>3, <1>4 DEF alloc, Take
<1>6. PagesOf(AddrOf(k), n) = k .. k + n - 1
  BY PagesOfRun DEF SpaceInv, IInv
<1>7. k \in k .. k + n - 1
  OBVIOUS
<1> QED BY <1>5, <1>6, <1>7 DEF Answer
=============================================================================

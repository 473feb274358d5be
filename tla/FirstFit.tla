------------------------------ MODULE FirstFit ------------------------------
(***************************************************************************)
(* FIRSTFIT (libk/src/firstfit.cpp) over ALLOCATOR (libk/src/              *)
(* allocator.cpp): the fields of one allocator object and its operations.  *)
(* Addresses are byte addresses, lengths are pages, the counters wrap like *)
(* size_t.                                                                 *)
(*                                                                         *)
(* The bits MapBits .. MapBits + Overrun - 1 of "map" are not the object's:*)
(* they are the memory behind the array, which the code reads and writes   *)
(* when a page number is MapBits or more.  What they hold at first is      *)
(* open.                                                                   *)
(*                                                                         *)
(* "held" and "answer" are the callers' view: the pages they were given    *)
(* and did not give back, worked out from the addresses the code answers,  *)
(* and the last answer.                                                    *)
(***************************************************************************)
EXTENDS Bitmap, FiniteSets

CONSTANTS PageSize,     \* common::PAGE_SIZE
          MapBits,      \* bits of map[BITS_ARR_SIZE]
          Overrun,      \* bits of neighbouring memory in the model
          Regions,      \* the <<_addr, _len>> a constructor may be given
          Lens,         \* the _len callers pass
          Addrs         \* the _addr callers pass

ASSUME PageSizeAssumption == PageSize \in Nat /\ PageSize > 0
ASSUME MapAssumption ==
    MapBits \in Nat /\ Overrun \in Nat /\ MapBits + Overrun < SizeMod - 1
ASSUME ArgsAssumption == Lens \subseteq Nat /\ Addrs \subseteq Nat
ASSUME RegionsAssumption == Regions \subseteq Nat \X Nat

VARIABLES constructed,  \* the guard of the function-local static
          allocator_start_addr, allocator_length, map,
          allocator_free_count, allocator_used_count,
          held, answer

region == <<constructed, allocator_start_addr, allocator_length>>
counts == <<allocator_free_count, allocator_used_count>>
vars   == <<region, map, counts, held, answer>>

Bits    == 0 .. MapBits + Overrun - 1
Foreign == MapBits .. MapBits + Overrun - 1

(* The last byte managed is EndAddr - 1. *)
EndAddr == allocator_start_addr + allocator_length * PageSize
Managed(addr) == addr >= allocator_start_addr /\ addr < EndAddr
IndexOf(addr) == (addr - allocator_start_addr) \div PageSize

(* The pages on which the len * PageSize bytes from addr lie: what a       *)
(* caller who is told it owns len pages at addr will use.                  *)
PagesOf(addr, len) ==
    IF len = 0 THEN {} ELSE IndexOf(addr) .. IndexOf(addr + len * PageSize - 1)

Answer(op, asked, addr, pages) ==
    [op |-> op, asked |-> asked, addr |-> addr, pages |-> pages]
NoAnswer == Answer("none", 0, 0, {})

(* A static object before its constructor has run is zeroed memory. *)
Init ==
    /\ constructed = FALSE
    /\ allocator_start_addr = 0 /\ allocator_length = 0
    /\ map \in {m \in [Bits -> BOOLEAN] : \A i \in Bits \ Foreign : ~m[i]}
    /\ allocator_free_count = 0 /\ allocator_used_count = 0
    /\ held = {} /\ answer = NoAnswer

(* FIRSTFIT::FIRSTFIT and ALLOCATOR::ALLOCATOR; bzero clears the array. *)
FIRSTFIT_LongBzero(addr, len) ==    \* mutation: bzero of more than the array
    /\ ~constructed
    /\ constructed' = TRUE
    /\ allocator_start_addr' = addr
    /\ allocator_length' = len
    /\ allocator_free_count' = len
    /\ allocator_used_count' = 0
    /\ map' = [i \in Bits |-> FALSE]
    /\ held' = {} /\ answer' = NoAnswer

FIRSTFIT(addr, len) ==
    /\ ~constructed
    /\ constructed' = TRUE
    /\ allocator_start_addr' = addr
    /\ allocator_length' = len
    /\ allocator_free_count' = len
    /\ allocator_used_count' = 0
    /\ map' = [i \in Bits |-> i \in Foreign /\ map[i]]
    /\ held' = {} /\ answer' = NoAnswer

(* The page at which alloc(_len) would start, and the address it answers. *)
FirstRun_Short(len) ==              \* mutation: one page too few
    find_len(map, allocator_length, IF len = 0 THEN 0 ELSE len - 1, FALSE)
FirstRun(len) == find_len(map, allocator_length, len, FALSE)
AddrOf(idx) == allocator_start_addr + PageSize * idx

(* The end of both alloc functions: mark the pages and count them. *)
Take_OneCounter(op, idx, len, addr) ==      \* mutation: one counter forgotten
    /\ map' = set(map, idx, len)
    /\ allocator_free_count' = Sub(allocator_free_count, len)
    /\ held' = held \cup PagesOf(addr, len)
    /\ answer' = Answer(op, len, addr, PagesOf(addr, len))
    /\ UNCHANGED <<region, allocator_used_count>>

Take(op, idx, len, addr) ==
    /\ map' = set(map, idx, len)
    /\ allocator_free_count' = Sub(allocator_free_count, len)
    /\ allocator_used_count' = Add(allocator_used_count, len)
    /\ held' = held \cup PagesOf(addr, len)
    /\ answer' = Answer(op, len, addr, PagesOf(addr, len))
    /\ UNCHANGED region

Refuse(op, len) ==
    /\ answer' = Answer(op, len, 0, {})
    /\ UNCHANGED <<region, map, counts, held>>

(* FIRSTFIT::alloc(size_t _len): the address, or 0. *)
alloc_ZeroIsNone(len) ==                    \* mutation: page 0 taken for failure
    /\ constructed
    /\ IF FirstRun(len) \in {NoIndex, 0}
       THEN Refuse("alloc", len)
       ELSE Take("alloc", FirstRun(len), len, AddrOf(FirstRun(len)))

alloc(len) ==
    /\ constructed
    /\ IF FirstRun(len) = NoIndex
       THEN Refuse("alloc", len)
       ELSE Take("alloc", FirstRun(len), len, AddrOf(FirstRun(len)))

(* The answer of FIRSTFIT::alloc(uintptr_t _addr, size_t _len). *)
Claimable_FirstPage(addr, len) ==           \* mutation: only one page looked at
    Managed(addr) /\ ~test(map, IndexOf(addr))

Claimable(addr, len) ==
    /\ Managed(addr)
    /\ \A i \in IndexOf(addr) .. IndexOf(addr) + len - 1 : ~test(map, i)

alloc_at(addr, len) ==
    /\ constructed
    /\ IF Claimable(addr, len)
       THEN Take("alloc_at", IndexOf(addr), len, addr)
       ELSE Refuse("alloc_at", len)

(* FIRSTFIT::free: an address outside the region is ignored, otherwise the *)
(* bits are cleared whatever they were.                                    *)
free_OneCounter(addr, len) ==               \* mutation: one counter forgotten
    /\ constructed
    /\ answer' = Answer("free", 0, 0, {})
    /\ IF Managed(addr)
       THEN /\ map' = clr(map, IndexOf(addr), len)
            /\ allocator_free_count' = Add(allocator_free_count, len)
            /\ held' = held \ PagesOf(addr, len)
            /\ UNCHANGED <<region, allocator_used_count>>
       ELSE UNCHANGED <<region, map, counts, held>>

free(addr, len) ==
    /\ constructed
    /\ answer' = Answer("free", 0, 0, {})
    /\ IF Managed(addr)
       THEN /\ map' = clr(map, IndexOf(addr), len)
            /\ allocator_free_count' = Add(allocator_free_count, len)
            /\ allocator_used_count' = Sub(allocator_used_count, len)
            /\ held' = held \ PagesOf(addr, len)
            /\ UNCHANGED region
       ELSE UNCHANGED <<region, map, counts, held>>

-----------------------------------------------------------------------------
(***************************************************************************)
(* The callers.  The header asks nothing of them, so WildSpec lets them    *)
(* pass any address and any length (as far as the bits of the model go).   *)
(* Spec has the callers for which the allocator is meant: regions that fit *)
(* the array, runs of whole pages inside the region, and only pages that   *)
(* are held are given back.  LargeSpec drops the first condition only.     *)
(***************************************************************************)
InsideModel(addr, len) == IndexOf(addr) + len <= MapBits + Overrun
Aligned(addr) == (addr - allocator_start_addr) % PageSize = 0
InsideRegion(addr, len) ==
    Managed(addr) => Aligned(addr) /\ IndexOf(addr) + len <= allocator_length
OnlyHeld(addr, len) == Managed(addr) => PagesOf(addr, len) \subseteq held

Construct == \E r \in Regions : r[2] <= MapBits /\ FIRSTFIT(r[1], r[2])
AllocAny  == \E len \in Lens : alloc(len)
AllocAt   == \E addr \in Addrs, len \in Lens :
                InsideRegion(addr, len) /\ alloc_at(addr, len)
FreeHeld  == \E addr \in Addrs, len \in Lens :
                InsideRegion(addr, len) /\ OnlyHeld(addr, len) /\ free(addr, len)

Next == Construct \/ AllocAny \/ AllocAt \/ FreeHeld
Spec == Init /\ [][Next]_vars

ConstructWild == \E r \in Regions : r[2] <= MapBits + Overrun /\ FIRSTFIT(r[1], r[2])
AllocAtWild   == \E addr \in Addrs, len \in Lens :
                    InsideModel(addr, len) /\ alloc_at(addr, len)
FreeWild      == \E addr \in Addrs, len \in Lens :
                    InsideModel(addr, len) /\ free(addr, len)

LargeNext == ConstructWild \/ AllocAny \/ AllocAt \/ FreeHeld
LargeSpec == Init /\ [][LargeNext]_vars

WildNext == ConstructWild \/ AllocAny \/ AllocAtWild \/ FreeWild
WildSpec == Init /\ [][WildNext]_vars

-----------------------------------------------------------------------------
Ops == {"none", "alloc", "alloc_at", "free"}

TypeOK ==
    /\ constructed \in BOOLEAN
    /\ allocator_start_addr \in Nat
    /\ allocator_length \in 0 .. MapBits + Overrun
    /\ map \in [Bits -> BOOLEAN]
    /\ allocator_free_count \in 0 .. SizeMod - 1
    /\ allocator_used_count \in 0 .. SizeMod - 1
    /\ held \subseteq Nat
    /\ answer \in [op : Ops, asked : Nat, addr : Nat, pages : SUBSET Nat]

(* The pages the bitmap marks are exactly the pages callers hold, and they *)
(* lie inside the region: no sequence of alloc and free calls loses a page *)
(* or leaves one marked that nobody holds (firstfit.cpp:70, 100, 119).     *)
MapTellsHeld ==
    /\ held \subseteq 0 .. allocator_length - 1
    /\ \A i \in 0 .. MapBits - 1 : map[i] <=> i \in held

(* get_used_count and get_free_count are what their comments say, the      *)
(* number of pages in use and not in use (firstfit.h:107, 113).            *)
CountsExact ==
    /\ allocator_used_count = Cardinality(held)
    /\ allocator_free_count = allocator_length - Cardinality(held)

(* Whatever callers do, the two counters add up to the length of the       *)
(* region modulo the width of size_t: every path of alloc and free moves   *)
(* both by the same amount.                                                *)
CountsConserved == Add(allocator_free_count, allocator_used_count) = allocator_length

(* No call hands out a page that another caller still holds: the pages of  *)
(* the address range answered, not only the bits that were set.            *)
HandOutIsFresh == [][answer'.pages \cap held = {}]_vars

(* The memory behind map[] is never written (firstfit.cpp:16, 21). *)
ForeignUntouched == [][\A i \in Foreign : map'[i] = map[i]]_vars

(* alloc(_len) is safe on its own: whatever other callers did before, it   *)
(* marks only clear bits of pages of the region, as many as it was asked   *)
(* for, or leaves the bitmap alone (firstfit.cpp:64-73).                   *)
AllocMarks(len) ==
    LET marked == {i \in Bits : map'[i] # map[i]} IN
    /\ \A i \in marked : map'[i] /\ i < allocator_length
    /\ marked = {} \/ Cardinality(marked) = len
AllocTakesFreePages == [][\A len \in Lens : alloc(len) => AllocMarks(len)]_vars

(* FIRSTFIT does what ALLOCATOR promises: the constructor, alloc, alloc at *)
(* an address and free are the steps of the abstract allocator on the      *)
(* pages callers hold.  In particular alloc(_len) refuses only when no run *)
(* of _len pages is free.                                                  *)
Abstract == INSTANCE PageAllocator WITH
                Capacities <- 0 .. MapBits,
                capacity   <- allocator_length,
                taken      <- held,
                op         <- answer.op,
                granted    <- answer.pages,
                asked      <- answer.asked
Refines == Abstract!Spec
=============================================================================

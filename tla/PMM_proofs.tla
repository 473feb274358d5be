----------------------------- MODULE PMM_proofs ------------------------------
(***************************************************************************)
(* PMM keeps the pages of the kernel, of the boot information and of its   *)
(* callers apart, for every page size, kernel space, machine and sequence  *)
(* of calls.  The two allocators are two instances of FirstFit_proofs.     *)
(***************************************************************************)
EXTENDS PMM, FiniteSetTheorems, TLAPS

KP == INSTANCE FirstFit_proofs WITH
        Regions <- Nat \X Nat, Addrs <- CallAddrs,
        constructed <- k_constructed, allocator_start_addr <- k_start,
        allocator_length <- k_length, map <- k_map,
        allocator_free_count <- k_free, allocator_used_count <- k_used,
        held <- k_held
NP == INSTANCE FirstFit_proofs WITH
        Regions <- Nat \X Nat, Addrs <- CallAddrs,
        constructed <- n_constructed, allocator_start_addr <- n_start,
        allocator_length <- n_length, map <- n_map,
        allocator_free_count <- n_free, allocator_used_count <- n_used,
        held <- n_held

(* The pages in use in each space, and those an answer gives away. *)
KTaken == KP!Taken
NTaken == NP!Taken
Given(ans) == IF ans.pages = {} THEN {} ELSE PagesAt(ans.addr, ans.asked)

KFirst == KernelStart \div PageSize       \* number of the first kernel page
KCount == KernelSpace \div PageSize
NFirst == KFirst + KCount

-----------------------------------------------------------------------------
(* The operators of PMM's instances are those of the lemmas. *)
LEMMA SameK ==
    /\ K!Init <=> KP!Init
    /\ K!TypeOK <=> KP!TypeOK
    /\ K!TypeOK' <=> KP!TypeOK'
    /\ \A addr, len : K!FIRSTFIT(addr, len) <=> KP!FIRSTFIT(addr, len)
    /\ \A len : K!alloc(len) <=> KP!alloc(len)
    /\ \A addr, len : K!alloc_at(addr, len) <=> KP!alloc_at(addr, len)
    /\ \A addr, len : K!free(addr, len) <=> KP!free(addr, len)
    /\ \A addr, len : K!InsideRegion(addr, len) <=> KP!InsideRegion(addr, len)
    /\ \A addr, len : K!Claimable(addr, len) <=> KP!Claimable(addr, len)
BY Zenon DEF K!Init, KP!Init, K!TypeOK, KP!TypeOK, K!FIRSTFIT, KP!FIRSTFIT,
   K!alloc, KP!alloc, K!alloc_at, KP!alloc_at, K!free, KP!free,
   K!InsideRegion, KP!InsideRegion, K!Claimable, KP!Claimable,
   K!Bits, KP!Bits, K!Foreign, KP!Foreign, K!NoAnswer, KP!NoAnswer, K!Answer, KP!Answer,
   K!Ops, KP!Ops, K!FirstRun, KP!FirstRun, K!find_len, KP!find_len, K!RunEnds, KP!RunEnds,
   K!test, KP!test, K!NoIndex, KP!NoIndex, K!Refuse, KP!Refuse, K!Take, KP!Take,
   K!set, KP!set, K!clr, KP!clr, K!Add, KP!Add, K!Sub, KP!Sub, K!PagesOf, KP!PagesOf,
   K!IndexOf, KP!IndexOf, K!AddrOf, KP!AddrOf, K!Managed, KP!Managed, K!EndAddr, KP!EndAddr,
   K!Aligned, KP!Aligned, K!region, KP!region, K!counts, KP!counts

LEMMA SameN ==
    /\ N!Init <=> NP!Init
    /\ N!TypeOK <=> NP!TypeOK
    /\ N!TypeOK' <=> NP!TypeOK'
    /\ \A addr, len : N!FIRSTFIT(addr, len) <=> NP!FIRSTFIT(addr, len)
    /\ \A len : N!alloc(len) <=> NP!alloc(len)
    /\ \A addr, len : N!alloc_at(addr, len) <=> NP!alloc_at(addr, len)
    /\ \A addr, len : N!free(addr, len) <=> NP!free(addr, len)
    /\ \A addr, len : N!InsideRegion(addr, len) <=> NP!InsideRegion(addr, len)
BY Zenon DEF N!Init, NP!Init, N!TypeOK, NP!TypeOK, N!FIRSTFIT, NP!FIRSTFIT,
   N!alloc, NP!alloc, N!alloc_at, NP!alloc_at, N!free, NP!free,
   N!InsideRegion, NP!InsideRegion, N!Claimable, NP!Claimable,
   N!Bits, NP!Bits, N!Foreign, NP!Foreign, N!NoAnswer, NP!NoAnswer, N!Answer, NP!Answer,
   N!Ops, NP!Ops, N!FirstRun, NP!FirstRun, N!find_len, NP!find_len, N!RunEnds, NP!RunEnds,
   N!test, NP!test, N!NoIndex, NP!NoIndex, N!Refuse, NP!Refuse, N!Take, NP!Take,
   N!set, NP!set, N!clr, NP!clr, N!Add, NP!Add, N!Sub, NP!Sub, N!PagesOf, NP!PagesOf,
   N!IndexOf, NP!IndexOf, N!AddrOf, NP!AddrOf, N!Managed, NP!Managed, N!EndAddr, NP!EndAddr,
   N!Aligned, NP!Aligned, N!region, NP!region, N!counts, NP!counts

(* The assumptions of FirstFit about its constants are PMM's. *)
LEMMA SpaceAssumptions ==
    /\ SizeMod \in Nat /\ SizeMod > 1
    /\ PageSize \in Nat /\ PageSize > 0
    /\ MapBits \in Nat /\ Overrun \in Nat /\ MapBits + Overrun < SizeMod - 1
    /\ Lens \subseteq Nat /\ CallAddrs \subseteq Nat
    /\ Nat \X Nat \subseteq Nat \X Nat
BY PMMAssumption

(* Arithmetic of pages. *)
LEMMA DivMod ==
    ASSUME NEW a \in Int, NEW p \in Nat, p > 0
    PROVE  /\ a = p * (a \div p) + (a % p)
           /\ a % p \in 0 .. p - 1 /\ a \div p \in Int
BY SpaceAssumptions, KP!DivMod

LEMMA DivUnique ==
    ASSUME NEW p \in Nat, p > 0, NEW q \in Int, NEW r \in Int, 0 <= r, r < p
    PROVE  (p * q + r) \div p = q
BY SpaceAssumptions, KP!DivUnique

LEMMA PageMultiples ==
    ASSUME NEW p \in Nat, p > 0, NEW x \in Int, NEW y \in Int, x < y
    PROVE  p * x + p <= p * y
BY SpaceAssumptions, KP!PageMultiples

(* On which pages an address lies. *)
LEMMA PageRange ==
    ASSUME NEW a \in Int, NEW lo \in Int, NEW hi \in Int
    PROVE  a \div PageSize \in lo .. hi - 1 <=> PageSize * lo <= a /\ a < PageSize * hi
<1>0. PageSize \in Nat /\ PageSize > 0
  BY SpaceAssumptions
<1> DEFINE q == a \div PageSize
           r == a % PageSize
<1>1. q \in Int /\ r \in 0 .. PageSize - 1 /\ a = PageSize * q + r
  BY <1>0, DivMod
<1> HIDE DEF q, r
<1>2. q < lo => PageSize * q + PageSize <= PageSize * lo
  BY <1>0, <1>1, PageMultiples
<1>3. lo < q => PageSize * lo + PageSize <= PageSize * q
  BY <1>0, <1>1, PageMultiples
<1>4. q < hi => PageSize * q + PageSize <= PageSize * hi
  BY <1>0, <1>1, PageMultiples
<1>5. hi < q => PageSize * hi + PageSize <= PageSize * q
  BY <1>0, <1>1, PageMultiples
<1>6. PageSize * q \in Int /\ PageSize * lo \in Int /\ PageSize * hi \in Int
  BY <1>0, <1>1
<1>7. q \in lo .. hi - 1 => PageSize * lo <= a /\ a < PageSize * hi
  BY <1>0, <1>1, <1>3, <1>4, <1>6
<1>8. PageSize * lo <= a /\ a < PageSize * hi => q \in lo .. hi - 1
  BY <1>0, <1>1, <1>2, <1>5, <1>6
<1> QED BY <1>7, <1>8 DEF q

LEMMA NatPage ==
    ASSUME NEW a \in Nat
    PROVE  a \div PageSize \in Nat
<1>0. PageSize \in Nat /\ PageSize > 0
  BY SpaceAssumptions
<1> DEFINE q == a \div PageSize
           r == a % PageSize
<1>1. q \in Int /\ r \in 0 .. PageSize - 1 /\ a = PageSize * q + r
  BY <1>0, DivMod
<1> HIDE DEF q, r
<1>2. ASSUME q < 0 PROVE FALSE
  <2>1. PageSize * q + PageSize <= PageSize * 0
    BY <1>0, <1>1, <1>2, PageMultiples
  <2> QED BY <1>0, <1>1, <2>1
<1> QED BY <1>1, <1>2 DEF q

(* The pages of a run that begins on a page. *)
LEMMA PagesOfRun ==
    ASSUME NEW p \in Nat, NEW n \in Nat
    PROVE  PagesAt(PageSize * p, n) = p .. p + n - 1
<1>0. PageSize \in Nat /\ PageSize > 0
  BY SpaceAssumptions
<1>1. CASE n = 0
  BY <1>1 DEF PagesAt
<1>2. CASE n > 0
  <2>1. (PageSize * p + 0) \div PageSize = p
    BY <1>0, DivUnique
  <2>2. PageSize * p + n * PageSize - 1 = PageSize * (p + n - 1) + (PageSize - 1)
    BY <1>0
  <2>3. (PageSize * (p + n - 1) + (PageSize - 1)) \div PageSize = p + n - 1
    <3>1. p + n - 1 \in Int /\ PageSize - 1 \in Int /\ 0 <= PageSize - 1 /\ PageSize - 1 < PageSize
      BY <1>0
    <3> QED BY <1>0, <3>1, DivUnique
  <2>4. PageSize * p + 0 = PageSize * p
    BY <1>0
  <2> QED BY <1>2, <2>1, <2>2, <2>3, <2>4 DEF PagesAt
<1> QED BY <1>1, <1>2

(* Rounding up to pages. *)
LEMMA RoundUp ==
    ASSUME NEW x \in Nat
    PROVE  LET q == (x + PageSize - 1) \div PageSize IN
           /\ q \in Nat
           /\ ALIGN(x, PageSize) = PageSize * q
           /\ x <= PageSize * q /\ PageSize * q < x + PageSize
           /\ x > 0 => q > 0
<1> DEFINE q == (x + PageSize - 1) \div PageSize
<1>0. PageSize \in Nat /\ PageSize > 0 /\ x + PageSize - 1 \in Int
  BY SpaceAssumptions
<1>1. /\ q \in Int /\ (x + PageSize - 1) % PageSize \in 0 .. PageSize - 1
      /\ x + PageSize - 1 = PageSize * q + ((x + PageSize - 1) % PageSize)
  BY <1>0, DivMod
<1>2. ALIGN(x, PageSize) = PageSize * q
  BY <1>0, <1>1 DEF ALIGN
<1> HIDE DEF q
<1>3. x <= PageSize * q /\ PageSize * q < x + PageSize /\ PageSize * q \in Int
  BY <1>0, <1>1
<1>4. ASSUME q < 0 PROVE FALSE
  <2>1. PageSize * q + PageSize <= PageSize * 0
    BY <1>0, <1>1, <1>4, PageMultiples
  <2> QED BY <1>0, <1>3, <2>1
<1>5. ASSUME q = 0, x > 0 PROVE FALSE
  BY <1>0, <1>3, <1>5
<1> QED BY <1>1, <1>2, <1>3, <1>4, <1>5 DEF q

(* The two spaces in pages. *)
LEMMA SpacesInPages ==
    /\ KFirst \in Nat /\ KernelStart = PageSize * KFirst
    /\ KCount \in Nat /\ KernelSpace = PageSize * KCount /\ KCount <= MapBits
    /\ NFirst \in Nat /\ KernelStart + KernelSpace = PageSize * NFirst
    /\ (KernelStart + KernelSpace) % PageSize = 0
    /\ (KernelStart + KernelSpace) \div PageSize = NFirst
<1>0. PageSize \in Nat /\ PageSize > 0
  BY SpaceAssumptions
<1>1. ASSUME NEW x \in Nat, x % PageSize = 0
      PROVE  x \div PageSize \in Nat /\ x = PageSize * (x \div PageSize)
  <2> DEFINE q == x \div PageSize
  <2>1. q \in Int /\ x = PageSize * q
    BY <1>0, <1>1, DivMod
  <2> HIDE DEF q
  <2>2. ASSUME q < 0 PROVE FALSE
    <3>1. PageSize * q + PageSize <= PageSize * 0
      BY <1>0, <2>1, <2>2, PageMultiples
    <3> QED BY <1>0, <2>1, <3>1
  <2> QED BY <2>1, <2>2 DEF q
<1>2. KFirst \in Nat /\ KernelStart = PageSize * KFirst
  BY <1>1, PMMAssumption DEF KFirst
<1>3. KCount \in Nat /\ KernelSpace = PageSize * KCount /\ KCount <= MapBits
  BY <1>1, PMMAssumption DEF KCount
<1>4. NFirst \in Nat /\ KernelStart + KernelSpace = PageSize * NFirst + 0
  BY <1>0, <1>2, <1>3 DEF NFirst
<1>5. (KernelStart + KernelSpace) \div PageSize = NFirst
  BY <1>0, <1>4, DivUnique
<1>6. (KernelStart + KernelSpace) % PageSize = 0
  <2>1. KernelStart + KernelSpace \in Int
    BY PMMAssumption
  <2>2. /\ KernelStart + KernelSpace = PageSize * NFirst + ((KernelStart + KernelSpace) % PageSize)
        /\ (KernelStart + KernelSpace) % PageSize \in 0 .. PageSize - 1
    BY <1>0, <1>5, <2>1, DivMod
  <2> DEFINE r == (KernelStart + KernelSpace) % PageSize
             t == KernelStart + KernelSpace
             u == PageSize * NFirst
  <2>3. t = u + 0 /\ t = u + r /\ u \in Int /\ r \in Int
    BY <1>0, <1>4, <2>2
  <2> HIDE DEF r, t, u
  <2>4. r = 0
    BY <2>3
  <2> QED BY <2>4 DEF r
<1> QED BY <1>0, <1>2, <1>3, <1>4, <1>5, <1>6

(* The pages of the kernel image, and that they and the pages of a boot    *)
(* information of an accepted size fit the kernel space.                   *)
LEMMA KernelAndInfoFit ==
    ASSUME machine \in Machines
    PROVE  /\ kernel_pages \in Nat /\ kernel_pages > 0 /\ kernel_pages <= KCount
           /\ ALIGN(machine.kernel_end, PageSize) = PageSize * (KFirst + kernel_pages)
           /\ machine.kernel_end <= PageSize * (KFirst + kernel_pages)
           /\ \A size \in MinSize .. MaxSize :
                 LET n == (size + PageSize - 1) \div PageSize IN
                 n \in Nat /\ n > 0 /\ kernel_pages + n <= KCount /\ size <= PageSize * n
<1>0. PageSize \in Nat /\ PageSize > 0
  BY SpaceAssumptions
<1>1. /\ KFirst \in Nat /\ KernelStart = PageSize * KFirst
      /\ KCount \in Nat /\ KernelStart + KernelSpace = PageSize * (KFirst + KCount)
      /\ KernelStart \in Nat /\ KernelSpace \in Nat
  BY SpacesInPages, PMMAssumption DEF NFirst
<1>2. /\ machine.kernel_end \in KernelStart + 1 .. KernelStart + KernelSpace
      /\ ALIGN(machine.kernel_end, PageSize) + ALIGN(MaxSize, PageSize)
               <= KernelStart + KernelSpace
  BY MachinesAssumption
<1>3. machine.kernel_end \in Nat /\ MaxSize \in Nat /\ MinSize \in Nat /\ MinSize > 0
  BY <1>1, <1>2, BootInfoAssumption
<1> DEFINE qe == (machine.kernel_end + PageSize - 1) \div PageSize
           qm == (MaxSize + PageSize - 1) \div PageSize
<1>4. /\ qe \in Nat /\ ALIGN(machine.kernel_end, PageSize) = PageSize * qe
      /\ machine.kernel_end <= PageSize * qe /\ PageSize * qe < machine.kernel_end + PageSize
  BY <1>3, RoundUp
<1>5. qm \in Nat /\ ALIGN(MaxSize, PageSize) = PageSize * qm /\ MaxSize <= PageSize * qm
  BY <1>3, RoundUp
<1>6. ALIGN(KernelStart, PageSize) = PageSize * KFirst
  <2>1. KernelStart + PageSize - 1 = PageSize * KFirst + (PageSize - 1)
    BY <1>0, <1>1
  <2>2. (PageSize * KFirst + (PageSize - 1)) \div PageSize = KFirst
    <3>1. KFirst \in Int /\ PageSize - 1 \in Int /\ 0 <= PageSize - 1 /\ PageSize - 1 < PageSize
      BY <1>0, <1>1
    <3> QED BY <1>0, <3>1, DivUnique
  <2>3. (KernelStart + PageSize - 1) \div PageSize = KFirst
    BY <2>1, <2>2, Zenon
  <2> QED BY <1>0, <1>1, <2>3 DEF ALIGN
<1> HIDE DEF qe, qm
<1>7. kernel_pages = qe - KFirst
  <2>1. PageSize * qe - PageSize * KFirst = PageSize * (qe - KFirst) + 0
    BY <1>0, <1>1, <1>4
  <2>2. (PageSize * (qe - KFirst) + 0) \div PageSize = qe - KFirst
    BY <1>0, <1>1, <1>4, DivUnique
  <2> QED BY <1>4, <1>6, <2>1, <2>2 DEF kernel_pages
<1>8. qe > KFirst
  <2>1. CASE qe = KFirst
    BY <1>0, <1>1, <1>2, <1>4, <2>1
  <2>2. CASE qe < KFirst
    <3>1. PageSize * qe + PageSize <= PageSize * KFirst
      BY <1>0, <1>1, <1>4, <2>2, PageMultiples
    <3> QED BY <1>0, <1>1, <1>2, <1>4, <3>1
  <2> QED BY <1>1, <1>4, <2>1, <2>2
<1>9. qe + qm <= KFirst + KCount
  <2>1. PageSize * (qe + qm) <= PageSize * (KFirst + KCount)
    BY <1>0, <1>1, <1>2, <1>4, <1>5
  <2>2. CASE KFirst + KCount < qe + qm
    <3>1. PageSize * (KFirst + KCount) + PageSize <= PageSize * (qe + qm)
      BY <1>0, <1>1, <1>4, <1>5, <2>2, PageMultiples
    <3>2. PageSize * (KFirst + KCount) \in Int /\ PageSize * (qe + qm) \in Int
      BY <1>0, <1>1, <1>4, <1>5
    <3> QED BY <1>0, <2>1, <3>1, <3>2
  <2> QED BY <1>1, <1>4, <1>5, <2>2
<1>10. ASSUME NEW size \in MinSize .. MaxSize
       PROVE  LET n == (size + PageSize - 1) \div PageSize IN
              n \in Nat /\ n > 0 /\ kernel_pages + n <= KCount /\ size <= PageSize * n
  <2> DEFINE n == (size + PageSize - 1) \div PageSize
  <2>0. size \in Nat /\ size > 0 /\ size <= MaxSize
    BY <1>3
  <2>1. n \in Nat /\ size <= PageSize * n /\ PageSize * n < size + PageSize /\ n > 0
    BY <2>0, RoundUp
  <2> HIDE DEF n
  <2>2. n <= qm
    <3>1. CASE qm < n
      <4>1. PageSize * qm + PageSize <= PageSize * n
        BY <1>0, <1>5, <2>1, <3>1, PageMultiples
      <4> QED BY <1>0, <1>3, <1>5, <2>0, <2>1, <4>1
    <3> QED BY <1>5, <2>1, <3>1
  <2>3. kernel_pages + n <= KCount
    BY <1>1, <1>4, <1>5, <1>7, <1>9, <2>1, <2>2
  <2> QED BY <2>1, <2>3 DEF n
<1>11. KFirst + kernel_pages = qe /\ kernel_pages \in Nat /\ kernel_pages > 0
       /\ kernel_pages <= KCount
  BY <1>1, <1>4, <1>5, <1>7, <1>8, <1>9
<1> QED BY <1>4, <1>10, <1>11

-----------------------------------------------------------------------------
(***************************************************************************)
(* The inductive invariant.  Each space keeps the invariant of its         *)
(* allocator and lies where PMM::init put it, the pages marked in the two  *)
(* are the kernel's and the callers', and while PMM::init runs, the pages  *)
(* it has taken so far and the state of the boot information are known     *)
(* exactly: that the copy is not made over the kernel depends on it.       *)
(***************************************************************************)
Image == PagesAt(KernelStart, kernel_pages)

SpacesInv ==
    /\ KP!SpaceInv /\ NP!SpaceInv
    /\ pc \in {"boot_info", "pmm_init"} => ~k_constructed /\ ~n_constructed
    /\ pc \in {"reserve", "move_boot_info", "copy", "ready"} =>
          /\ k_start = KernelStart /\ k_length = KCount
          /\ n_start = KernelStart + KernelSpace
          /\ n_length = InPages(non_kernel_space_length)

OwnersInv ==
    /\ KTaken \cup NTaken = own \cup owned
    /\ own \cap owned = {} /\ own \subseteq KTaken

ImageInv ==
    /\ pc = "reserve" => k_held = {}
    /\ pc = "move_boot_info" => k_held = 0 .. kernel_pages - 1
    /\ pc \in {"move_boot_info", "copy", "ready"} => Image \subseteq own

(* The boot information lies at addr, as far as there is memory. *)
LiesAt(m, addr, size) ==
    \A k \in 0 .. size - 1 : addr + k \in 0 .. MemEnd - 1 => m[addr + k] = k

InfoLoaded ==
    /\ boot_info_addr = machine.info_addr /\ info_size = machine.info_size
    /\ LiesAt(mem, boot_info_addr, info_size)

InfoInv ==
    /\ pc \in {"boot_info", "pmm_init", "reserve", "move_boot_info", "copy"} => InfoLoaded
    /\ pc \in {"pmm_init", "reserve", "move_boot_info", "copy"} =>
          boot_info_size = info_size /\ info_size \in MinSize .. MaxSize
    /\ pc = "copy" => /\ answer.addr = PageSize * (KFirst + kernel_pages)
                      /\ PagesAt(answer.addr, info_pages) \subseteq own \ Image
    /\ pc = "ready" => PagesAt(boot_info_addr, info_pages) \subseteq own \ Image

IInv == TypeOK /\ SpacesInv /\ OwnersInv /\ ImageInv /\ InfoInv

-----------------------------------------------------------------------------
(* What the invariant says of the page numbers. *)

LEMMA SameGiven == \A ans : KP!Given(ans) = Given(ans) /\ NP!Given(ans) = Given(ans)
BY Zenon DEF KP!Given, NP!Given, KP!PhysAt, NP!PhysAt, Given, PagesAt

LEMMA SameAt ==
    \A addr, n : KP!PhysAt(addr, n) = PagesAt(addr, n) /\ NP!PhysAt(addr, n) = PagesAt(addr, n)
BY Zenon DEF KP!PhysAt, NP!PhysAt, PagesAt

(* The pages of each space have their own numbers, before and after a call.*)
LEMMA Apart ==
    ASSUME SpacesInv, Ready
    PROVE  /\ KP!Base = KFirst /\ KTaken \subseteq KFirst .. NFirst - 1
           /\ NP!Base = NFirst /\ NTaken \subseteq NFirst .. NFirst + n_length - 1
           /\ KTaken \cap NTaken = {}
<1>1. /\ k_start = KernelStart /\ k_length = KCount
      /\ n_start = KernelStart + KernelSpace
      /\ KP!SpaceInv /\ NP!SpaceInv
  BY DEF SpacesInv, Ready
<1>2. /\ k_held \subseteq 0 .. k_length - 1 /\ n_held \subseteq 0 .. n_length - 1
      /\ n_length \in Nat
  <2>1. n_length \in 0 .. MapBits + Overrun
    BY <1>1 DEF NP!SpaceInv, NP!IInv, NP!TypeOK
  <2> QED BY <1>1, <2>1, SpaceAssumptions
      DEF KP!SpaceInv, NP!SpaceInv, KP!IInv, NP!IInv, KP!MapTellsHeld, NP!MapTellsHeld
<1>3. KP!Base = KFirst /\ NP!Base = NFirst /\ KFirst \in Nat /\ NFirst \in Nat /\ KCount \in Nat
      /\ NFirst = KFirst + KCount
  BY <1>1, SpacesInPages DEF KP!Base, NP!Base, KFirst, NFirst
<1>4. KTaken \subseteq KFirst .. NFirst - 1
  BY <1>1, <1>2, <1>3 DEF KTaken, KP!Taken
<1>5. NTaken \subseteq NFirst .. NFirst + n_length - 1
  BY <1>2, <1>3 DEF NTaken, NP!Taken
<1>6. \A x : ~(x \in KFirst .. NFirst - 1 /\ x \in NFirst .. NFirst + n_length - 1)
  BY <1>2, <1>3
<1> QED BY <1>3, <1>4, <1>5, <1>6

LEMMA NKept ==
    ASSUME NP!SpaceInv, KP!SpaceInv', UNCHANGED n_vars
    PROVE  NP!SpaceInv' /\ NTaken' = NTaken
<1>1. answer' \in [op : KP!Ops, asked : Nat, addr : Nat, pages : SUBSET Nat]
  BY DEF KP!SpaceInv, KP!IInv, KP!TypeOK
<1>2. NP!Ops = KP!Ops
  BY DEF NP!Ops, KP!Ops
<1>3. UNCHANGED <<n_constructed, n_start, n_length, n_map, n_free, n_used, n_held>>
  BY DEF n_vars
<1> QED BY <1>1, <1>2, <1>3, Zenon
    DEF NP!SpaceInv, NP!IInv, NP!TypeOK, NP!RegionFits, NP!MapTellsHeld, NP!CountsExact,
        NP!Bits, NTaken, NP!Taken, NP!Base

LEMMA KKept ==
    ASSUME KP!SpaceInv, NP!SpaceInv', UNCHANGED k_vars
    PROVE  KP!SpaceInv' /\ KTaken' = KTaken
<1>1. answer' \in [op : NP!Ops, asked : Nat, addr : Nat, pages : SUBSET Nat]
  BY DEF NP!SpaceInv, NP!IInv, NP!TypeOK
<1>2. NP!Ops = KP!Ops
  BY DEF NP!Ops, KP!Ops
<1>3. UNCHANGED <<k_constructed, k_start, k_length, k_map, k_free, k_used, k_held>>
  BY DEF k_vars
<1> QED BY <1>1, <1>2, <1>3, Zenon
    DEF KP!SpaceInv, KP!IInv, KP!TypeOK, KP!RegionFits, KP!MapTellsHeld, KP!CountsExact,
        KP!Bits, KTaken, KP!Taken, KP!Base

(* A call that leaves everything but one allocator and the callers alone. *)
Fresh == Ready /\ answer'.pages # {} => Given(answer') \cap (owned \cup own) = {}

CallFrame ==
    /\ UNCHANGED <<pc, machine, i_vars, p_vars, own>>
    /\ UNCHANGED <<k_start, k_length, n_start, n_length>>

LEMMA CallKeeps ==
    ASSUME IInv, Ready, CallFrame, KP!SpaceInv', NP!SpaceInv', OwnersInv', owned' \subseteq Nat
    PROVE  IInv'
<1>1. /\ UNCHANGED <<machine, boot_info_addr, boot_info_size, multiboot2_magic, inited,
                     mem, info_size, length, non_kernel_space_length, own>>
      /\ pc = "ready" /\ pc' = "ready"
      /\ UNCHANGED <<k_start, k_length, n_start, n_length>>
  BY DEF CallFrame, i_vars, boot_vars, p_vars, Ready
<1>2. TypeOK'
  <2>1. K!TypeOK' /\ N!TypeOK'
    <3>1. KP!TypeOK' /\ NP!TypeOK'
      BY DEF KP!SpaceInv, NP!SpaceInv, KP!IInv, NP!IInv
    <3> QED BY <3>1, SameK, SameN
  <2>2. TypeOK
    BY DEF IInv
  <2> QED BY <1>1, <2>1, <2>2, Zenon DEF TypeOK
<1>3. SpacesInv'
  BY <1>1 DEF IInv, SpacesInv, InPages
<1>4. ImageInv'
  <2>1. Image' = Image
    BY <1>1 DEF Image, kernel_pages, PagesAt
  <2> QED BY <1>1, <2>1 DEF IInv, ImageInv
<1>5. InfoInv'
  <2>1. Image' = Image
    BY <1>1 DEF Image, kernel_pages, PagesAt
  <2>2. PagesAt(boot_info_addr, info_pages)' = PagesAt(boot_info_addr, info_pages)
    BY <1>1 DEF PagesAt, info_pages
  <2> QED BY <1>1, <2>1, <2>2 DEF IInv, InfoInv
<1> QED BY <1>2, <1>3, <1>4, <1>5 DEF IInv

(* Page numbers are natural numbers. *)
LEMMA KNatTaken ==
    ASSUME KP!SpaceInv'
    PROVE  KTaken' \subseteq Nat
<1>1. k_held' \subseteq Nat /\ k_start' \in Nat /\ PageSize \in Nat /\ PageSize > 0
  BY SpaceAssumptions DEF KP!SpaceInv, KP!IInv, KP!TypeOK
<1>2. k_start' \div PageSize \in Nat
  BY <1>1, NatPage
<1> QED BY <1>1, <1>2 DEF KTaken, KP!Taken, KP!Base

LEMMA NNatTaken ==
    ASSUME NP!SpaceInv'
    PROVE  NTaken' \subseteq Nat
<1>1. n_held' \subseteq Nat /\ n_start' \in Nat /\ PageSize \in Nat /\ PageSize > 0
  BY SpaceAssumptions DEF NP!SpaceInv, NP!IInv, NP!TypeOK
<1>2. n_start' \div PageSize \in Nat
  BY <1>1, NatPage
<1> QED BY <1>1, <1>2 DEF NTaken, NP!Taken, NP!Base

(* A call that hands out new pages of the kernel space. *)
LEMMA KGrants ==
    ASSUME IInv, Ready, Granted, OnK, KP!SpaceInv',
           KP!Taken' = KP!Taken \cup KP!Given(answer'),
           KP!Given(answer') \cap KP!Taken = {},
           UNCHANGED <<k_start, k_length>>
    PROVE  IInv' /\ Fresh
<1> DEFINE G == Given(answer')
<1>0. SpacesInv /\ OwnersInv
  BY DEF IInv
<1>1. KTaken' = KTaken \cup G /\ G \cap KTaken = {} /\ owned' = owned \cup G /\ own' = own
  BY SameGiven DEF KTaken, Granted, OnK, Given
<1>2. UNCHANGED n_vars /\ NP!SpaceInv
  BY <1>0 DEF OnK, SpacesInv
<1>3. NP!SpaceInv' /\ NTaken' = NTaken
  BY <1>2, NKept
<1>4. CallFrame
  BY <1>2 DEF OnK, CallFrame, n_vars
<1>5. SpacesInv' /\ Ready'
  BY <1>0, <1>3, <1>4 DEF CallFrame, SpacesInv, p_vars, Ready, InPages
<1>6. KTaken' \cap NTaken = {}
  <2>1. KTaken' \subseteq KFirst .. NFirst - 1
    <3>1. k_held' \subseteq 0 .. k_length' - 1 /\ k_start' = k_start /\ k_length' = k_length
      BY DEF KP!SpaceInv, KP!IInv, KP!MapTellsHeld
    <3>2. KP!Base' = KFirst
      BY <1>0, <3>1, Apart DEF KP!Base
    <3>3. k_length = KCount /\ KCount \in Nat /\ KFirst \in Nat /\ NFirst = KFirst + KCount
      BY <1>0, SpacesInPages DEF SpacesInv, Ready, NFirst
    <3>4. n_length \in Nat
      <4>1. n_length \in 0 .. MapBits + Overrun
        BY <1>0 DEF SpacesInv, NP!SpaceInv, NP!IInv, NP!TypeOK
      <4> QED BY <4>1, SpaceAssumptions
    <3> QED BY <3>1, <3>2, <3>3, <3>4 DEF KTaken, KP!Taken
  <2>2. NTaken \subseteq NFirst .. NFirst + n_length - 1
    BY <1>0, Apart
  <2>3. \A x : ~(x \in KFirst .. NFirst - 1 /\ x \in NFirst .. NFirst + n_length - 1)
    <3>1. KFirst \in Int /\ NFirst \in Int
      BY SpacesInPages
    <3>2. n_length \in 0 .. MapBits + Overrun
      BY <1>0 DEF SpacesInv, NP!SpaceInv, NP!IInv, NP!TypeOK
    <3> QED BY <3>1, <3>2, SpaceAssumptions
  <2> QED BY <2>1, <2>2, <2>3
<1> HIDE DEF G
<1>7. G \cap (owned \cup own) = {}
  BY <1>0, <1>1, <1>6 DEF OwnersInv
<1>8. OwnersInv'
  BY <1>0, <1>1, <1>3, <1>7 DEF OwnersInv
<1>9. owned' \subseteq Nat
  <2>1. KTaken' \subseteq Nat
    BY KNatTaken
  <2> QED BY <1>1, <2>1 DEF IInv, TypeOK
<1>10. IInv'
  BY <1>3, <1>4, <1>8, <1>9, CallKeeps
<1> QED BY <1>7, <1>10 DEF Fresh, G

(* A call that hands out new pages of the non-kernel space. *)
LEMMA NGrants ==
    ASSUME IInv, Ready, Granted, OnN, NP!SpaceInv',
           NP!Taken' = NP!Taken \cup NP!Given(answer'),
           NP!Given(answer') \cap NP!Taken = {},
           UNCHANGED <<n_start, n_length>>
    PROVE  IInv' /\ Fresh
<1> DEFINE G == Given(answer')
<1>0. SpacesInv /\ OwnersInv
  BY DEF IInv
<1>1. NTaken' = NTaken \cup G /\ G \cap NTaken = {} /\ owned' = owned \cup G /\ own' = own
  BY SameGiven DEF NTaken, Granted, OnN, Given
<1>2. UNCHANGED k_vars /\ KP!SpaceInv
  BY <1>0 DEF OnN, SpacesInv
<1>3. KP!SpaceInv' /\ KTaken' = KTaken
  BY <1>2, KKept
<1>4. CallFrame
  BY <1>2 DEF OnN, CallFrame, k_vars
<1>5. SpacesInv' /\ Ready'
  BY <1>0, <1>3, <1>4 DEF CallFrame, SpacesInv, p_vars, Ready, InPages
<1>6. NTaken' \cap KTaken = {}
  <2>1. NTaken' \subseteq NFirst .. NFirst + n_length - 1
    <3>1. n_held' \subseteq 0 .. n_length' - 1 /\ n_start' = n_start /\ n_length' = n_length
      BY DEF NP!SpaceInv, NP!IInv, NP!MapTellsHeld
    <3>2. NP!Base' = NFirst
      BY <1>0, <3>1, Apart DEF NP!Base
    <3>3. k_length = KCount /\ KCount \in Nat /\ KFirst \in Nat /\ NFirst = KFirst + KCount
      BY <1>0, SpacesInPages DEF SpacesInv, Ready, NFirst
    <3>4. n_length \in Nat
      <4>1. n_length \in 0 .. MapBits + Overrun
        BY <1>0 DEF SpacesInv, NP!SpaceInv, NP!IInv, NP!TypeOK
      <4> QED BY <4>1, SpaceAssumptions
    <3> QED BY <3>1, <3>2, <3>3, <3>4 DEF NTaken, NP!Taken
  <2>2. KTaken \subseteq KFirst .. NFirst - 1
    BY <1>0, Apart
  <2>3. \A x : ~(x \in KFirst .. NFirst - 1 /\ x \in NFirst .. NFirst + n_length - 1)
    <3>1. KFirst \in Int /\ NFirst \in Int
      BY SpacesInPages
    <3>2. n_length \in 0 .. MapBits + Overrun
      BY <1>0 DEF SpacesInv, NP!SpaceInv, NP!IInv, NP!TypeOK
    <3> QED BY <3>1, <3>2, SpaceAssumptions
  <2> QED BY <2>1, <2>2, <2>3
<1> HIDE DEF G
<1>7. G \cap (owned \cup own) = {}
  BY <1>0, <1>1, <1>6 DEF OwnersInv
<1>8. OwnersInv'
  BY <1>0, <1>1, <1>3, <1>7 DEF OwnersInv
<1>9. owned' \subseteq Nat
  <2>1. NTaken' \subseteq Nat
    BY NNatTaken
  <2> QED BY <1>1, <2>1 DEF IInv, TypeOK
<1>10. IInv'
  BY <1>3, <1>4, <1>8, <1>9, CallKeeps
<1> QED BY <1>7, <1>10 DEF Fresh, G

(* The calls that hand out pages. *)
LEMMA AllocKeeps ==
    ASSUME IInv, NEW len \in Nat, alloc_pages(len) \/ alloc_pages_kernel(len)
    PROVE  IInv' /\ Fresh
<1>0. KP!SpaceInv /\ NP!SpaceInv
  BY DEF IInv, SpacesInv
<1>1. CASE alloc_pages(len)
  <2>1. NP!alloc(len) /\ Ready /\ Granted /\ OnN
    BY <1>1, SameN DEF alloc_pages
  <2>2. /\ NP!SpaceInv' /\ NP!Taken' = NP!Taken \cup NP!Given(answer')
        /\ NP!Given(answer') \cap NP!Taken = {}
        /\ UNCHANGED <<n_start, n_length>>
    BY <1>0, <2>1, NP!AllocSpace, SpaceAssumptions
  <2> QED BY <2>1, <2>2, NGrants
<1>2. CASE alloc_pages_kernel(len)
  <2>1. KP!alloc(len) /\ Ready /\ Granted /\ OnK
    BY <1>2, SameK DEF alloc_pages_kernel
  <2>2. /\ KP!SpaceInv' /\ KP!Taken' = KP!Taken \cup KP!Given(answer')
        /\ KP!Given(answer') \cap KP!Taken = {}
        /\ UNCHANGED <<k_start, k_length>>
    BY <1>0, <2>1, KP!AllocSpace, SpaceAssumptions
  <2> QED BY <2>1, <2>2, KGrants
<1> QED BY <1>1, <1>2

LEMMA AllocAtKeeps ==
    ASSUME IInv, NEW addr \in Nat, NEW len \in Nat, OneSpace(addr, len),
           alloc_pages_at(addr, len) \/ alloc_pages_kernel_at(addr, len)
    PROVE  IInv' /\ Fresh
<1>0. KP!SpaceInv /\ NP!SpaceInv /\ KP!InsideRegion(addr, len) /\ NP!InsideRegion(addr, len)
  BY SameK, SameN DEF IInv, SpacesInv, OneSpace
<1>1. CASE alloc_pages_at(addr, len)
  <2>1. NP!alloc_at(addr, len) /\ Ready /\ Granted /\ OnN
    BY <1>1, SameN DEF alloc_pages_at
  <2>2. /\ NP!SpaceInv' /\ NP!Taken' = NP!Taken \cup NP!Given(answer')
        /\ NP!Given(answer') \cap NP!Taken = {}
        /\ UNCHANGED <<n_start, n_length>>
    BY <1>0, <2>1, NP!AllocAtSpace, SpaceAssumptions
  <2> QED BY <2>1, <2>2, NGrants
<1>2. CASE alloc_pages_kernel_at(addr, len)
  <2>1. KP!alloc_at(addr, len) /\ Ready /\ Granted /\ OnK
    BY <1>2, SameK DEF alloc_pages_kernel_at
  <2>2. /\ KP!SpaceInv' /\ KP!Taken' = KP!Taken \cup KP!Given(answer')
        /\ KP!Given(answer') \cap KP!Taken = {}
        /\ UNCHANGED <<k_start, k_length>>
    BY <1>0, <2>1, KP!AllocAtSpace, SpaceAssumptions
  <2> QED BY <2>1, <2>2, KGrants
<1> QED BY <1>1, <1>2

(* A page in use lies in one of the spaces: an address outside both is on  *)
(* no caller's page, and so is one behind the last whole page of memory.   *)
LEMMA OwnedInside ==
    ASSUME IInv, Ready, NEW addr \in Nat, addr \div PageSize \in owned
    PROVE  \/ InKernelSpace(addr)
           \/ ~InKernelSpace(addr) /\ InNonKernelSpace(addr) /\ NP!Managed(addr)
<1>0. PageSize \in Nat /\ PageSize > 0 /\ n_length \in Nat /\ KCount \in Nat /\ KFirst \in Nat
      /\ NFirst = KFirst + KCount
      /\ KernelStart = PageSize * KFirst /\ KernelStart + KernelSpace = PageSize * NFirst
  <2>1. n_length \in 0 .. MapBits + Overrun
    BY DEF IInv, SpacesInv, NP!SpaceInv, NP!IInv, NP!TypeOK
  <2> QED BY <2>1, SpaceAssumptions, SpacesInPages DEF NFirst
<1>1. n_start = PageSize * NFirst /\ n_length = non_kernel_space_length \div PageSize
      /\ non_kernel_space_length \in Nat
  <2>1. n_start = KernelStart + KernelSpace /\ n_length = non_kernel_space_length \div PageSize
    BY DEF IInv, SpacesInv, Ready, InPages
  <2>2. non_kernel_space_length \in 0 .. SizeMod - 1
    BY DEF IInv, TypeOK
  <2> QED BY <1>0, <2>1, <2>2, SpaceAssumptions
<1>2. \/ addr \div PageSize \in KFirst .. NFirst - 1
      \/ addr \div PageSize \in NFirst .. (NFirst + n_length) - 1
  <2>1. addr \div PageSize \in KTaken \cup NTaken
    BY DEF IInv, OwnersInv
  <2>2. KTaken \subseteq KFirst .. NFirst - 1 /\ NTaken \subseteq NFirst .. NFirst + n_length - 1
    BY Apart DEF IInv
  <2>3. NFirst .. (NFirst + n_length) - 1 = NFirst .. NFirst + n_length - 1
    BY <1>0
  <2> QED BY <2>1, <2>2, <2>3, Zenon
<1>3. CASE addr \div PageSize \in KFirst .. NFirst - 1
  <2>1. PageSize * KFirst <= addr /\ addr < PageSize * NFirst
    BY <1>0, <1>3, PageRange
  <2> QED BY <1>0, <2>1
      DEF InKernelSpace, kernel_space_start, kernel_space_length
<1>4. CASE addr \div PageSize \in NFirst .. (NFirst + n_length) - 1
  <2>1. PageSize * NFirst <= addr /\ addr < PageSize * (NFirst + n_length)
    BY <1>0, <1>4, PageRange
  <2>2. PageSize * n_length <= non_kernel_space_length
    <3> DEFINE r == non_kernel_space_length % PageSize
    <3>1. non_kernel_space_length = PageSize * n_length + r /\ r \in 0 .. PageSize - 1
      BY <1>0, <1>1, DivMod
    <3> HIDE DEF r
    <3>2. PageSize * n_length \in Int
      BY <1>0
    <3> QED BY <1>0, <1>1, <3>1, <3>2
  <2>3. /\ PageSize * (NFirst + n_length) = PageSize * NFirst + PageSize * n_length
        /\ n_length * PageSize = PageSize * n_length
        /\ PageSize * NFirst \in Int /\ PageSize * n_length \in Int
    BY <1>0
  <2>4. ~InKernelSpace(addr)
    BY <1>0, <2>1, <2>3 DEF InKernelSpace, kernel_space_start, kernel_space_length
  <2>5. InNonKernelSpace(addr)
    BY <1>0, <1>1, <2>1, <2>2, <2>3 DEF InNonKernelSpace, non_kernel_space_start
  <2>6. NP!Managed(addr)
    BY <1>0, <1>1, <2>1, <2>2, <2>3 DEF NP!Managed, NP!EndAddr
  <2> QED BY <2>4, <2>5, <2>6
<1> QED BY <1>2, <1>3, <1>4

LEMMA Disjoint ==
    ASSUME SpacesInv
    PROVE  \A x : ~(x \in KFirst .. NFirst - 1 /\ x \in NFirst .. NFirst + n_length - 1)
<1>1. KFirst \in Int /\ NFirst \in Int
  BY SpacesInPages
<1>2. n_length \in 0 .. MapBits + Overrun
  BY DEF SpacesInv, NP!SpaceInv, NP!IInv, NP!TypeOK
<1> QED BY <1>1, <1>2, SpaceAssumptions

(* A free that is ignored. *)
LEMMA NothingFreed ==
    ASSUME KP!SpaceInv, NP!SpaceInv, UNCHANGED <<k_vars, n_vars>>,
           answer' = [op |-> "free", asked |-> 0, addr |-> 0, pages |-> {}]
    PROVE  KP!SpaceInv' /\ NP!SpaceInv' /\ KTaken' = KTaken /\ NTaken' = NTaken
<1>1. answer' \in [op : KP!Ops, asked : Nat, addr : Nat, pages : SUBSET Nat]
  BY DEF KP!Ops
<1>2. UNCHANGED <<k_constructed, k_start, k_length, k_map, k_free, k_used, k_held>>
  BY DEF k_vars
<1>3. KP!SpaceInv'
  BY <1>1, <1>2, Zenon
     DEF KP!SpaceInv, KP!IInv, KP!TypeOK, KP!RegionFits, KP!MapTellsHeld, KP!CountsExact, KP!Bits
<1>4. NP!SpaceInv' /\ NTaken' = NTaken
  BY <1>3, NKept
<1> QED BY <1>2, <1>3, <1>4 DEF KTaken, KP!Taken, KP!Base

(* A run inside the region of its allocator, in page numbers. *)
LEMMA KRunInside ==
    ASSUME IInv, Ready, NEW addr \in Nat, NEW len \in Nat,
           KP!Managed(addr), KP!InsideRegion(addr, len)
    PROVE  PagesAt(addr, len) \subseteq KFirst .. NFirst - 1
<1>0. KP!SpaceInv /\ KP!TypeOK /\ KP!Base = KFirst /\ k_length = KCount
  BY Apart DEF IInv, SpacesInv, Ready, KP!SpaceInv, KP!IInv
<1> DEFINE idx == KP!IndexOf(addr)
<1>1. idx \in 0 .. k_length - 1 /\ addr = KP!AddrOf(idx) /\ idx + len <= k_length
  BY <1>0, KP!AlignedAddr, SpaceAssumptions DEF KP!InsideRegion
<1> HIDE DEF idx
<1>2. idx \in Nat /\ KFirst \in Nat /\ KCount \in Nat /\ NFirst = KFirst + KCount
  BY <1>0, <1>1, SpacesInPages DEF NFirst
<1>3. PagesAt(addr, len) = {KFirst + i : i \in idx .. idx + len - 1}
  <2>1. KP!PhysAt(KP!AddrOf(idx), len) = {KP!Base + i : i \in idx .. idx + len - 1}
    BY <1>0, <1>2, KP!RunAt, SpaceAssumptions
  <2> QED BY <1>0, <1>1, <2>1, SameAt
<1> QED BY <1>0, <1>1, <1>2, <1>3

LEMMA NRunInside ==
    ASSUME IInv, Ready, NEW addr \in Nat, NEW len \in Nat,
           NP!Managed(addr), NP!InsideRegion(addr, len)
    PROVE  PagesAt(addr, len) \subseteq NFirst .. NFirst + n_length - 1
<1>0. NP!SpaceInv /\ NP!TypeOK /\ NP!Base = NFirst
  BY Apart DEF IInv, SpacesInv, Ready, NP!SpaceInv, NP!IInv
<1> DEFINE idx == NP!IndexOf(addr)
<1>1. idx \in 0 .. n_length - 1 /\ addr = NP!AddrOf(idx) /\ idx + len <= n_length
  BY <1>0, NP!AlignedAddr, SpaceAssumptions DEF NP!InsideRegion
<1> HIDE DEF idx
<1>2. idx \in Nat /\ NFirst \in Nat /\ n_length \in Nat
  <2>1. n_length \in 0 .. MapBits + Overrun
    BY <1>0 DEF NP!TypeOK
  <2> QED BY <1>1, <2>1, SpacesInPages, SpaceAssumptions
<1>3. PagesAt(addr, len) = {NFirst + i : i \in idx .. idx + len - 1}
  <2>1. NP!PhysAt(NP!AddrOf(idx), len) = {NP!Base + i : i \in idx .. idx + len - 1}
    BY <1>0, <1>2, NP!RunAt, SpaceAssumptions
  <2> QED BY <1>0, <1>1, <2>1, SameAt
<1> QED BY <1>1, <1>2, <1>3

(* free_pages of pages the caller owns. *)
LEMMA FreeKeeps ==
    ASSUME IInv, NEW addr \in Nat, NEW len \in Nat, GivesBack(addr, len), free_pages(addr, len)
    PROVE  IInv' /\ Fresh
<1> DEFINE P == PagesAt(addr, len)
<1>0. /\ KP!SpaceInv /\ NP!SpaceInv /\ SpacesInv /\ OwnersInv /\ Ready
      /\ KP!InsideRegion(addr, len) /\ NP!InsideRegion(addr, len)
      /\ P \subseteq owned /\ owned' = owned \ P /\ owned \subseteq Nat
  BY SameK, SameN DEF IInv, SpacesInv, GivesBack, OneSpace, free_pages, TypeOK
<1>1. owned' \subseteq Nat
  BY <1>0
<1>2. addr \div PageSize \in owned \/ P = {}
  <2>1. CASE len = 0
    BY <2>1 DEF PagesAt
  <2>2. CASE len > 0
    <3>1. PageSize \in Nat /\ PageSize > 0
      BY SpaceAssumptions
    <3>2. addr \div PageSize \in P
      <4> DEFINE last == addr + len * PageSize - 1
                 q == addr \div PageSize
                 r == last \div PageSize
      <4>1. last \in Int /\ addr <= last
        BY <2>2, <3>1
      <4> HIDE DEF last
      <4>2. q \in Int /\ r \in Int
        BY <3>1, <4>1, DivMod
      <4>3. q <= r
        <5>1. PageSize * q <= addr
          <6>1. addr = PageSize * q + (addr % PageSize) /\ addr % PageSize \in 0 .. PageSize - 1
            BY <3>1, DivMod
          <6> DEFINE m == addr % PageSize
                     z == PageSize * q
          <6>2. addr = z + m /\ m \in 0 .. PageSize - 1 /\ z \in Int
            BY <3>1, <4>2, <6>1
          <6> HIDE DEF m, z
          <6>3. z <= addr
            BY <3>1, <6>2
          <6> QED BY <6>3 DEF z
        <5>2. last = PageSize * r + (last % PageSize) /\ last % PageSize \in 0 .. PageSize - 1
          BY <3>1, <4>1, DivMod
        <5> DEFINE m == last % PageSize
        <5>3. last = PageSize * r + m /\ m \in 0 .. PageSize - 1
          BY <5>2
        <5> HIDE DEF q, r, m
        <5>4. CASE r < q
          <6>1. PageSize * r + PageSize <= PageSize * q
            BY <3>1, <4>2, <5>4, PageMultiples
          <6>2. PageSize * r \in Int /\ PageSize * q \in Int
            BY <3>1, <4>2
          <6> QED BY <3>1, <4>1, <5>1, <5>3, <6>1, <6>2
        <5> QED BY <4>2, <5>4
      <4>4. P = q .. r
        BY <2>2 DEF PagesAt, last
      <4> HIDE DEF P, r
      <4> QED BY <4>2, <4>3, <4>4
    <3> QED BY <1>0, <3>2
  <2> QED BY <2>1, <2>2
<1> HIDE DEF P
<1>3. CASE InKernelSpace(addr)
  <2>1. KP!free(addr, len) /\ OnK
    BY <1>3, SameK DEF free_pages
  <2>2. KP!Managed(addr)
    <3>1. k_start = KernelStart /\ k_length = KCount /\ KernelSpace = PageSize * KCount
          /\ KCount \in Nat /\ PageSize \in Nat
      BY <1>0, SpacesInPages, SpaceAssumptions DEF SpacesInv, Ready
    <3> QED BY <1>3, <3>1
        DEF InKernelSpace, kernel_space_start, kernel_space_length, KP!Managed, KP!EndAddr
  <2>3. P \subseteq KTaken
    <3>1. P \subseteq KFirst .. NFirst - 1
      BY <1>0, <2>2, KRunInside DEF P
    <3>2. NTaken \subseteq NFirst .. NFirst + n_length - 1
      BY <1>0, Apart
    <3>3. \A x : ~(x \in KFirst .. NFirst - 1 /\ x \in NFirst .. NFirst + n_length - 1)
      BY <1>0, Disjoint
    <3> QED BY <1>0, <3>1, <3>2, <3>3 DEF OwnersInv
  <2>4. /\ KP!SpaceInv' /\ KTaken' = KTaken \ P /\ Given(answer') = {}
        /\ UNCHANGED <<k_start, k_length>>
    BY <1>0, <2>1, <2>2, <2>3, KP!FreeSpace, SpaceAssumptions, SameAt, SameGiven DEF KTaken, P
  <2>5. NP!SpaceInv' /\ NTaken' = NTaken
    BY <1>0, <2>1, <2>4, NKept DEF OnK
  <2>6. CallFrame
    BY <2>1, <2>4 DEF OnK, CallFrame, n_vars
  <2>7. OwnersInv'
    <3>1. P \cap NTaken = {}
      BY <1>0, <2>3, Apart
    <3>2. own' = own
      BY <2>6 DEF CallFrame
    <3> QED BY <1>0, <2>4, <2>5, <3>1, <3>2 DEF OwnersInv
  <2>8. IInv'
    BY <1>0, <1>1, <2>4, <2>5, <2>6, <2>7, CallKeeps
  <2> QED BY <2>4, <2>8 DEF Fresh
<1>4. CASE ~InKernelSpace(addr) /\ InNonKernelSpace(addr)
  <2>1. NP!free(addr, len) /\ OnN
    BY <1>4, SameN DEF free_pages
  <2>2. CASE NP!Managed(addr)
    <3>1. P \subseteq NTaken
      <4>1. P \subseteq NFirst .. NFirst + n_length - 1
        BY <1>0, <2>2, NRunInside DEF P
      <4>2. KTaken \subseteq KFirst .. NFirst - 1
        BY <1>0, Apart
      <4>3. \A x : ~(x \in KFirst .. NFirst - 1 /\ x \in NFirst .. NFirst + n_length - 1)
        BY <1>0, Disjoint
      <4> QED BY <1>0, <4>1, <4>2, <4>3 DEF OwnersInv
    <3>2. /\ NP!SpaceInv' /\ NTaken' = NTaken \ P /\ Given(answer') = {}
          /\ UNCHANGED <<n_start, n_length>>
      BY <1>0, <2>1, <2>2, <3>1, NP!FreeSpace, SpaceAssumptions, SameAt, SameGiven DEF NTaken, P
    <3>3. KP!SpaceInv' /\ KTaken' = KTaken
      BY <1>0, <2>1, <3>2, KKept DEF OnN
    <3>4. CallFrame
      BY <2>1, <3>2 DEF OnN, CallFrame, k_vars
    <3>5. OwnersInv'
      <4>1. P \cap KTaken = {}
        BY <1>0, <3>1, Apart
      <4>2. own' = own
        BY <3>4 DEF CallFrame
      <4> QED BY <1>0, <3>2, <3>3, <4>1, <4>2 DEF OwnersInv
    <3>6. IInv'
      BY <1>0, <1>1, <3>2, <3>3, <3>4, <3>5, CallKeeps
    <3> QED BY <3>2, <3>6 DEF Fresh
  <2>3. CASE ~NP!Managed(addr)
    <3>1. P = {}
      BY <1>0, <1>2, <1>4, <2>3, OwnedInside
    <3>2. UNCHANGED n_vars /\ answer' = NP!Answer("free", 0, 0, {})
      BY <2>1, <2>3 DEF NP!free, NP!region, NP!counts, n_vars
    <3>3. UNCHANGED k_vars
      BY <2>1 DEF OnN
    <3>4. /\ KP!SpaceInv' /\ NP!SpaceInv' /\ KTaken' = KTaken /\ NTaken' = NTaken
      BY <1>0, <3>2, <3>3, NothingFreed DEF NP!Answer
    <3>5. CallFrame
      BY <2>1, <3>2, <3>3 DEF OnN, CallFrame, k_vars, n_vars
    <3>6. OwnersInv'
      BY <1>0, <3>1, <3>4, <3>5 DEF OwnersInv, CallFrame
    <3>7. IInv'
      BY <1>0, <1>1, <3>4, <3>5, <3>6, CallKeeps
    <3> QED BY <3>2, <3>7 DEF Fresh, NP!Answer
  <2> QED BY <2>2, <2>3
<1>5. CASE ~InKernelSpace(addr) /\ ~InNonKernelSpace(addr)
  <2>1. P = {}
    BY <1>0, <1>2, <1>5, OwnedInside
  <2>2. OnK /\ UNCHANGED k_vars /\ answer' = K!Answer("free", 0, 0, {})
    BY <1>5 DEF free_pages
  <2>3. UNCHANGED n_vars
    BY <2>2 DEF OnK
  <2>4. /\ KP!SpaceInv' /\ NP!SpaceInv' /\ KTaken' = KTaken /\ NTaken' = NTaken
    BY <1>0, <2>2, <2>3, NothingFreed DEF K!Answer
  <2>5. CallFrame
    BY <2>2, <2>3 DEF OnK, CallFrame, k_vars, n_vars
  <2>6. OwnersInv'
    BY <1>0, <2>1, <2>4, <2>5 DEF OwnersInv, CallFrame
  <2>7. IInv'
    BY <1>0, <1>1, <2>4, <2>5, <2>6, CallKeeps
  <2> QED BY <2>2, <2>7 DEF Fresh, K!Answer
<1> QED BY <1>3, <1>4, <1>5

-----------------------------------------------------------------------------
(* The calls of kernel_main up to the end of PMM::init. *)

(* A step that leaves the allocators and the owners of pages alone. *)
LEMMA Unmoved ==
    ASSUME IInv, UNCHANGED <<k_vars, n_vars, answer, own, owned>>
    PROVE  /\ KP!SpaceInv' /\ NP!SpaceInv' /\ OwnersInv'
           /\ K!TypeOK' /\ N!TypeOK'
<1>1. UNCHANGED <<k_constructed, k_start, k_length, k_map, k_free, k_used, k_held, answer>>
  BY DEF k_vars
<1>2. KP!SpaceInv /\ NP!SpaceInv /\ OwnersInv
  BY DEF IInv, SpacesInv
<1>3. KP!SpaceInv'
  BY <1>1, <1>2, Zenon
     DEF KP!SpaceInv, KP!IInv, KP!TypeOK, KP!RegionFits, KP!MapTellsHeld, KP!CountsExact, KP!Bits
<1>4. NP!SpaceInv' /\ NTaken' = NTaken
  BY <1>2, <1>3, NKept
<1>5. KTaken' = KTaken
  BY <1>1 DEF KTaken, KP!Taken, KP!Base
<1>6. OwnersInv'
  BY <1>2, <1>4, <1>5 DEF OwnersInv
<1>7. KP!TypeOK' /\ NP!TypeOK'
  BY <1>3, <1>4 DEF KP!SpaceInv, NP!SpaceInv, KP!IInv, NP!IInv
<1> QED BY <1>3, <1>4, <1>6, <1>7, SameK, SameN

(* Once the machine has stopped nothing more is asked of it. *)
LEMMA StopKeeps ==
    ASSUME IInv, UNCHANGED <<machine, mem, info_size, boot_info_addr, p_vars>>,
           boot_info_size' \in Nat, inited' \in BOOLEAN, UNCHANGED multiboot2_magic,
           KP!SpaceInv', NP!SpaceInv', OwnersInv', own' \subseteq Nat, owned' \subseteq Nat,
           pc' \in {"halt", "fault"}
    PROVE  IInv'
<1>1. TypeOK'
  <2>1. KP!TypeOK' /\ NP!TypeOK'
    BY DEF KP!SpaceInv, NP!SpaceInv, KP!IInv, NP!IInv
  <2>2. K!TypeOK' /\ N!TypeOK'
    BY <2>1, SameK, SameN
  <2>3. pc' \in {"boot_info", "pmm_init", "reserve", "move_boot_info", "copy",
                 "ready", "halt", "fault"}
    OBVIOUS
  <2>4. /\ machine' \in Machines
        /\ mem' \in [0 .. MemEnd - 1 -> Nat \cup {Other}]
        /\ length' \in 0 .. SizeMod - 1
        /\ non_kernel_space_length' \in 0 .. SizeMod - 1
        /\ inited' \in BOOLEAN /\ multiboot2_magic' \in BOOLEAN
    BY Zenon DEF IInv, TypeOK, p_vars
  <2>5. {boot_info_addr', boot_info_size', info_size'} \subseteq Nat
    BY DEF IInv, TypeOK
  <2> QED BY <2>2, <2>3, <2>4, <2>5, Zenon DEF TypeOK
<1>2. SpacesInv' /\ ImageInv' /\ InfoInv'
  BY DEF SpacesInv, ImageInv, InfoInv
<1> QED BY <1>1, <1>2 DEF IInv

LEMMA BootInfoInitKeeps ==
    ASSUME IInv, BootInfoInit
    PROVE  IInv'
<1>0. TypeOK /\ SpacesInv /\ OwnersInv /\ InfoInv
  BY DEF IInv
<1>1. /\ pc = "boot_info" /\ InfoLoaded
      /\ boot_info_size' = SizeAfterInit(mem, boot_info_addr) /\ inited' = TRUE
      /\ UNCHANGED <<machine, mem, info_size, boot_info_addr, multiboot2_magic, p_vars,
                     k_vars, n_vars, answer, own, owned>>
      /\ pc' = IF InitReturns(mem, boot_info_addr) THEN "pmm_init" ELSE "halt"
  BY <1>0 DEF BootInfoInit, init, InfoInv
<1>2. boot_info_size' \in Nat
  BY <1>0, <1>1 DEF SizeAfterInit, ReadSize, TypeOK
<1>3. KP!SpaceInv' /\ NP!SpaceInv' /\ OwnersInv' /\ K!TypeOK' /\ N!TypeOK'
  BY <1>1, Unmoved
<1>4. own' \subseteq Nat /\ owned' \subseteq Nat
  BY <1>0, <1>1 DEF TypeOK
<1>5. CASE InitReturns(mem, boot_info_addr)
  <2>1. pc' = "pmm_init"
    BY <1>1, <1>5
  <2>2. TypeOK'
    <3>1. pc' \in {"boot_info", "pmm_init", "reserve", "move_boot_info", "copy",
                   "ready", "halt", "fault"}
      BY <2>1
    <3>2. {boot_info_addr', boot_info_size', info_size'} \subseteq Nat
      BY <1>0, <1>1, <1>2 DEF TypeOK
    <3>3. /\ machine' \in Machines
          /\ mem' \in [0 .. MemEnd - 1 -> Nat \cup {Other}]
          /\ length' \in 0 .. SizeMod - 1
          /\ non_kernel_space_length' \in 0 .. SizeMod - 1
          /\ inited' \in BOOLEAN /\ multiboot2_magic' \in BOOLEAN
      BY <1>0, <1>1, Zenon DEF TypeOK, p_vars
    <3> QED BY <1>3, <1>4, <3>1, <3>2, <3>3, Zenon DEF TypeOK
  <2>3. SpacesInv'
    BY <1>0, <1>1, <1>3, <2>1 DEF SpacesInv, k_vars, n_vars
  <2>4. InfoInv'
    <3>1. boot_info_size' = info_size' /\ info_size' \in MinSize .. MaxSize
      <4>1. ReadSize(mem, boot_info_addr) >= MinSize /\ ReadSize(mem, boot_info_addr) <= MaxSize
            /\ boot_info_size' = ReadSize(mem, boot_info_addr)
        BY <1>1, <1>5 DEF InitReturns, SizeAccepted, SizeAfterInit
      <4>2. MinSize \in Nat /\ MinSize > 0 /\ MaxSize \in Nat /\ info_size \in Nat
        BY <1>0, BootInfoAssumption DEF TypeOK
      <4>3. ReadSize(mem, boot_info_addr) = info_size
        BY <4>1, <4>2 DEF ReadSize
      <4> QED BY <1>1, <4>1, <4>2, <4>3
    <3>2. InfoLoaded'
      BY <1>1 DEF InfoLoaded, LiesAt
    <3> QED BY <2>1, <3>1, <3>2 DEF InfoInv
  <2> QED BY <1>3, <2>1, <2>2, <2>3, <2>4 DEF IInv, ImageInv
<1>6. CASE ~InitReturns(mem, boot_info_addr)
  <2>1. pc' \in {"halt", "fault"} /\ inited' \in BOOLEAN
    BY <1>1, <1>6
  <2> QED BY <1>1, <1>2, <1>3, <1>4, <2>1, StopKeeps
<1> QED BY <1>5, <1>6

LEMMA InitSpacesKeeps ==
    ASSUME IInv, InitSpaces
    PROVE  IInv'
<1> DEFINE len == TotalLen(machine.avail)
<1>0. TypeOK /\ SpacesInv /\ OwnersInv /\ InfoInv /\ KP!SpaceInv /\ NP!SpaceInv
  BY DEF IInv, SpacesInv
<1>1. /\ pc = "pmm_init" /\ InfoLoaded /\ machine \in Machines
      /\ boot_info_size = info_size /\ info_size \in MinSize .. MaxSize
      /\ UNCHANGED <<machine, i_vars, own, owned>>
      /\ ~k_constructed /\ ~n_constructed
  BY <1>0 DEF InitSpaces, InfoInv, SpacesInv, TypeOK
<1>2. own' \subseteq Nat /\ owned' \subseteq Nat
  BY <1>0, <1>1 DEF TypeOK
<1>3. CASE len = 0
  <2>1. pc' = "halt" /\ UNCHANGED <<p_vars, k_vars, n_vars, answer>>
    BY <1>3 DEF InitSpaces
  <2>2. KP!SpaceInv' /\ NP!SpaceInv' /\ OwnersInv'
    BY <1>1, <2>1, Unmoved
  <2>3. /\ UNCHANGED <<machine, mem, info_size, boot_info_addr, p_vars>>
        /\ boot_info_size' \in Nat /\ UNCHANGED multiboot2_magic
    BY <1>0, <1>1, <2>1 DEF i_vars, boot_vars, TypeOK
  <2>4. inited' \in BOOLEAN
    BY <1>0, <1>1, Zenon DEF i_vars, boot_vars, TypeOK
  <2> QED BY <1>2, <2>1, <2>2, <2>3, <2>4, StopKeeps
<1>4. CASE len # 0
  <2> DEFINE nlen == non_kernel_space_length'
  <2>1. /\ pc' = "reserve" /\ length' = len
        /\ nlen = (len - kernel_space_length) % SizeMod
        /\ K!FIRSTFIT(kernel_space_start, InPages(kernel_space_length))
        /\ N!FIRSTFIT(non_kernel_space_start, InPages(nlen))
    BY <1>4 DEF InitSpaces
  <2>2. /\ len \in KernelSpace .. KernelSpace + PageSize * (MapBits + 1) - 1
        /\ KernelSpace \in Nat /\ MapBits \in Nat /\ PageSize \in Nat /\ PageSize > 0
        /\ KernelSpace + PageSize * (MapBits + 1) <= SizeMod /\ SizeMod \in Nat /\ SizeMod > 1
    BY <1>1, <1>4, MachinesAssumption, PMMAssumption
  <2> HIDE DEF len
  <2>3. nlen = len - KernelSpace /\ nlen \in Nat /\ nlen < PageSize * (MapBits + 1)
    <3> DEFINE x == len - KernelSpace
               top == PageSize * (MapBits + 1)
    <3>1. top \in Int
      BY <2>2
    <3> HIDE DEF top
    <3>2. x \in Nat /\ x < SizeMod /\ x < top
      BY <2>2, <3>1 DEF top
    <3> HIDE DEF x
    <3>3. x % SizeMod = x
      BY <2>2, <3>2, KP!SmallMod, SpaceAssumptions
    <3> QED BY <2>1, <3>2, <3>3 DEF x, top, kernel_space_length
  <2>4. nlen \in 0 .. SizeMod - 1 /\ len \in 0 .. SizeMod - 1
    <3> DEFINE top == PageSize * (MapBits + 1)
    <3>1. top \in Int
      BY <2>2
    <3>2. len \in KernelSpace .. KernelSpace + top - 1 /\ KernelSpace + top <= SizeMod
      BY <2>2
    <3> HIDE DEF top
    <3>3. len \in Nat /\ len < SizeMod
      BY <2>2, <3>1, <3>2
    <3> QED BY <2>2, <2>3, <3>3
  <2>5. InPages(nlen) \in Nat /\ InPages(nlen) <= MapBits
    <3>1. nlen \div PageSize \in 0 .. (MapBits + 1) - 1
      <4>1. PageSize * 0 <= nlen /\ nlen \in Int /\ MapBits + 1 \in Int
        BY <2>2, <2>3
      <4> QED BY <2>3, <4>1, PageRange
    <3> QED BY <2>2, <3>1 DEF InPages
  <2>6. InPages(kernel_space_length) = KCount /\ kernel_space_start = KernelStart
        /\ non_kernel_space_start = KernelStart + KernelSpace
    BY DEF InPages, kernel_space_length, kernel_space_start, non_kernel_space_start, KCount
  <2> HIDE DEF nlen
  <2>7. KP!FIRSTFIT(KernelStart, KCount) /\ NP!FIRSTFIT(KernelStart + KernelSpace, InPages(nlen))
    BY <2>1, <2>6, SameK, SameN, Zenon
  <2>8. /\ KernelStart \in Nat /\ KCount \in Nat /\ KernelStart % PageSize = 0 /\ KCount <= MapBits
        /\ KernelStart + KernelSpace \in Nat /\ (KernelStart + KernelSpace) % PageSize = 0
    BY PMMAssumption, SpacesInPages
  <2>9. /\ KP!SpaceInv' /\ KTaken' = {} /\ k_held' = {}
        /\ k_start' = KernelStart /\ k_length' = KCount
    <3>1. <<KernelStart, KCount>> \in Nat \X Nat
      BY <2>8
    <3> QED BY <1>0, <2>7, <2>8, <3>1, KP!ConstructSpace, SpaceAssumptions DEF KTaken
  <2>10. /\ NP!SpaceInv' /\ NTaken' = {}
         /\ n_start' = KernelStart + KernelSpace /\ n_length' = InPages(nlen)
    <3>1. <<KernelStart + KernelSpace, InPages(nlen)>> \in Nat \X Nat
      BY <2>5, <2>8
    <3> QED BY <1>0, <2>5, <2>7, <2>8, <3>1, NP!ConstructSpace, SpaceAssumptions DEF NTaken
  <2>11. own = {} /\ owned = {}
    <3>1. k_held = {} /\ n_held = {}
      BY <1>0, <1>1 DEF KP!SpaceInv, NP!SpaceInv, KP!IInv, NP!IInv, KP!RegionFits, NP!RegionFits
    <3>2. KTaken = {} /\ NTaken = {}
      BY <3>1 DEF KTaken, NTaken, KP!Taken, NP!Taken
    <3> QED BY <1>0, <3>2 DEF OwnersInv
  <2>12. OwnersInv'
    BY <1>1, <2>9, <2>10, <2>11 DEF OwnersInv
  <2>13. SpacesInv'
    BY <2>1, <2>9, <2>10 DEF SpacesInv, nlen, InPages
  <2>14. ImageInv'
    BY <2>1, <2>9 DEF ImageInv
  <2>15. InfoInv'
    <3>1. InfoLoaded' /\ boot_info_size' = info_size' /\ info_size' \in MinSize .. MaxSize
      BY <1>1 DEF InfoLoaded, LiesAt, i_vars, boot_vars
    <3> QED BY <2>1, <3>1 DEF InfoInv
  <2>16. TypeOK'
    <3>1. KP!TypeOK' /\ NP!TypeOK'
      BY <2>9, <2>10 DEF KP!SpaceInv, NP!SpaceInv, KP!IInv, NP!IInv
    <3>2. K!TypeOK' /\ N!TypeOK'
      BY <3>1, SameK, SameN
    <3>3. pc' \in {"boot_info", "pmm_init", "reserve", "move_boot_info", "copy",
                   "ready", "halt", "fault"}
      BY <2>1
    <3>4. length' \in 0 .. SizeMod - 1 /\ non_kernel_space_length' \in 0 .. SizeMod - 1
      BY <2>1, <2>4 DEF nlen
    <3>5. /\ machine' \in Machines
          /\ {boot_info_addr', boot_info_size', info_size'} \subseteq Nat
          /\ mem' \in [0 .. MemEnd - 1 -> Nat \cup {Other}]
          /\ inited' \in BOOLEAN /\ multiboot2_magic' \in BOOLEAN
      BY <1>0, <1>1, Zenon DEF TypeOK, i_vars, boot_vars
    <3> QED BY <1>2, <3>2, <3>3, <3>4, <3>5, Zenon DEF TypeOK
  <2> QED BY <2>12, <2>13, <2>14, <2>15, <2>16 DEF IInv
<1> QED BY <1>3, <1>4

(* What PMM::init takes of the kernel space becomes its own. *)
LEMMA TakesKernelPages ==
    ASSUME IInv, pc \in {"reserve", "move_boot_info"}, KP!SpaceInv',
           KTaken' = KTaken \cup Given(answer'), Given(answer') \cap KTaken = {},
           UNCHANGED <<k_start, k_length>>,
           UNCHANGED <<machine, i_vars, p_vars, n_vars, owned>>,
           own' = own \cup Given(answer'), pc' \in {"move_boot_info", "copy", "halt"}
    PROVE  TypeOK' /\ SpacesInv' /\ OwnersInv' /\ Given(answer') \cap own = {}
<1> DEFINE G == Given(answer')
<1>0. TypeOK /\ SpacesInv /\ OwnersInv /\ NP!SpaceInv
  BY DEF IInv, SpacesInv
<1>1. NP!SpaceInv' /\ NTaken' = NTaken
  BY <1>0, NKept
<1>2. SpacesInv'
  BY <1>0, <1>1 DEF SpacesInv, n_vars, p_vars, InPages
<1>3. G \cap NTaken = {}
  <2>1. KTaken' \subseteq KFirst .. NFirst - 1
    <3>1. k_held' \subseteq 0 .. k_length' - 1
      BY DEF KP!SpaceInv, KP!IInv, KP!MapTellsHeld
    <3>2. k_start' = KernelStart /\ k_length' = KCount
      BY <1>0 DEF SpacesInv
    <3>3. KCount \in Nat /\ KFirst \in Nat /\ NFirst = KFirst + KCount
      BY SpacesInPages DEF NFirst
    <3>4. KP!Base' = KFirst
      BY <3>2 DEF KP!Base, KFirst
    <3> QED BY <3>1, <3>2, <3>3, <3>4 DEF KTaken, KP!Taken
  <2>2. NTaken \subseteq NFirst .. NFirst + n_length - 1
    <3>1. n_held \subseteq 0 .. n_length - 1 /\ n_length \in 0 .. MapBits + Overrun
      BY <1>0 DEF NP!SpaceInv, NP!IInv, NP!MapTellsHeld, NP!TypeOK
    <3>2. n_start = KernelStart + KernelSpace
      BY <1>0 DEF SpacesInv
    <3>3. NP!Base = NFirst /\ NFirst \in Nat
      BY <3>2, SpacesInPages DEF NP!Base
    <3> QED BY <3>1, <3>3, SpaceAssumptions DEF NTaken, NP!Taken
  <2>3. \A x : ~(x \in KFirst .. NFirst - 1 /\ x \in NFirst .. NFirst + n_length - 1)
    BY <1>0, Disjoint
  <2>4. G \subseteq KTaken'
    OBVIOUS
  <2> HIDE DEF G
  <2> QED BY <2>1, <2>2, <2>3, <2>4
<1>4. OwnersInv' /\ G \cap own = {}
  <2>1. G \cap KTaken = {} /\ KTaken' = KTaken \cup G /\ own' = own \cup G /\ owned' = owned
    OBVIOUS
  <2> HIDE DEF G
  <2> QED BY <1>0, <1>1, <1>3, <2>1 DEF OwnersInv
<1>5. TypeOK'
  <2>1. KP!TypeOK' /\ NP!TypeOK'
    BY <1>1 DEF KP!SpaceInv, NP!SpaceInv, KP!IInv, NP!IInv
  <2>2. K!TypeOK' /\ N!TypeOK'
    BY <2>1, SameK, SameN
  <2>3. pc' \in {"boot_info", "pmm_init", "reserve", "move_boot_info", "copy",
                 "ready", "halt", "fault"}
    OBVIOUS
  <2>4. /\ machine' \in Machines
        /\ {boot_info_addr', boot_info_size', info_size'} \subseteq Nat
        /\ mem' \in [0 .. MemEnd - 1 -> Nat \cup {Other}]
        /\ length' \in 0 .. SizeMod - 1
        /\ non_kernel_space_length' \in 0 .. SizeMod - 1
        /\ inited' \in BOOLEAN /\ multiboot2_magic' \in BOOLEAN
    BY <1>0, Zenon DEF TypeOK, i_vars, boot_vars, p_vars
  <2>5. own' \subseteq Nat /\ owned' \subseteq Nat
    <3>1. KTaken' \subseteq Nat
      BY KNatTaken
    <3> QED BY <1>0, <3>1 DEF TypeOK
  <2> QED BY <2>2, <2>3, <2>4, <2>5, Zenon DEF TypeOK
<1> QED BY <1>2, <1>4, <1>5

LEMMA ReserveKernelKeeps ==
    ASSUME IInv, ReserveKernel
    PROVE  IInv'
<1> DEFINE kp == kernel_pages
<1>0. TypeOK /\ SpacesInv /\ InfoInv /\ KP!SpaceInv /\ KP!TypeOK
  BY DEF IInv, SpacesInv, KP!SpaceInv, KP!IInv
<1>1. /\ pc = "reserve" /\ KP!alloc_at(KernelStart, kp)
      /\ UNCHANGED <<machine, i_vars, p_vars, n_vars, owned>>
      /\ k_start = KernelStart /\ k_length = KCount /\ k_held = {}
      /\ machine \in Machines /\ InfoLoaded
      /\ boot_info_size = info_size /\ info_size \in MinSize .. MaxSize
  BY SameK DEF IInv, ReserveKernel, SpacesInv, ImageInv, InfoInv, TypeOK
<1>2. kp \in Nat /\ kp > 0 /\ kp <= KCount
  BY <1>1, KernelAndInfoFit
<1>3. /\ KCount \in Nat /\ KFirst \in Nat /\ KernelStart = PageSize * KFirst
      /\ KernelStart \in Nat /\ PageSize \in Nat /\ PageSize > 0
  BY SpacesInPages, PMMAssumption
<1>4. KP!AddrOf(0) = KernelStart
  BY <1>1, <1>3 DEF KP!AddrOf
<1>5. KP!IndexOf(KernelStart) = 0 /\ KP!PagesOf(KernelStart, kp) = 0 .. kp - 1
  <2>1. KP!IndexOf(KP!AddrOf(0)) = 0 /\ KP!PagesOf(KP!AddrOf(0), kp) = 0 .. 0 + kp - 1
    <3> HIDE DEF kp
    <3>1. 0 \in Nat
      OBVIOUS
    <3> QED BY <1>0, <1>2, <3>1, KP!PagesOfRun, SpaceAssumptions
  <2>2. 0 .. 0 + kp - 1 = 0 .. kp - 1
    BY <1>2
  <2> QED BY <1>4, <2>1, <2>2
<1>6. KP!InsideRegion(KernelStart, kp)
  <2>1. (KernelStart - KernelStart) % PageSize = 0
    BY <1>3
  <2> QED BY <1>1, <1>2, <1>3, <1>5, <2>1 DEF KP!InsideRegion, KP!Aligned
<1> HIDE DEF kp
<1>7. /\ KP!SpaceInv' /\ KTaken' = KTaken \cup Given(answer') /\ Given(answer') \cap KTaken = {}
      /\ UNCHANGED <<k_start, k_length>>
  BY <1>0, <1>1, <1>2, <1>3, <1>6, KP!AllocAtSpace, SpaceAssumptions, SameGiven DEF KTaken
<1>8. CASE KP!Claimable(KernelStart, kp)
  <2>1. /\ answer' = KP!Answer("alloc_at", kp, KernelStart, 0 .. kp - 1)
        /\ k_held' = k_held \cup 0 .. kp - 1
    BY <1>1, <1>5, <1>8 DEF KP!alloc_at, KP!Take
  <2>2. answer'.pages # {} /\ answer'.addr = KernelStart /\ answer'.asked = kp
    <3>1. 0 \in 0 .. kp - 1
      BY <1>2
    <3> QED BY <2>1, <3>1 DEF KP!Answer
  <2>3. Given(answer') = PagesAt(KernelStart, kp)
    BY <2>2 DEF Given
  <2>4. pc' = "move_boot_info" /\ own' = own \cup PagesAt(KernelStart, kp)
    BY <1>8, SameK DEF ReserveKernel, kp
  <2>5. TypeOK' /\ SpacesInv' /\ OwnersInv'
    BY <1>1, <1>7, <2>3, <2>4, TakesKernelPages
  <2>6. kernel_pages' = kp /\ Image' = PagesAt(KernelStart, kp)
    BY <1>1 DEF kernel_pages, kp, Image, PagesAt
  <2>7. ImageInv'
    BY <1>1, <2>1, <2>4, <2>6 DEF ImageInv
  <2>8. InfoInv'
    <3>1. InfoLoaded' /\ boot_info_size' = info_size' /\ info_size' \in MinSize .. MaxSize
      BY <1>1 DEF InfoLoaded, LiesAt, i_vars, boot_vars
    <3> QED BY <2>4, <3>1 DEF InfoInv
  <2> QED BY <2>5, <2>7, <2>8 DEF IInv
<1>9. CASE ~KP!Claimable(KernelStart, kp)
  <2>1. answer' = KP!Answer("alloc_at", kp, 0, {})
    BY <1>1, <1>9 DEF KP!alloc_at, KP!Refuse
  <2>2. Given(answer') = {}
    BY <2>1 DEF Given, KP!Answer
  <2>3. pc' = "halt" /\ own' = own \cup Given(answer')
    BY <1>9, <2>2, SameK DEF ReserveKernel, kp
  <2>4. TypeOK' /\ SpacesInv' /\ OwnersInv'
    BY <1>1, <1>7, <2>3, TakesKernelPages
  <2> QED BY <2>3, <2>4 DEF IInv, ImageInv, InfoInv
<1> QED BY <1>8, <1>9

LEMMA MoveBootInfoKeeps ==
    ASSUME IInv, MoveBootInfo
    PROVE  IInv'
<1> DEFINE kp == kernel_pages
           n == info_pages
<1>0. TypeOK /\ SpacesInv /\ InfoInv /\ KP!SpaceInv /\ KP!TypeOK
  BY DEF IInv, SpacesInv, KP!SpaceInv, KP!IInv
<1>1. /\ pc = "move_boot_info" /\ pc' = "copy" /\ KP!alloc(n)
      /\ UNCHANGED <<machine, i_vars, p_vars, n_vars, owned>>
      /\ k_start = KernelStart /\ k_length = KCount /\ k_held = 0 .. kp - 1
      /\ machine \in Machines /\ InfoLoaded /\ Image \subseteq own
      /\ boot_info_size = info_size /\ info_size \in MinSize .. MaxSize
  BY SameK DEF IInv, MoveBootInfo, SpacesInv, ImageInv, InfoInv, TypeOK
<1>2. kp \in Nat /\ kp > 0 /\ n \in Nat /\ n > 0 /\ kp + n <= KCount
  BY <1>1, KernelAndInfoFit DEF info_pages
<1>3. /\ KCount \in Nat /\ KFirst \in Nat /\ KernelStart = PageSize * KFirst
      /\ KernelStart \in Nat /\ PageSize \in Nat /\ PageSize > 0
  BY SpacesInPages, PMMAssumption
<1> HIDE DEF kp, n
<1>4. answer'.addr = KP!AddrOf(kp) /\ answer'.pages # {} /\ answer'.asked = n
  BY <1>0, <1>1, <1>2, KP!AllocRoom, SpaceAssumptions
<1>5. answer'.addr = PageSize * (KFirst + kp)
  <2>1. answer'.addr = PageSize * KFirst + PageSize * kp
    BY <1>1, <1>3, <1>4 DEF KP!AddrOf
  <2>2. PageSize * (KFirst + kp) = PageSize * KFirst + PageSize * kp
    BY <1>2, <1>3
  <2> QED BY <2>1, <2>2
<1>6. /\ KP!SpaceInv' /\ KTaken' = KTaken \cup Given(answer') /\ Given(answer') \cap KTaken = {}
      /\ UNCHANGED <<k_start, k_length>>
  BY <1>0, <1>1, <1>2, KP!AllocSpace, SpaceAssumptions, SameGiven DEF KTaken
<1>7. Given(answer') = PagesAt(answer'.addr, n)
  BY <1>4 DEF Given
<1>8. own' = own \cup PagesAt(answer'.addr, n)
  BY <1>4 DEF MoveBootInfo, n
<1>9. TypeOK' /\ SpacesInv' /\ OwnersInv' /\ Given(answer') \cap own = {}
  BY <1>1, <1>6, <1>7, <1>8, TakesKernelPages
<1>10. kernel_pages' = kp /\ Image' = Image /\ info_pages' = n
  BY <1>1 DEF kernel_pages, kp, Image, PagesAt, info_pages, n, i_vars, boot_vars
<1>11. ImageInv'
  BY <1>1, <1>8, <1>10 DEF ImageInv
<1>12. InfoInv'
  <2>1. InfoLoaded' /\ boot_info_size' = info_size' /\ info_size' \in MinSize .. MaxSize
    BY <1>1 DEF InfoLoaded, LiesAt, i_vars, boot_vars
  <2>2. PagesAt(answer.addr, info_pages)' = PagesAt(answer'.addr, n)
    BY <1>10 DEF PagesAt
  <2>3. PagesAt(answer.addr, info_pages)' \subseteq own' \ Image'
    BY <1>1, <1>7, <1>8, <1>9, <1>10, <2>2
  <2> QED BY <1>1, <1>5, <1>10, <2>1, <2>3 DEF InfoInv
<1> QED BY <1>9, <1>11, <1>12 DEF IInv

LEMMA ModLess ==
    ASSUME NEW k \in Nat, NEW d \in Nat, d > 0
    PROVE  k % d \in Nat /\ k % d <= k
<1> DEFINE q == k \div d
           r == k % d
<1>1. q \in Int /\ r \in 0 .. d - 1 /\ k = d * q + r
  BY DivMod
<1> HIDE DEF q, r
<1>2. q >= 0
  <2>1. CASE q < 0
    <3>1. d * q + d <= d * 0
      BY <1>1, <2>1, PageMultiples
    <3> QED BY <1>1, <3>1
  <2> QED BY <1>1, <2>1
<1>3. d * q >= 0
  BY <1>1, <1>2
<1>4. d * q \in Int
  BY <1>1
<1>5. r \in Nat /\ r <= k
  BY <1>1, <1>3, <1>4
<1> QED BY <1>5 DEF r

(* The copy of memcpy: what is read lies in memory, and a source that does *)
(* not reach from below into the destination arrives complete.             *)
LEMMA CopyType ==
    ASSUME NEW m \in [0 .. MemEnd - 1 -> Nat \cup {Other}], NEW dest \in Nat, NEW from \in Nat,
           NEW n \in Nat, from + n <= MemEnd
    PROVE  memcpy(m, dest, from, n) \in [0 .. MemEnd - 1 -> Nat \cup {Other}]
<1>0. MemEnd \in Nat
  BY BootInfoAssumption
<1> SUFFICES ASSUME NEW a \in 0 .. MemEnd - 1
             PROVE  (IF a \in dest .. dest + n - 1
                     THEN LET k == a - dest
                              d == dest - from
                          IN  m[from + (IF d > 0 THEN k % d ELSE k)]
                     ELSE m[a]) \in Nat \cup {Other}
  BY DEF memcpy
<1>1. CASE a \notin dest .. dest + n - 1
  BY <1>1
<1>2. CASE a \in dest .. dest + n - 1
  <2> DEFINE k == a - dest
             d == dest - from
             j == IF d > 0 THEN k % d ELSE k
  <2>1. k \in Nat /\ k < n /\ d \in Int
    BY <1>0, <1>2
  <2>2. j \in Nat /\ j <= k
    <3>1. CASE d > 0
      <4> HIDE DEF k, d
      <4>1. d \in Nat /\ k \in Int
        BY <2>1, <3>1
      <4>2. k % d \in Nat /\ k % d <= k
        BY <2>1, <3>1, <4>1, ModLess
      <4> QED BY <3>1, <4>2
    <3>2. CASE ~(d > 0)
      BY <2>1, <3>2
    <3> QED BY <3>1, <3>2
  <2> HIDE DEF j
  <2>3. from + j \in 0 .. MemEnd - 1
    <3> HIDE DEF k
    <3> QED BY <1>0, <2>1, <2>2
  <2>4. m[from + j] \in Nat \cup {Other}
    BY <2>3
  <2> QED BY <1>2, <2>4 DEF j
<1> QED BY <1>1, <1>2

LEMMA CopyIntact ==
    ASSUME NEW m \in [0 .. MemEnd - 1 -> Nat \cup {Other}], NEW dest \in Nat, NEW from \in Nat,
           NEW n \in Nat, from + n <= MemEnd, dest + n <= MemEnd, NEW size \in Nat, size <= n,
           LiesAt(m, from, size), dest <= from \/ size <= dest - from
    PROVE  LiesAt(memcpy(m, dest, from, n), dest, size)
<1> SUFFICES ASSUME NEW k \in 0 .. size - 1
             PROVE  memcpy(m, dest, from, n)[dest + k] = k
  BY DEF LiesAt
<1>0. MemEnd \in Nat
  BY BootInfoAssumption
<1>1. /\ dest + k \in 0 .. MemEnd - 1 /\ dest + k \in dest .. dest + n - 1
      /\ from + k \in 0 .. MemEnd - 1 /\ dest + k - dest = k /\ k \in Nat
  BY <1>0
<1> DEFINE d == dest - from
           j == IF d > 0 THEN k % d ELSE k
<1>2. j = k
  <2>1. CASE d > 0
    <3>1. d \in Nat /\ k < d
      BY <2>1
    <3> HIDE DEF d
    <3>2. k % d = k
      BY <1>1, <2>1, <3>1, KP!SmallMod, SpaceAssumptions
    <3> QED BY <2>1, <3>2
  <2> QED BY <2>1
<1>3. memcpy(m, dest, from, n)[dest + k] = m[from + j]
  <2>1. DOMAIN m = 0 .. MemEnd - 1
    OBVIOUS
  <2> QED BY <1>1, <2>1 DEF memcpy
<1> HIDE DEF j
<1>4. memcpy(m, dest, from, n)[dest + k] = m[from + k]
  BY <1>2, <1>3
<1> QED BY <1>1, <1>4 DEF LiesAt

LEMMA StutterKeeps ==
    ASSUME IInv, UNCHANGED vars
    PROVE  IInv'
<1>1. UNCHANGED <<pc, machine, boot_info_addr, boot_info_size, multiboot2_magic, inited,
                  mem, info_size, length, non_kernel_space_length,
                  k_constructed, k_start, k_length, k_map, k_free, k_used, k_held,
                  n_constructed, n_start, n_length, n_map, n_free, n_used, n_held,
                  answer, own, owned>>
  BY DEF vars, i_vars, boot_vars, p_vars, k_vars, n_vars
<1>2. KP!SpaceInv' /\ NP!SpaceInv' /\ OwnersInv' /\ K!TypeOK' /\ N!TypeOK'
  BY Unmoved DEF vars
<1>3. TypeOK'
  BY <1>1, <1>2, Zenon DEF IInv, TypeOK
<1>4. Image' = Image
  BY <1>1 DEF Image, kernel_pages, PagesAt
<1>5. SpacesInv' /\ ImageInv'
  BY <1>1, <1>2, <1>4 DEF IInv, SpacesInv, ImageInv, InPages, kernel_pages
<1>6. InfoInv'
  BY <1>1, <1>4, Zenon DEF IInv, InfoInv, InfoLoaded, LiesAt, PagesAt, info_pages, kernel_pages
<1> QED BY <1>2, <1>3, <1>5, <1>6 DEF IInv

LEMMA CopyBootInfoKeeps ==
    ASSUME IInv, CopyBootInfo
    PROVE  IInv'
<1>0. TypeOK /\ SpacesInv /\ ImageInv /\ InfoInv
  BY DEF IInv
<1>1. /\ pc = "copy" /\ pc' = "ready" /\ ~CopyFaults
      /\ mem' = memcpy(mem, answer.addr, boot_info_addr, info_pages * PageSize)
      /\ boot_info_addr' = answer.addr /\ inited' = TRUE
      /\ boot_info_size' = SizeAfterInit(mem', answer.addr)
      /\ UNCHANGED <<machine, info_size, multiboot2_magic, p_vars, k_vars, n_vars,
                     answer, own, owned>>
  BY DEF CopyBootInfo
<1>2. /\ machine \in Machines /\ Image \subseteq own
      /\ boot_info_size = info_size /\ info_size \in MinSize .. MaxSize
      /\ answer.addr = PageSize * (KFirst + kernel_pages)
      /\ PagesAt(answer.addr, info_pages) \subseteq own \ Image
  BY <1>0, <1>1 DEF TypeOK, ImageInv, InfoInv
<1>3. /\ info_pages \in Nat /\ kernel_pages \in Nat /\ KFirst \in Nat
      /\ PageSize \in Nat /\ PageSize > 0 /\ boot_info_addr \in Nat /\ info_size \in Nat
  BY <1>0, <1>2, KernelAndInfoFit, SpacesInPages, SpaceAssumptions DEF info_pages, TypeOK
<1>4. answer.addr \in Nat /\ info_pages * PageSize \in Nat
  BY <1>2, <1>3
<1>5. KP!SpaceInv' /\ NP!SpaceInv' /\ OwnersInv' /\ K!TypeOK' /\ N!TypeOK'
  BY <1>1, Unmoved
<1>6. boot_info_size' = boot_info_size \/ boot_info_size' = 0
  BY <1>1, <1>2 DEF SizeAfterInit, ReadSize
<1>7. TypeOK'
  <2>1. mem' \in [0 .. MemEnd - 1 -> Nat \cup {Other}]
    <3> DEFINE n == info_pages * PageSize
    <3>1. MappedEnd <= MemEnd /\ MappedEnd \in Nat /\ MemEnd \in Nat
      BY BootInfoAssumption
    <3>2. boot_info_addr + n <= MappedEnd
      BY <1>1 DEF CopyFaults, Mapped
    <3>3. mem \in [0 .. MemEnd - 1 -> Nat \cup {Other}] /\ n \in Nat
          /\ mem' = memcpy(mem, answer.addr, boot_info_addr, n)
      BY <1>0, <1>1, <1>4 DEF TypeOK
    <3> HIDE DEF n
    <3>4. boot_info_addr + n <= MemEnd
      BY <1>3, <3>1, <3>2, <3>3
    <3>5. memcpy(mem, answer.addr, boot_info_addr, n) \in [0 .. MemEnd - 1 -> Nat \cup {Other}]
      BY <1>3, <1>4, <3>3, <3>4, CopyType
    <3> QED BY <3>3, <3>5, Zenon
  <2>2. pc' \in {"boot_info", "pmm_init", "reserve", "move_boot_info", "copy",
                 "ready", "halt", "fault"}
    BY <1>1
  <2>3. {boot_info_addr', boot_info_size', info_size'} \subseteq Nat
    BY <1>1, <1>2, <1>3, <1>4, <1>6
  <2>4. /\ machine' \in Machines
        /\ length' \in 0 .. SizeMod - 1
        /\ non_kernel_space_length' \in 0 .. SizeMod - 1
        /\ inited' \in BOOLEAN /\ multiboot2_magic' \in BOOLEAN
        /\ own' \subseteq Nat /\ owned' \subseteq Nat
    BY <1>0, <1>1, Zenon DEF TypeOK, p_vars
  <2> QED BY <1>5, <2>1, <2>2, <2>3, <2>4, Zenon DEF TypeOK
<1>8. SpacesInv'
  BY <1>0, <1>1, <1>5 DEF SpacesInv, k_vars, n_vars, p_vars, InPages
<1>9. Image' = Image
  BY <1>1 DEF Image, kernel_pages, PagesAt
<1>10. ImageInv'
  BY <1>1, <1>2, <1>9 DEF ImageInv
<1>11. InfoInv'
  <2>1. CASE boot_info_size' = boot_info_size
    <3>1. PagesAt(boot_info_addr, info_pages)' = PagesAt(answer.addr, info_pages)
      BY <1>1, <2>1 DEF PagesAt, info_pages
    <3> QED BY <1>1, <1>2, <1>9, <3>1 DEF InfoInv
  <2>2. CASE boot_info_size' = 0
    <3>1. info_pages' = 0
      <4>1. (PageSize * 0 + (PageSize - 1)) \div PageSize = 0
        <5>1. PageSize - 1 \in Int /\ 0 <= PageSize - 1 /\ PageSize - 1 < PageSize /\ 0 \in Int
          BY <1>3
        <5> QED BY <1>3, <5>1, DivUnique
      <4>2. PageSize * 0 + (PageSize - 1) = 0 + PageSize - 1
        BY <1>3
      <4> QED BY <2>2, <4>1, <4>2 DEF info_pages
    <3>2. PagesAt(boot_info_addr, info_pages)' = {}
      BY <3>1 DEF PagesAt
    <3> QED BY <1>1, <3>2 DEF InfoInv
  <2> QED BY <1>6, <2>1, <2>2
<1> QED BY <1>5, <1>7, <1>8, <1>10, <1>11 DEF IInv

LEMMA FaultKeeps ==
    ASSUME IInv, Fault
    PROVE  IInv'
<1>1. /\ pc' \in {"halt", "fault"}
      /\ UNCHANGED <<machine, i_vars, p_vars, k_vars, n_vars, answer, own, owned>>
  BY DEF Fault
<1>2. KP!SpaceInv' /\ NP!SpaceInv' /\ OwnersInv'
  BY <1>1, Unmoved
<1>3. /\ UNCHANGED <<machine, mem, info_size, boot_info_addr, p_vars>>
      /\ boot_info_size' \in Nat /\ UNCHANGED multiboot2_magic
      /\ own' \subseteq Nat /\ owned' \subseteq Nat
  BY <1>1 DEF i_vars, boot_vars, IInv, TypeOK
<1>4. inited' \in BOOLEAN
  BY <1>1, Zenon DEF i_vars, boot_vars, IInv, TypeOK
<1> QED BY <1>1, <1>2, <1>3, <1>4, StopKeeps

-----------------------------------------------------------------------------
(* The theorems. *)

LEMMA InitInv == Init => IInv
<1> SUFFICES ASSUME Init PROVE IInv
  OBVIOUS
<1>0. /\ pc = "boot_info" /\ machine \in Machines /\ boot_info_addr = machine.info_addr
      /\ info_size = machine.info_size /\ multiboot2_magic = TRUE /\ boot_info_size = 0
      /\ inited = FALSE /\ length = 0 /\ non_kernel_space_length = 0
      /\ own = {} /\ owned = {}
      /\ mem = [a \in 0 .. MemEnd - 1 |->
                 IF a \in machine.info_addr .. machine.info_addr + machine.info_size - 1
                 THEN a - machine.info_addr ELSE Other]
      /\ KP!Init /\ NP!Init
  BY SameK, SameN DEF Init
<1>1. KP!SpaceInv /\ KP!Taken = {} /\ ~k_constructed
  BY <1>0, KP!InitSpace, SpaceAssumptions
<1>2. NP!SpaceInv /\ NP!Taken = {} /\ ~n_constructed
  BY <1>0, NP!InitSpace, SpaceAssumptions
<1>3. machine.info_addr \in Nat /\ machine.info_size \in Nat /\ MemEnd \in Nat
  BY <1>0, MachinesAssumption, BootInfoAssumption
<1>4. TypeOK
  <2>1. K!TypeOK /\ N!TypeOK
    <3>1. KP!TypeOK /\ NP!TypeOK
      BY <1>1, <1>2 DEF KP!SpaceInv, NP!SpaceInv, KP!IInv, NP!IInv
    <3> QED BY <3>1, SameK, SameN
  <2>2. mem \in [0 .. MemEnd - 1 -> Nat \cup {Other}]
    BY <1>0, <1>3
  <2>3. /\ {boot_info_addr, boot_info_size, info_size} \subseteq Nat
        /\ length \in 0 .. SizeMod - 1 /\ non_kernel_space_length \in 0 .. SizeMod - 1
        /\ own \subseteq Nat /\ owned \subseteq Nat
    BY <1>0, <1>3, SpaceAssumptions
  <2>4. inited \in BOOLEAN /\ multiboot2_magic \in BOOLEAN /\ machine \in Machines
        /\ pc \in {"boot_info", "pmm_init", "reserve", "move_boot_info", "copy",
                   "ready", "halt", "fault"}
    BY <1>0
  <2> QED BY <2>1, <2>2, <2>3, <2>4, Zenon DEF TypeOK
<1>5. SpacesInv
  BY <1>0, <1>1, <1>2 DEF SpacesInv
<1>6. OwnersInv
  BY <1>0, <1>1, <1>2 DEF OwnersInv, KTaken, NTaken
<1>7. InfoLoaded
  BY <1>0, <1>3 DEF InfoLoaded, LiesAt
<1> QED BY <1>0, <1>4, <1>5, <1>6, <1>7 DEF IInv, ImageInv, InfoInv

(* A step of the interface keeps the invariant and hands out fresh pages,  *)
(* a step of the boot keeps the invariant.                                 *)
LEMMA StepInv ==
    ASSUME IInv, Next
    PROVE  IInv' /\ Fresh
<1>1. CASE Boot
  <2>1. pc # "ready"
    BY <1>1 DEF Boot, BootInfoInit, InitSpaces, ReserveKernel, MoveBootInfo, CopyBootInfo, Fault
  <2>2. IInv'
    BY <1>1, BootInfoInitKeeps, InitSpacesKeeps, ReserveKernelKeeps, MoveBootInfoKeeps,
       CopyBootInfoKeeps, FaultKeeps DEF Boot
  <2> QED BY <2>1, <2>2 DEF Fresh, Ready
<1>2. CASE AllocAny
  <2>1. 1 \in Nat /\ Lens \subseteq Nat
    BY SpaceAssumptions
  <2>2. PICK len \in Nat : alloc_pages(len) \/ alloc_pages_kernel(len)
    BY <1>2, <2>1 DEF AllocAny, alloc_page, alloc_page_kernel
  <2> QED BY <2>2, AllocKeeps
<1>3. CASE AllocAt
  <2>1. PICK addr \in CallAddrs, len \in Lens :
           /\ OneSpace(addr, len)
           /\ alloc_pages_at(addr, len) \/ alloc_pages_kernel_at(addr, len)
    BY <1>3 DEF AllocAt
  <2>2. addr \in Nat /\ len \in Nat
    BY <2>1, SpaceAssumptions
  <2> QED BY <2>1, <2>2, AllocAtKeeps
<1>4. CASE FreeOwned
  <2>1. 1 \in Nat /\ Lens \subseteq Nat /\ CallAddrs \subseteq Nat
    BY SpaceAssumptions
  <2>2. PICK addr \in Nat, len \in Nat : GivesBack(addr, len) /\ free_pages(addr, len)
    BY <1>4, <2>1 DEF FreeOwned, free_page
  <2> QED BY <2>2, FreeKeeps
<1>5. CASE Stopped
  <2>1. UNCHANGED vars /\ pc \in {"halt", "fault"}
    BY <1>5 DEF Stopped
  <2> QED BY <2>1, StutterKeeps DEF Fresh, Ready
<1> QED BY <1>1, <1>2, <1>3, <1>4, <1>5 DEF Next

LEMMA InvAlways == Spec => []IInv
<1>1. IInv /\ [Next]_vars => IInv'
  <2> SUFFICES ASSUME IInv, [Next]_vars PROVE IInv'
    OBVIOUS
  <2>1. CASE Next
    BY <2>1, StepInv
  <2>2. CASE UNCHANGED vars
    BY <2>2, StutterKeeps
  <2> QED BY <2>1, <2>2
<1> QED BY InitInv, <1>1, PTL DEF Spec

(* The state of PMM stays well typed; in particular the counters of both   *)
(* allocators stay below the width of size_t.                              *)
THEOREM TypesKept == Spec => []TypeOK
<1>1. IInv => TypeOK
  BY DEF IInv
<1> QED BY InvAlways, <1>1, PTL

(* No call of the interface hands out a page that is the kernel's or       *)
(* another caller's, across both allocators (pmm.cpp:88-160).              *)
THEOREM PagesHandedOutOnce == Spec => NoPageTwice
<1>1. IInv /\ [Next]_vars =>
        [Ready /\ answer'.pages # {} =>
           PagesAt(answer'.addr, answer'.asked) \cap (owned \cup own) = {}]_vars
  <2> SUFFICES ASSUME IInv, Next, Ready, answer'.pages # {}
               PROVE  PagesAt(answer'.addr, answer'.asked) \cap (owned \cup own) = {}
    OBVIOUS
  <2>1. Fresh
    BY StepInv
  <2> QED BY <2>1 DEF Fresh, Given
<1> QED BY InvAlways, <1>1, PTL DEF Spec, NoPageTwice

LEMMA SameCardinality ==
    \A S : /\ KP!Cardinality(S) = Cardinality(S) /\ NP!Cardinality(S) = Cardinality(S)
           /\ KP!IsFiniteSet(S) <=> IsFiniteSet(S)
           /\ NP!IsFiniteSet(S) <=> IsFiniteSet(S)
BY Zenon DEF KP!Cardinality, NP!Cardinality, Cardinality,
             KP!IsFiniteSet, NP!IsFiniteSet, IsFiniteSet

(* The bitmaps mark the pages of the allocators that are in use. *)
LEMMA MarkedAreTaken ==
    ASSUME SpacesInv
    PROVE  MarkedK = KTaken /\ MarkedN = NTaken
<1>1. KP!SpaceInv /\ NP!SpaceInv
  BY DEF SpacesInv
<1>2. MarkedK = KTaken
  BY <1>1, KP!MarkedIs, SpaceAssumptions DEF MarkedK, KTaken
<1>3. MarkedN = NTaken
  BY <1>1, NP!MarkedIs, SpaceAssumptions DEF MarkedN, NTaken
<1> QED BY <1>2, <1>3

(* No page is lost and none is kept: the pages marked in the two bitmaps   *)
(* are the kernel's and the callers', and the counts PMM reports are their *)
(* numbers (pmm.cpp:116, 122, 167, 171).                                   *)
THEOREM NoPageLost == Spec => []NothingLost
<1>1. IInv => NothingLost
  <2> SUFFICES ASSUME IInv, Ready
               PROVE  MarkedK \cup MarkedN = own \cup owned /\ CountsTrue
    BY DEF NothingLost
  <2>0. SpacesInv /\ OwnersInv /\ KP!SpaceInv /\ NP!SpaceInv
    BY DEF IInv, SpacesInv
  <2>1. MarkedK \cup MarkedN = own \cup owned
    BY <2>0, MarkedAreTaken DEF OwnersInv
  <2>2. /\ IsFiniteSet(KTaken) /\ Cardinality(KTaken) = k_used
        /\ k_free = k_length - Cardinality(KTaken)
        /\ Cardinality(KTaken) <= k_length /\ Cardinality(KTaken) \in Nat
        /\ k_length <= MapBits /\ k_length \in Nat
    BY <2>0, KP!TakenBounds, SpaceAssumptions, SameCardinality DEF KTaken
  <2>3. /\ IsFiniteSet(NTaken) /\ Cardinality(NTaken) = n_used
        /\ n_free = n_length - Cardinality(NTaken)
        /\ Cardinality(NTaken) <= n_length /\ Cardinality(NTaken) \in Nat
        /\ n_length <= MapBits /\ n_length \in Nat
    BY <2>0, NP!TakenBounds, SpaceAssumptions, SameCardinality DEF NTaken
  <2>4. /\ IsFiniteSet(KTaken \cup NTaken)
        /\ Cardinality(KTaken \cup NTaken) = k_used + n_used
    <3>1. KTaken \cap NTaken = {}
      BY <2>0, Apart
    <3>2. /\ IsFiniteSet(KTaken \cup NTaken)
          /\ Cardinality(KTaken \cup NTaken) =
               Cardinality(KTaken) + Cardinality(NTaken) - Cardinality(KTaken \cap NTaken)
      BY <2>2, <2>3, FS_Union
    <3>3. Cardinality(KTaken \cap NTaken) = 0
      BY <3>1, FS_EmptySet
    <3> QED BY <2>2, <2>3, <3>2, <3>3
  <2>5. Cardinality(own) + Cardinality(owned) = k_used + n_used
    <3>1. /\ own \subseteq KTaken \cup NTaken /\ owned \subseteq KTaken \cup NTaken
          /\ own \cup owned = KTaken \cup NTaken /\ own \cap owned = {}
      BY <2>0 DEF OwnersInv
    <3>2. IsFiniteSet(own) /\ IsFiniteSet(owned)
      BY <2>4, <3>1, FS_Subset
    <3>3. Cardinality(own \cup owned) =
               Cardinality(own) + Cardinality(owned) - Cardinality(own \cap owned)
      BY <3>2, FS_Union
    <3>4. Cardinality(own) \in Nat /\ Cardinality(owned) \in Nat
      BY <3>2, FS_CardinalityType
    <3>5. Cardinality(own \cap owned) = 0
      BY <3>1, FS_EmptySet
    <3>6. Cardinality(own \cup owned) = k_used + n_used
      BY <2>4, <3>1
    <3> QED BY <3>3, <3>4, <3>5, <3>6
  <2>6. 2 * MapBits < SizeMod /\ MapBits \in Nat /\ SizeMod \in Nat /\ SizeMod > 0
    BY PMMAssumption
  <2>7. /\ k_used + n_used \in Nat /\ k_used + n_used < SizeMod
        /\ k_free + n_free \in Nat /\ k_free + n_free < SizeMod
        /\ k_free + n_free = k_length + n_length - (k_used + n_used)
    BY <2>2, <2>3, <2>6
  <2>8. get_used_pages_count = k_used + n_used /\ get_free_pages_count = k_free + n_free
    BY <2>6, <2>7, KP!SmallMod, SpaceAssumptions DEF get_used_pages_count, get_free_pages_count
  <2>9. CountsTrue
    BY <2>5, <2>7, <2>8 DEF CountsTrue
  <2> QED BY <2>1, <2>9
<1> QED BY InvAlways, <1>1, PTL

(* The kernel image lies on its own pages. *)
LEMMA ImagePages ==
    ASSUME machine \in Machines
    PROVE  KernelImage \subseteq Image
<1>0. /\ KFirst \in Nat /\ KernelStart = PageSize * KFirst /\ KernelStart \in Nat
      /\ PageSize \in Nat /\ PageSize > 0
  BY SpacesInPages, PMMAssumption
<1>1. kernel_pages \in Nat /\ machine.kernel_end <= PageSize * (KFirst + kernel_pages)
  BY KernelAndInfoFit
<1>2. Image = KFirst .. KFirst + kernel_pages - 1
  BY <1>0, <1>1, PagesOfRun DEF Image
<1>3. machine.kernel_end \in Int
  <2>1. machine.kernel_end \in KernelStart + 1 .. KernelStart + KernelSpace
    BY MachinesAssumption
  <2> QED BY <2>1, PMMAssumption
<1> DEFINE top == KFirst + kernel_pages
<1>4. ASSUME NEW a \in KernelStart .. machine.kernel_end - 1
      PROVE  a \div PageSize \in KFirst .. top - 1
  <2>1. top \in Int /\ PageSize * top \in Int /\ machine.kernel_end <= PageSize * top
    BY <1>0, <1>1
  <2> HIDE DEF top
  <2>2. a \in Int /\ PageSize * KFirst <= a /\ a < PageSize * top
    BY <1>0, <1>3, <2>1
  <2> QED BY <1>0, <2>1, <2>2, PageRange
<1>5. Image = KFirst .. top - 1
  BY <1>0, <1>1, <1>2
<1> HIDE DEF top
<1> QED BY <1>4, <1>5, Zenon DEF KernelImage

(* The kernel image and the boot information stay the kernel's, the copy   *)
(* of the boot information is not made over the image, and no page is      *)
(* marked in both spaces (pmm.cpp:54-60, 75-80).                           *)
THEOREM KernelKeepsItsPages == Spec => []KernelPagesKept
<1>1. IInv => KernelPagesKept
  <2> SUFFICES ASSUME IInv, Ready
               PROVE  /\ own \cap owned = {}
                      /\ KernelImage \subseteq own
                      /\ PagesAt(boot_info_addr, info_pages) \subseteq own \ KernelImage
                      /\ MarkedK \cap MarkedN = {}
    BY DEF KernelPagesKept
  <2>1. SpacesInv /\ OwnersInv /\ machine \in Machines /\ Image \subseteq own
        /\ PagesAt(boot_info_addr, info_pages) \subseteq own \ Image
    BY DEF IInv, TypeOK, ImageInv, InfoInv, Ready
  <2>2. KernelImage \subseteq Image
    BY <2>1, ImagePages
  <2>3. MarkedK \cap MarkedN = {}
    BY <2>1, MarkedAreTaken, Apart
  <2> QED BY <2>1, <2>2, <2>3 DEF OwnersInv
<1> QED BY InvAlways, <1>1, PTL

(***************************************************************************)
(* The boot information PMM::move_boot_info copies arrives complete unless *)
(* it reaches from below into the first page behind the kernel, which is   *)
(* where the copy goes: memcpy copies forwards.                            *)
(***************************************************************************)
Straddles(m) ==
    /\ m.info_addr < ALIGN(m.kernel_end, PageSize)
    /\ ALIGN(m.kernel_end, PageSize) < m.info_addr + m.info_size
NothingStraddles == \A m \in Machines : ~Straddles(m)

LEMMA CopyArrives ==
    ASSUME NothingStraddles, IInv, CopyBootInfo
    PROVE  BootInfoMoved'
<1>0. TypeOK /\ ImageInv /\ InfoInv
  BY DEF IInv
<1>1. /\ pc = "copy" /\ pc' = "ready" /\ ~CopyFaults
      /\ mem' = memcpy(mem, answer.addr, boot_info_addr, info_pages * PageSize)
      /\ boot_info_addr' = answer.addr
      /\ boot_info_size' = SizeAfterInit(mem', answer.addr)
      /\ UNCHANGED <<machine, info_size, multiboot2_magic>>
  BY DEF CopyBootInfo
<1>2. /\ machine \in Machines /\ InfoLoaded
      /\ boot_info_size = info_size /\ info_size \in MinSize .. MaxSize
      /\ answer.addr = PageSize * (KFirst + kernel_pages)
  BY <1>0, <1>1 DEF TypeOK, InfoInv
<1> DEFINE dest == answer.addr
           n == info_pages * PageSize
<1>3. /\ info_pages \in Nat /\ info_pages > 0 /\ kernel_pages + info_pages <= KCount
      /\ info_size <= PageSize * info_pages
      /\ kernel_pages \in Nat /\ dest = ALIGN(machine.kernel_end, PageSize)
  BY <1>2, KernelAndInfoFit DEF info_pages
<1>4. /\ KFirst \in Nat /\ PageSize \in Nat /\ PageSize > 0 /\ boot_info_addr \in Nat
      /\ info_size \in Nat /\ info_size > 0 /\ KCount \in Nat
      /\ KernelStart = PageSize * KFirst /\ KernelSpace = PageSize * KCount
  <2>1. info_size \in Nat /\ boot_info_addr \in Nat
    BY <1>0 DEF TypeOK
  <2>2. MinSize \in Nat /\ MinSize > 0 /\ MaxSize \in Nat
    BY BootInfoAssumption
  <2> QED BY <1>2, <2>1, <2>2, SpacesInPages, SpaceAssumptions
<1>5. dest \in Nat /\ n \in Nat /\ info_size <= n
  BY <1>2, <1>3, <1>4
<1>6. boot_info_addr + n <= MemEnd /\ dest + n <= MemEnd
  <2>1. MappedEnd <= MemEnd /\ MappedEnd \in Nat /\ MemEnd \in Nat
    BY BootInfoAssumption
  <2>2. boot_info_addr + n <= MappedEnd /\ dest + n <= MappedEnd
    BY <1>1 DEF CopyFaults, Mapped
  <2> HIDE DEF n, dest
  <2> QED BY <1>4, <1>5, <2>1, <2>2
<1>7. dest <= boot_info_addr \/ info_size <= dest - boot_info_addr
  <2>1. ~Straddles(machine)
    BY <1>2 DEF NothingStraddles
  <2>2. machine.info_addr = boot_info_addr /\ machine.info_size = info_size
    BY <1>2 DEF InfoLoaded
  <2>3. ~(boot_info_addr < dest) \/ ~(dest < boot_info_addr + info_size)
    BY <1>3, <2>1, <2>2 DEF Straddles
  <2> HIDE DEF dest
  <2> QED BY <1>4, <1>5, <2>3
<1>8. mem' = memcpy(mem, dest, boot_info_addr, n) /\ mem \in [0 .. MemEnd - 1 -> Nat \cup {Other}]
      /\ LiesAt(mem, boot_info_addr, info_size)
  BY <1>0, <1>1, <1>2 DEF TypeOK, InfoLoaded
<1>9. boot_info_addr' = dest /\ boot_info_size' = SizeAfterInit(mem', dest)
  BY <1>1
<1>10. InKernelSpace(dest)
  <2>1. kernel_pages < KCount
    BY <1>3, <1>4
  <2>2. PageSize * kernel_pages + PageSize <= PageSize * KCount
    BY <1>3, <1>4, <2>1, PageMultiples
  <2>3. dest = PageSize * KFirst + PageSize * kernel_pages
    BY <1>2, <1>3, <1>4
  <2>4. PageSize * kernel_pages \in Nat /\ PageSize * KFirst \in Nat /\ PageSize * KCount \in Nat
    BY <1>3, <1>4
  <2> QED BY <1>4, <2>2, <2>3, <2>4 DEF InKernelSpace, kernel_space_start, kernel_space_length
<1> HIDE DEF dest, n
<1>11. LiesAt(mem', dest, info_size)
  <2>1. dest \in Nat /\ boot_info_addr \in Nat /\ n \in Nat /\ info_size \in Nat
    BY <1>4, <1>5
  <2>2. boot_info_addr + n <= MemEnd /\ dest + n <= MemEnd /\ info_size <= n
    BY <1>5, <1>6
  <2>3. LiesAt(memcpy(mem, dest, boot_info_addr, n), dest, info_size)
    BY <1>7, <1>8, <2>1, <2>2, CopyIntact, Zenon
  <2> QED BY <1>8, <2>3, Zenon
<1>12. DOMAIN mem' = 0 .. MemEnd - 1
  BY <1>8 DEF memcpy
<1>13. \A k \in 0 .. info_size - 1 : dest + k \in 0 .. MemEnd - 1 /\ mem'[dest + k] = k
  <2>1. ASSUME NEW k \in 0 .. info_size - 1 PROVE dest + k \in 0 .. MemEnd - 1
    BY <1>4, <1>5, <1>6, BootInfoAssumption
  <2> QED BY <1>11, <2>1, Zenon DEF LiesAt
<1>14. boot_info_size' = info_size' /\ IntactAt(boot_info_addr)'
  <2>1. 0 \in 0 .. info_size - 1 /\ dest + 0 = dest
    BY <1>4, <1>5
  <2>2. mem'[dest] = 0
    BY <1>13, <2>1
  <2>3. IntactAt(boot_info_addr)'
    BY <1>1, <1>9, <1>12, <1>13, Zenon DEF IntactAt
  <2> QED BY <1>1, <1>2, <1>9, <2>2, <2>3 DEF SizeAfterInit, ReadSize
<1>15. InKernelSpace(boot_info_addr)'
  BY <1>9, <1>10 DEF InKernelSpace, kernel_space_start, kernel_space_length
<1> QED BY <1>14, <1>15 DEF BootInfoMoved

(* When the boot information does not straddle the end of the kernel's     *)
(* last page, it is complete at its new address from the end of PMM::init  *)
(* on, whatever callers do (pmm.cpp:18-25).                                *)
THEOREM BootInfoArrives == NothingStraddles => (Spec => []BootInfoMoved)
<1> SUFFICES ASSUME NothingStraddles PROVE Spec => []BootInfoMoved
  OBVIOUS
<1>1. Init => BootInfoMoved
  BY DEF Init, BootInfoMoved, Ready
<1>2. IInv /\ BootInfoMoved /\ [Next]_vars => BootInfoMoved'
  <2> SUFFICES ASSUME IInv, BootInfoMoved, [Next]_vars PROVE BootInfoMoved'
    OBVIOUS
  <2>1. CASE CopyBootInfo
    BY <2>1, CopyArrives
  <2>2. CASE UNCHANGED <<i_vars, pc>>
    BY <2>2 DEF BootInfoMoved, Ready, IntactAt, i_vars, boot_vars, InKernelSpace,
                kernel_space_start, kernel_space_length
  <2>3. CASE pc' # "ready"
    BY <2>3 DEF BootInfoMoved, Ready
  <2>4. CASE Boot
    BY <2>1, <2>3, <2>4
       DEF Boot, BootInfoInit, InitSpaces, ReserveKernel, MoveBootInfo, Fault
  <2>5. CASE AllocAny \/ AllocAt
    <3>1. UNCHANGED <<i_vars, pc>>
      BY <2>5 DEF AllocAny, AllocAt, alloc_page, alloc_page_kernel, alloc_pages,
                  alloc_pages_kernel, alloc_pages_at, alloc_pages_kernel_at, OnK, OnN
    <3> QED BY <2>2, <3>1
  <2>6. CASE FreeOwned
    <3>1. \E addr, len : free_pages(addr, len)
      BY <2>6 DEF FreeOwned, free_page
    <3>2. UNCHANGED <<i_vars, pc>>
      BY <3>1 DEF free_pages, OnK, OnN
    <3> QED BY <2>2, <3>2
  <2>7. CASE UNCHANGED vars
    BY <2>2, <2>7 DEF vars
  <2> QED BY <2>4, <2>5, <2>6, <2>7 DEF Next, Stopped
<1> QED BY InvAlways, <1>1, <1>2, PTL DEF Spec
=============================================================================

------------------------- MODULE Multiboot2_proofs --------------------------
(***************************************************************************)
(* The walk over the boot information reads nothing but tags and whole     *)
(* entries, for every sequence of tags the boot loader may lay out: any    *)
(* number, any sizes, any size of the entries of a memory map.             *)
(***************************************************************************)
EXTENDS Multiboot2, Recursion_proofs

(* What the boot loader has written. *)
LayoutInv ==
    /\ tags \in Seq(Tags) /\ Len(tags) >= 1
    /\ \A k \in 1 .. Len(tags) :
          /\ tags[k].type = End <=> k = Len(tags)
          /\ tags[k].at <= tags[Len(tags)].at
          /\ k < Len(tags) => tags[k + 1].at = Behind(tags[k])
          /\ Len(tags[k].entries) = Places(tags[k])
          /\ \A j \in 1 .. k - 1 : tags[j].at < tags[k].at

(* Where the pointers are: at a tag, and at the entry the loop counts.     *)
WalkInv ==
    /\ IsTag(tag)
    /\ pc = "entries" =>
          /\ Current.type = Mmap /\ ~BadParameters(Current)
          /\ mmap = MmapHeader + i * Current.entry_size

IInv == TypeOK /\ LayoutInv /\ WalkInv

-----------------------------------------------------------------------------
(* Arithmetic. *)

(* A product of a factor grows by the factor from one number to the next. *)
LEMMA Multiples ==
    ASSUME NEW p \in Nat, p > 0, NEW x \in Int, NEW y \in Int, x < y
    PROVE  x * p + p <= y * p
<1>1. p * (y - x - 1) >= 0
  OBVIOUS
<1>2. p * (y - x - 1) = p * y - p * x - p
  OBVIOUS
<1> QED BY <1>1, <1>2

(* Division undoes a product. *)
LEMMA Quotient ==
    ASSUME NEW n \in Nat, NEW p \in Nat, p > 0
    PROVE  (n * p) \div p = n /\ (n * p) % p = 0
<1> DEFINE a == n * p
           q == a \div p
           r == a % p
<1>1. a \in Nat
  OBVIOUS
<1>2. q \in Int /\ r \in Int /\ a = q * p + r /\ 0 <= r /\ r < p
  BY <1>1
<1>3. a = n * p
  OBVIOUS
<1> HIDE DEF a, q, r
<1>4. ASSUME q < n PROVE FALSE
  <2>1. q * p + p <= n * p
    BY <1>2, <1>4, Multiples
  <2> QED BY <2>1, <1>2, <1>3
<1>5. ASSUME n < q PROVE FALSE
  <2>1. n * p + p <= q * p
    BY <1>2, <1>5, Multiples
  <2> QED BY <2>1, <1>2, <1>3
<1>6. q = n
  BY <1>2, <1>4, <1>5
<1>7. r = 0
  BY <1>6, <1>2, <1>3
<1> QED BY <1>6, <1>7 DEF a, q, r

(* A padded size is at least the size, and at most a padding more. *)
LEMMA Padding ==
    ASSUME NEW s \in Nat
    PROVE  ALIGN(s, TagAlign) \in Nat /\ s <= ALIGN(s, TagAlign)
BY DEF ALIGN, TagAlign

(* Tags that lie one behind the other lie behind all earlier ones. *)
LEMMA EachBehindAll ==
    ASSUME NEW ts \in TagLists, NEW k \in DOMAIN ts
    PROVE  \A j \in 1 .. k - 1 : Behind(ts[j]) <= ts[k].at
<1>1. ts \in Seq(Tags) /\ \A j \in DOMAIN ts : ts[j].at = IF j = 1 THEN InfoHeader ELSE Behind(ts[j - 1])
  BY TagListsAssumption
<1>2. Len(ts) \in Nat /\ DOMAIN ts = 1 .. Len(ts) /\ \A j \in 1 .. Len(ts) : ts[j] \in Tags
  BY <1>1
<1>3. ASSUME NEW j \in 1 .. Len(ts) PROVE ts[j].at \in Nat /\ Behind(ts[j]) \in Nat /\ ts[j].at <= Behind(ts[j])
  <2>1. ts[j].at \in Nat /\ ts[j].size \in Nat
    BY <1>2 DEF Tags
  <2>2. ALIGN(ts[j].size, TagAlign) \in Nat
    BY <2>1, Padding
  <2> QED BY <2>1, <2>2 DEF Behind
<1> DEFINE T == {m \in Nat : m \in 1 .. Len(ts) => \A j \in 1 .. m - 1 : Behind(ts[j]) <= ts[m].at}
<1>4. T \in SUBSET Nat /\ 0 \in T
  OBVIOUS
<1>5. ASSUME NEW m \in Nat, m \in T PROVE m + 1 \in T
  <2> SUFFICES ASSUME m + 1 \in 1 .. Len(ts), NEW j \in 1 .. (m + 1) - 1
               PROVE  Behind(ts[j]) <= ts[m + 1].at
    OBVIOUS
  <2>1. m \in 1 .. Len(ts) /\ j \in 1 .. Len(ts) /\ m + 1 # 1 /\ (m + 1) - 1 = m
    BY <1>2
  <2>2. ts[m + 1].at = Behind(ts[m])
    BY <1>1, <1>2, <2>1
  <2>3. CASE j = m
    BY <2>2, <2>3, <1>3, <2>1
  <2>4. CASE j # m
    <3>1. Behind(ts[j]) <= ts[m].at
      BY <1>5, <2>1, <2>4
    <3>2. ts[m].at <= Behind(ts[m]) /\ ts[m].at \in Nat /\ Behind(ts[m]) \in Nat /\ Behind(ts[j]) \in Nat
      BY <1>3, <2>1
    <3> QED BY <2>2, <3>1, <3>2
  <2> QED BY <2>3, <2>4
<1> HIDE DEF T
<1>6. \A m \in Nat : m \in T
  BY <1>4, <1>5, Induction
<1>7. k \in Nat /\ k \in 1 .. Len(ts)
  BY <1>2
<1> QED BY <1>6, <1>7 DEF T

(* A sum of lengths is a length. *)
LEMMA PlusIsLength ==
    ASSUME NEW a \in 0 .. LenMod - 1, NEW b \in 0 .. LenMod - 1
    PROVE  Plus(a, b) \in 0 .. LenMod - 1
<1>1. LenMod \in Nat /\ LenMod > 0
  BY TagListsAssumption
<1> QED BY <1>1 DEF Plus

-----------------------------------------------------------------------------
(* The pointer of the walk. *)

(* The walk stands at one of the tags. *)
LEMMA CurrentIsTag ==
    ASSUME LayoutInv, IsTag(tag)
    PROVE  \E k \in 1 .. Len(tags) : Current = tags[k] /\ tags[k].at = tag /\ tags[k] \in Tags
<1> DEFINE c == CHOOSE k \in DOMAIN tags : tags[k].at = tag
<1>1. c \in DOMAIN tags /\ tags[c].at = tag
  BY DEF IsTag
<1>2. Current = tags[c]
  BY DEF Current, TagAt
<1>3. DOMAIN tags = 1 .. Len(tags) /\ tags \in Seq(Tags)
  BY DEF LayoutInv
<1> HIDE DEF c
<1> QED BY <1>1, <1>2, <1>3

(* From a tag that is not the last, the walk advances to a tag. *)
LEMMA AdvanceToTag ==
    ASSUME LayoutInv, IsTag(tag), Current.type # End
    PROVE  Advance(tag, Current) \in Nat /\ IsTag(Advance(tag, Current))
<1>1. PICK k \in 1 .. Len(tags) : Current = tags[k] /\ tags[k].at = tag /\ tags[k] \in Tags
  BY CurrentIsTag
<1>2. Len(tags) \in Nat /\ DOMAIN tags = 1 .. Len(tags) /\ tags \in Seq(Tags)
  BY DEF LayoutInv
<1>3. k < Len(tags)
  <2>1. k = Len(tags) => tags[k].type = End
    BY DEF LayoutInv
  <2>2. k # Len(tags)
    BY <1>1, <2>1, Zenon
  <2> DEFINE n == Len(tags)
  <2>3. n \in Nat /\ k \in 1 .. n /\ k # n
    BY <1>2, <2>2
  <2> HIDE DEF n
  <2>4. k < n
    BY <2>3
  <2> QED BY <2>4 DEF n
<1>4. tags[k + 1].at = Behind(tags[k])
  BY <1>1, <1>3 DEF LayoutInv
<1>5. Advance(tag, Current) = tags[k + 1].at
  BY <1>1, <1>4 DEF Advance, Behind
<1>6. k + 1 \in DOMAIN tags /\ tags[k + 1] \in Tags
  BY <1>1, <1>2, <1>3
<1> QED BY <1>5, <1>6 DEF IsTag, Tags

-----------------------------------------------------------------------------
(* Before the walk the boot information is laid out and the pointer is at  *)
(* its first tag.                                                          *)
LEMMA InitInv == Init => IInv
<1> SUFFICES ASSUME Init PROVE IInv
  OBVIOUS
<1>1. PICK ts \in TagLists : tags = Append(ts, EndTag(ts))
  BY DEF Init
<1>2. /\ LenMod \in Nat /\ LenMod > 0 /\ ts \in Seq(Tags)
      /\ \A k \in DOMAIN ts :
            /\ ts[k].type # End /\ ts[k].size >= TagHeader
            /\ Len(ts[k].entries) = Places(ts[k])
            /\ ts[k].at = IF k = 1 THEN InfoHeader ELSE Behind(ts[k - 1])
  BY <1>1, TagListsAssumption
<1>b. \A k \in DOMAIN ts : \A j \in 1 .. k - 1 : Behind(ts[j]) <= ts[k].at
  BY <1>1, EachBehindAll
<1> DEFINE n == Len(ts)
<1>3. n \in Nat /\ DOMAIN ts = 1 .. n /\ \A k \in 1 .. n : ts[k] \in Tags
  BY <1>2
<1>4. ASSUME NEW k \in 1 .. n PROVE Behind(ts[k]) \in Nat /\ ts[k].at <= Behind(ts[k])
  <2>1. ts[k].at \in Nat /\ ts[k].size \in Nat
    BY <1>3 DEF Tags
  <2>2. ALIGN(ts[k].size, TagAlign) \in Nat
    BY <2>1, Padding
  <2> QED BY <2>1, <2>2 DEF Behind
<1>5. EndTag(ts) \in Tags
  <2>1. (IF ts = <<>> THEN InfoHeader ELSE Behind(ts[Len(ts)])) \in Nat
    BY <1>2, <1>3, <1>4 DEF InfoHeader
  <2>2. <<>> \in Seq(Entries)
    OBVIOUS
  <2> QED BY <2>1, <2>2 DEF EndTag, Tags, End, TagHeader
<1>6. /\ tags \in Seq(Tags) /\ Len(tags) = n + 1
      /\ \A k \in 1 .. n : tags[k] = ts[k]
      /\ tags[n + 1] = EndTag(ts)
  BY <1>1, <1>2, <1>3, <1>5
<1>7. /\ EndTag(ts).type = End /\ EndTag(ts).entry_size = 0 /\ EndTag(ts).entries = <<>>
      /\ EndTag(ts).at = IF n = 0 THEN InfoHeader ELSE Behind(ts[n])
  BY <1>2, <1>3 DEF EndTag
<1> HIDE DEF n
<1>8. TypeOK
  BY <1>2 DEF Init, TypeOK, InfoHeader, MEM
<1>9. LayoutInv
  <2>1. ASSUME NEW k \in 1 .. n PROVE tags[k].at <= tags[n + 1].at
    <3>1. ts[k].at <= Behind(ts[k]) /\ Behind(ts[k]) \in Nat /\ ts[k].at \in Nat
      BY <1>3, <1>4 DEF Tags
    <3>2. tags[n + 1].at = Behind(ts[n])
      BY <1>3, <1>6, <1>7
    <3>3. CASE k = n
      BY <3>1, <3>2, <3>3, <1>6
    <3>4. CASE k < n
      <4>1. n \in DOMAIN ts /\ k \in 1 .. n - 1
        BY <3>4, <1>3
      <4>2. Behind(ts[k]) <= ts[n].at
        BY <4>1, <1>b
      <4>3. ts[n].at <= Behind(ts[n]) /\ Behind(ts[n]) \in Nat /\ ts[n].at \in Nat
        BY <4>1, <1>3, <1>4 DEF Tags
      <4> QED BY <3>1, <3>2, <4>2, <4>3, <1>6
    <3> QED BY <3>3, <3>4, <1>3
  <2>2. tags[n + 1].at \in Nat
    BY <1>5, <1>6 DEF Tags
  <2>3. ASSUME NEW k \in 1 .. n PROVE tags[k + 1].at = Behind(tags[k])
    <3>1. CASE k = n
      BY <3>1, <1>3, <1>6, <1>7
    <3>2. CASE k < n
      <4>1. k + 1 \in DOMAIN ts /\ k + 1 # 1 /\ (k + 1) - 1 = k /\ k + 1 \in 1 .. n
        BY <3>2, <1>3
      <4>2. ts[k + 1].at = Behind(ts[k])
        BY <4>1, <1>2
      <4> QED BY <4>1, <4>2, <1>6
    <3> QED BY <3>1, <3>2, <1>3
  <2>4. ASSUME NEW k \in 1 .. n
        PROVE  tags[k].type # End /\ Len(tags[k].entries) = Places(tags[k])
    BY <1>2, <1>3, <1>6
  <2>5. tags[n + 1].type = End /\ Len(tags[n + 1].entries) = Places(tags[n + 1])
    BY <1>6, <1>7 DEF Places
  <2>6. \A k \in 1 .. n + 1 : k \in 1 .. n \/ k = n + 1
    BY <1>3
  <2>7. \A j \in 1 .. n : ts[j].at < Behind(ts[j]) /\ ts[j].at \in Nat /\ Behind(ts[j]) \in Nat
    <3> SUFFICES ASSUME NEW j \in 1 .. n
                 PROVE  ts[j].at < Behind(ts[j]) /\ ts[j].at \in Nat /\ Behind(ts[j]) \in Nat
      OBVIOUS
    <3>1. ts[j].size \in Nat /\ ts[j].at \in Nat /\ ts[j].size >= TagHeader
      BY <1>2, <1>3 DEF Tags
    <3>2. ALIGN(ts[j].size, TagAlign) \in Nat /\ ts[j].size <= ALIGN(ts[j].size, TagAlign)
      BY <3>1, Padding
    <3> QED BY <3>1, <3>2 DEF Behind, TagHeader
  <2>8. ASSUME NEW k \in 1 .. n + 1, NEW j \in 1 .. k - 1 PROVE tags[j].at < tags[k].at
    <3>1. j \in 1 .. n /\ tags[j] = ts[j]
      BY <1>3, <1>6
    <3>2. CASE k \in 1 .. n
      <4>1. Behind(ts[j]) <= ts[k].at
        BY <1>b, <1>3, <3>2
      <4>2. ts[k].at \in Nat
        BY <2>7, <3>2
      <4> QED BY <4>1, <4>2, <2>7, <3>1, <3>2, <1>6
    <3>3. CASE k = n + 1
      <4>1. tags[k].at = Behind(ts[n]) /\ n \in 1 .. n
        BY <3>1, <3>3, <1>3, <1>6, <1>7
      <4>2. ts[n].at < Behind(ts[n]) /\ ts[n].at \in Nat /\ Behind(ts[n]) \in Nat
        BY <4>1, <2>7
      <4>3. CASE j = n
        BY <4>1, <4>2, <4>3, <3>1
      <4>4. CASE j # n
        <5>1. n \in DOMAIN ts /\ j \in 1 .. n - 1
          BY <4>4, <3>1, <1>3
        <5>2. Behind(ts[j]) <= ts[n].at
          BY <5>1, <1>b
        <5> QED BY <5>2, <4>1, <4>2, <2>7, <3>1
      <4> QED BY <4>3, <4>4
    <3> QED BY <3>2, <3>3, <2>6
  <2> QED BY <2>1, <2>2, <2>3, <2>4, <2>5, <2>6, <2>8, <1>3, <1>6 DEF LayoutInv
<1>10. WalkInv
  <2>1. 1 \in DOMAIN tags
    BY <1>3, <1>6
  <2>2. tags[1].at = InfoHeader
    <3>1. CASE n = 0
      BY <3>1, <1>6, <1>7
    <3>2. CASE n # 0
      BY <3>2, <1>2, <1>3, <1>6
    <3> QED BY <3>1, <3>2
  <2> QED BY <2>1, <2>2 DEF WalkInv, IsTag, Init
<1> QED BY <1>8, <1>9, <1>10 DEF IInv

(* Steps that leave the tags alone leave the layout alone. *)
LEMMA LayoutKept == LayoutInv /\ tags' = tags => LayoutInv'
BY DEF LayoutInv

(* Going on to the next tag. *)
LEMMA WalkGoesOn ==
    ASSUME IInv, pc = "iter", IsTag(tag), Current.type # End, Step,
           UNCHANGED <<tags, pc, i, mmap>>,
           resource' \in [type : {0, MEM}, len : 0 .. LenMod - 1]
    PROVE  IInv'
<1>1. Advance(tag, Current) \in Nat /\ IsTag(Advance(tag, Current))
  BY AdvanceToTag DEF IInv
<1>2. tag' \in Nat /\ IsTag(tag)'
  BY <1>1 DEF Step, IsTag
<1> QED BY <1>2, LayoutKept DEF IInv, TypeOK, WalkInv

(* One entry of the memory map: it is there, and what it says is a length. *)
LEMMA EntryIsThere ==
    ASSUME IInv, pc = "entries", i < max_entries(Current)
    PROVE  /\ Current.entry_size \in Nat /\ Current.entry_size > 0
           /\ (mmap - MmapHeader) % Current.entry_size = 0
           /\ mmap - MmapHeader = i * Current.entry_size
           /\ Counted(EntryAt(Current)) \in 0 .. LenMod - 1
<1>1. PICK k \in 1 .. Len(tags) : Current = tags[k] /\ tags[k].at = tag /\ tags[k] \in Tags
  BY CurrentIsTag DEF IInv, WalkInv
<1> DEFINE t == Current
<1>2. /\ t \in Tags /\ t.entry_size \in Nat /\ t.size \in Nat /\ t.entries \in Seq(Entries)
      /\ i \in Nat /\ LenMod \in Nat /\ LenMod > 0
  BY <1>1, TagListsAssumption DEF Tags, IInv, TypeOK
<1>3. t.entry_size > 0 /\ t.size >= MmapHeader
  BY <1>2 DEF IInv, WalkInv, BadParameters, MmapHeader
<1>4. Len(t.entries) = max_entries(t)
  <2>1. Len(t.entries) = Places(t)
    BY <1>1 DEF IInv, LayoutInv
  <2> QED BY <2>1, <1>2, <1>3 DEF Places, max_entries, MmapHeader
<1>5. mmap = MmapHeader + i * t.entry_size
  BY DEF IInv, WalkInv
<1> HIDE DEF t
<1>6. mmap - MmapHeader = i * t.entry_size
  BY <1>2, <1>5 DEF MmapHeader
<1>7. (mmap - MmapHeader) \div t.entry_size = i /\ (mmap - MmapHeader) % t.entry_size = 0
  BY <1>2, <1>3, <1>6, Quotient
<1>8. i + 1 \in 1 .. Len(t.entries)
  <2>1. i < Len(t.entries)
    BY <1>4 DEF t
  <2> QED BY <2>1, <1>2
<1>9. EntryAt(t) \in Entries
  BY <1>2, <1>7, <1>8 DEF EntryAt
<1>10. Counted(EntryAt(t)) \in 0 .. LenMod - 1
  BY <1>9, <1>2 DEF Counted, Entries
<1> QED BY <1>2, <1>3, <1>6, <1>7, <1>10 DEF t

(* Reading an entry keeps the pointer where the loop counts. *)
LEMMA EntryKeeps == IInv /\ Entry => IInv'
<1> SUFFICES ASSUME IInv, Entry PROVE IInv'
  OBVIOUS
<1> DEFINE s == Current.entry_size
<1>1. /\ s \in Nat /\ mmap - MmapHeader = i * s
      /\ Counted(EntryAt(Current)) \in 0 .. LenMod - 1
  BY EntryIsThere DEF Entry
<1>2. i \in Nat /\ mmap \in Nat /\ resource \in [type : {0, MEM}, len : 0 .. LenMod - 1]
  BY DEF IInv, TypeOK
<1>3. /\ i' = i + 1 /\ mmap' = mmap + s /\ tags' = tags /\ tag' = tag /\ pc' = pc
      /\ resource' = [resource EXCEPT !.len = Plus(@, Counted(EntryAt(Current)))]
  BY DEF Entry
<1>4. Current' = Current
  BY <1>3 DEF Current, TagAt
<1>5. PICK v \in 0 .. LenMod - 1 : resource' = [resource EXCEPT !.len = v]
  <2>1. Plus(resource.len, Counted(EntryAt(Current))) \in 0 .. LenMod - 1
    BY <1>1, <1>2, PlusIsLength
  <2> QED BY <2>1, <1>3
<1>6. resource' \in [type : {0, MEM}, len : 0 .. LenMod - 1]
  BY <1>2, <1>5
<1> HIDE DEF s
<1>7. mmap' \in Nat /\ i' \in Nat
  BY <1>1, <1>2, <1>3
<1>8. mmap' = MmapHeader + i' * s
  <2>1. (i + 1) * s = i * s + s
    BY <1>1, <1>2
  <2> QED BY <2>1, <1>1, <1>2, <1>3 DEF MmapHeader
<1>9. TypeOK'
  BY <1>3, <1>6, <1>7 DEF IInv, TypeOK
<1>10. WalkInv'
  <2>1. IsTag(tag)'
    BY <1>3 DEF IInv, WalkInv, IsTag
  <2>2. (Current.type = Mmap /\ ~BadParameters(Current))'
    BY <1>4 DEF IInv, WalkInv, Entry, BadParameters
  <2>3. (mmap = MmapHeader + i * Current.entry_size)'
    BY <1>4, <1>8 DEF s
  <2> QED BY <2>1, <2>2, <2>3 DEF WalkInv
<1> QED BY <1>3, <1>9, <1>10, LayoutKept DEF IInv

(* Every step of the walk keeps the invariant. *)
LEMMA StepInv == IInv /\ [Next]_vars => IInv'
<1> SUFFICES ASSUME IInv, [Next]_vars PROVE IInv'
  OBVIOUS
<1>0. Reset \in [type : {0, MEM}, len : 0 .. LenMod - 1]
  BY TagListsAssumption DEF Reset
<1>1. CASE IterEnd
  <2>1. tags' = tags /\ tag' = tag
    BY <1>1 DEF IterEnd
  <2> QED BY <1>1, <2>1, LayoutKept DEF IterEnd, IInv, TypeOK, WalkInv, IsTag
<1>2. CASE OtherTag
  BY <1>2, WalkGoesOn DEF OtherTag, IInv, TypeOK
<1>3. CASE BadMmap
  BY <1>0, <1>3, WalkGoesOn DEF BadMmap, End, Mmap
<1>4. CASE EnterMmap
  <2>1. tags' = tags /\ tag' = tag /\ i' = 0 /\ mmap' = MmapHeader /\ pc' = "entries"
    BY <1>4 DEF EnterMmap
  <2>2. Current' = Current
    BY <2>1 DEF Current, TagAt
  <2>3. TypeOK'
    BY <1>0, <1>4, <2>1 DEF EnterMmap, IInv, TypeOK, MmapHeader
  <2>4. PICK k \in 1 .. Len(tags) : Current = tags[k] /\ tags[k].at = tag /\ tags[k] \in Tags
    BY CurrentIsTag DEF IInv, WalkInv
  <2>5. Current.entry_size \in Nat
    BY <2>4 DEF Tags
  <2>6. WalkInv'
    <3>1. IsTag(tag)'
      BY <2>1 DEF IInv, WalkInv, IsTag
    <3>2. (Current.type = Mmap /\ ~BadParameters(Current))'
      BY <1>4, <2>2 DEF EnterMmap, BadParameters
    <3>3. (mmap = MmapHeader + i * Current.entry_size)'
      BY <2>1, <2>2, <2>5 DEF MmapHeader
    <3> QED BY <3>1, <3>2, <3>3 DEF WalkInv
  <2> QED BY <2>1, <2>3, <2>6, LayoutKept DEF IInv
<1>5. CASE Entry
  BY <1>5, EntryKeeps
<1>6. CASE LeaveMmap
  <2>1. tags' = tags /\ tag' = tag
    BY <1>6 DEF LeaveMmap
  <2> QED BY <1>6, <2>1, LayoutKept DEF LeaveMmap, IInv, TypeOK, WalkInv, IsTag
<1>7. CASE UNCHANGED vars
  <2>1. tags' = tags /\ tag' = tag /\ i' = i /\ mmap' = mmap /\ pc' = pc /\ resource' = resource
    BY <1>7 DEF vars
  <2>2. Current' = Current
    BY <2>1 DEF Current, TagAt
  <2> QED BY <2>1, <2>2, LayoutKept DEF IInv, TypeOK, WalkInv, IsTag, BadParameters
<1> QED BY <1>1, <1>2, <1>3, <1>4, <1>5, <1>6, <1>7 DEF Next

LEMMA Inductive == Spec => []IInv
BY InitInv, StepInv, PTL DEF Spec

-----------------------------------------------------------------------------
(* The locals of multiboot2_iter and get_memory stay in their types, and   *)
(* the total in a size_t, whatever the memory map says (multiboot2.cpp:    *)
(* 140).                                                                   *)
THEOREM TypesKept == Spec => []TypeOK
<1>1. IInv => TypeOK
  BY DEF IInv
<1> QED BY <1>1, Inductive, PTL

(* multiboot2_iter looks only at the start of tags and never behind the    *)
(* end tag, and get_memory reads only whole entries of the tag, also when  *)
(* their size is not the struct's (multiboot2.cpp:80, 121-127).            *)
THEOREM OnlyTagsAreRead == Spec => []ReadsInsideTag
<1>1. ASSUME IInv PROVE ReadsInsideTag
  <2>1. PICK k \in 1 .. Len(tags) : Current = tags[k] /\ tags[k].at = tag /\ tags[k] \in Tags
    BY <1>1, CurrentIsTag DEF IInv, WalkInv
  <2>2. /\ Len(tags) \in 1 .. Len(tags) /\ tags \in Seq(Tags)
    BY <1>1 DEF IInv, LayoutInv
  <2>3. tags[Len(tags)] \in Tags
    BY <2>2
  <2>4. tag <= tags[Len(tags)].at /\ tags[Len(tags)].at \in Nat /\ tag \in Nat
    BY <1>1, <2>1, <2>3 DEF IInv, LayoutInv, Tags
  <2>5. WalkStaysOnTags
    BY <1>1, <2>4 DEF WalkStaysOnTags, InfoEnd, TagHeader, IInv, WalkInv
  <2>6. ASSUME pc = "entries", i < max_entries(Current), EntryFits(Current)
        PROVE  /\ mmap >= MmapHeader
               /\ tag + mmap + EntryBytes <= Advance(tag, Current)
               /\ (mmap - MmapHeader) % Current.entry_size = 0
    <3>1. /\ Current.entry_size \in Nat /\ mmap - MmapHeader = i * Current.entry_size
          /\ (mmap - MmapHeader) % Current.entry_size = 0
      BY <1>1, <2>6, EntryIsThere
    <3>2. i \in Nat /\ mmap \in Nat /\ Current.size \in Nat
      BY <1>1, <2>1 DEF IInv, TypeOK, Tags
    <3>3. i * Current.entry_size >= 0
      BY <3>1, <3>2
    <3>4. mmap >= MmapHeader
      BY <3>1, <3>2, <3>3 DEF MmapHeader
    <3>5. ALIGN(Current.size, TagAlign) \in Nat /\ Current.size <= ALIGN(Current.size, TagAlign)
      BY <3>2, Padding
    <3>6. mmap + EntryBytes <= Current.size
      BY <2>6 DEF EntryFits
    <3>7. tag + mmap + EntryBytes <= tag + ALIGN(Current.size, TagAlign)
      BY <3>2, <3>5, <3>6, <2>4 DEF EntryBytes
    <3> QED BY <3>1, <3>4, <3>7 DEF Advance
  <2> QED BY <2>5, <2>6 DEF ReadsInsideTag
<1> QED BY <1>1, Inductive, PTL

-----------------------------------------------------------------------------
(* The total.  While the walk is before the first usable memory map, the   *)
(* total is 0; inside it, it is the sum of the entries counted so far.  A  *)
(* break loses nothing, since no entry behind it lies inside the tag.      *)

(* The sums of AvailableTotal. *)
UpTo(t) == CHOOSE upto : upto = [e \in Nat |-> IF e = 0 THEN 0 ELSE upto[e - 1] + AvailableLen(t, e)]

NoneBefore(pos) == \A k \in DOMAIN tags : tags[k].at < pos => k \notin UsableMaps
TotalInv ==
    /\ pc = "iter" => NoneBefore(tag) /\ resource.len = 0
    /\ pc = "entries" =>
          /\ NoneBefore(tag) /\ i <= Len(Current.entries)
          /\ resource.len = UpTo(Current)[i] % LenMod
    /\ TotalIsAvailable

LEMMA LengthsAre ==
    ASSUME NEW t \in Tags, NEW e \in Nat
    PROVE  AvailableLen(t, e) \in Nat
<1>1. t.entries \in Seq(Entries) /\ LenMod \in Nat
  BY TagListsAssumption DEF Tags
<1>2. CASE e \in Whole(t)
  <2>1. t.entries[e] \in Entries
    BY <1>1, <1>2 DEF Whole
  <2> QED BY <2>1, <1>1 DEF AvailableLen, Entries
<1>3. CASE e \notin Whole(t)
  BY <1>3 DEF AvailableLen
<1> QED BY <1>2, <1>3

LEMMA SumsAre ==
    ASSUME NEW t \in Tags
    PROVE  /\ UpTo(t) \in [Nat -> Nat] /\ UpTo(t)[0] = 0
           /\ \A e \in Nat : UpTo(t)[e + 1] = UpTo(t)[e] + AvailableLen(t, e + 1)
           /\ AvailableTotal(t) = UpTo(t)[Len(t.entries)]
<1> DEFINE step == [e \in Nat |-> [v \in Nat |-> v + AvailableLen(t, e)]]
<1>1. step \in [Nat -> [Nat -> Nat]]
  BY LengthsAre
<1>2. \A e \in Nat, v \in Nat : step[e][v] = v + AvailableLen(t, e)
  OBVIOUS
<1>0. 0 \in Nat
  OBVIOUS
<1> HIDE DEF step
<1>3. PICK f \in [Nat -> Nat] : f[0] = 0 /\ \A e \in Nat \ {0} : f[e] = step[e][f[e - 1]]
  <2>1. step \in Steps(Nat)
    BY <1>1 DEF Steps
  <2>2. PICK f : Recursive(f, Nat, 0, step)
    BY <1>0, <2>1, RecursionExists, Zenon
  <2> QED BY <2>2 DEF Recursive
<1>4. f = [e \in Nat |-> IF e = 0 THEN 0 ELSE f[e - 1] + AvailableLen(t, e)]
  <2>1. ASSUME NEW e \in Nat, e # 0 PROVE step[e][f[e - 1]] = f[e - 1] + AvailableLen(t, e)
    <3>1. e - 1 \in Nat
      BY <2>1
    <3>2. f[e - 1] \in Nat
      BY <3>1
    <3> QED BY <1>2, <3>2
  <2>2. \A e \in Nat : f[e] = IF e = 0 THEN 0 ELSE f[e - 1] + AvailableLen(t, e)
    BY <1>3, <2>1
  <2> QED BY <2>2, <1>3
<1> DEFINE u == UpTo(t)
<1>5. u = [e \in Nat |-> IF e = 0 THEN 0 ELSE u[e - 1] + AvailableLen(t, e)]
  BY <1>4 DEF UpTo
<1>6. AvailableTotal(t) = u[Len(t.entries)]
  BY DEF AvailableTotal, UpTo
<1> HIDE DEF u
<1>7. u[0] = 0 /\ \A e \in Nat : u[e + 1] = u[e] + AvailableLen(t, e + 1)
  <2>1. \A e \in Nat : u[e] = IF e = 0 THEN 0 ELSE u[e - 1] + AvailableLen(t, e)
    BY <1>5
  <2>2. ASSUME NEW e \in Nat PROVE u[e + 1] = u[e] + AvailableLen(t, e + 1)
    <3>1. e + 1 \in Nat /\ e + 1 # 0 /\ (e + 1) - 1 = e
      OBVIOUS
    <3> QED BY <2>1, <3>1
  <2> QED BY <2>1, <2>2
<1>8. u \in [Nat -> Nat]
  <2> DEFINE T == {e \in Nat : u[e] \in Nat}
  <2>1. T \in SUBSET Nat /\ 0 \in T
    BY <1>7
  <2>2. ASSUME NEW e \in Nat, e \in T PROVE e + 1 \in T
    BY <2>2, <1>7, LengthsAre
  <2> HIDE DEF T
  <2>3. \A e \in Nat : e \in T
    BY <2>1, <2>2, Induction
  <2>4. \A e \in Nat : u[e] \in Nat
    BY <2>3 DEF T
  <2> QED BY <2>4, <1>5
<1> QED BY <1>6, <1>7, <1>8 DEF u

(* Adding to a remainder. *)
LEMMA Remainder ==
    ASSUME NEW a \in Nat, NEW b \in Nat
    PROVE  ((a % LenMod) + b) % LenMod = (a + b) % LenMod
<1>1. LenMod \in Nat /\ LenMod > 0
  BY TagListsAssumption
<1> DEFINE p == LenMod
           w == a % p
           c == w + b
           q == a \div p
           r == (a + b) \div p
           s == (a + b) % p
           u == c \div p
           v == c % p
<1>2. q \in Int /\ w \in Nat /\ a = q * p + w
  BY <1>1
<1>3. c \in Nat /\ a + b = q * p + c
  <2> HIDE DEF w, q
  <2> QED BY <1>1, <1>2
<1>4. r \in Int /\ s \in Nat /\ a + b = r * p + s /\ s < p
  BY <1>1
<1>5. u \in Int /\ v \in Nat /\ c = u * p + v /\ v < p
  <2> HIDE DEF c
  <2> QED BY <1>1, <1>3
<1>6. p \in Nat /\ p > 0
  BY <1>1
<1> HIDE DEF w, c, q, r, s, u, v, p
<1>7. (q + u) * p = q * p + u * p /\ q + u \in Int
  BY <1>2, <1>5, <1>6
<1>8. (q + u) * p + v = r * p + s
  <2> DEFINE qp == q * p
             up == u * p
             rp == r * p
  <2>1. qp \in Int /\ up \in Int /\ rp \in Int
    BY <1>2, <1>4, <1>5, <1>6
  <2>2. a + b = qp + c /\ c = up + v /\ a + b = rp + s /\ (q + u) * p = qp + up
    BY <1>3, <1>4, <1>5, <1>7
  <2> HIDE DEF qp, up, rp
  <2>3. (qp + up) + v = rp + s
    BY <2>1, <2>2, <1>3, <1>4, <1>5
  <2> QED BY <2>2, <2>3 DEF rp
<1>9. ASSUME q + u < r PROVE FALSE
  <2>1. (q + u) * p + p <= r * p
    BY <1>4, <1>6, <1>7, <1>9, Multiples
  <2> DEFINE x == (q + u) * p
             y == r * p
  <2>2. x \in Int /\ y \in Int
    BY <1>4, <1>6, <1>7
  <2>3. x + v = y + s
    BY <1>8
  <2> HIDE DEF x, y
  <2> QED BY <2>1, <2>2, <2>3, <1>5, <1>4, <1>6 DEF x, y
<1>10. ASSUME r < q + u PROVE FALSE
  <2>1. r * p + p <= (q + u) * p
    BY <1>4, <1>6, <1>7, <1>10, Multiples
  <2> DEFINE x == (q + u) * p
             y == r * p
  <2>2. x \in Int /\ y \in Int
    BY <1>4, <1>6, <1>7
  <2>3. x + v = y + s
    BY <1>8
  <2> HIDE DEF x, y
  <2> QED BY <2>1, <2>2, <2>3, <1>5, <1>4, <1>6 DEF x, y
<1>11. r = q + u
  BY <1>4, <1>7, <1>9, <1>10
<1>12. v = s
  BY <1>4, <1>5, <1>6, <1>8, <1>11
<1> QED BY <1>12 DEF w, c, s, v, p

(* The entry that the loop reads is the one it counts. *)
LEMMA EntryCounted ==
    ASSUME IInv, pc = "entries", i < max_entries(Current)
    PROVE  /\ Current \in Tags /\ i + 1 \in 1 .. Len(Current.entries)
           /\ i + 1 \in Whole(Current) <=> EntryFits(Current)
           /\ EntryFits(Current) => Counted(EntryAt(Current)) = AvailableLen(Current, i + 1)
<1>1. PICK k \in 1 .. Len(tags) : Current = tags[k] /\ tags[k].at = tag /\ tags[k] \in Tags
  BY CurrentIsTag DEF IInv, WalkInv
<1> DEFINE t == Current
<1>2. /\ t \in Tags /\ t.entry_size \in Nat /\ t.size \in Nat /\ t.entries \in Seq(Entries) /\ i \in Nat
  BY <1>1 DEF Tags, IInv, TypeOK
<1>3. t.entry_size > 0 /\ t.size >= MmapHeader
  BY <1>2 DEF IInv, WalkInv, BadParameters, MmapHeader
<1>4. Len(t.entries) = max_entries(t)
  <2>1. Len(t.entries) = Places(t)
    BY <1>1 DEF IInv, LayoutInv
  <2> QED BY <2>1, <1>2, <1>3 DEF Places, max_entries, MmapHeader
<1>5. mmap = MmapHeader + i * t.entry_size /\ mmap \in Nat
  BY DEF IInv, WalkInv, TypeOK
<1>6. i < Len(t.entries)
  BY <1>4
<1> HIDE DEF t
<1>7. mmap - MmapHeader = i * t.entry_size
  BY <1>2, <1>5 DEF MmapHeader
<1>8. (mmap - MmapHeader) \div t.entry_size = i
  BY <1>2, <1>3, <1>7, Quotient
<1>9. i + 1 \in 1 .. Len(t.entries) /\ (i + 1) - 1 = i
  BY <1>2, <1>6
<1>10. i + 1 \in Whole(t) <=> MmapHeader + i * t.entry_size + EntryBytes <= t.size
  BY <1>9 DEF Whole
<1>11. i + 1 \in Whole(t) <=> EntryFits(t)
  <2>1. MmapHeader + i * t.entry_size + EntryBytes = mmap + EntryBytes
    <3> DEFINE x == i * t.entry_size
    <3>1. x \in Int
      BY <1>2
    <3>2. mmap = MmapHeader + x
      BY <1>5
    <3> HIDE DEF x
    <3>3. MmapHeader + x + EntryBytes = mmap + EntryBytes
      BY <3>1, <3>2 DEF MmapHeader, EntryBytes
    <3> QED BY <3>3 DEF x
  <2> QED BY <2>1, <1>10 DEF EntryFits
<1>12. EntryAt(t) = t.entries[i + 1] /\ t.entries[i + 1] \in Entries
  BY <1>2, <1>8, <1>9 DEF EntryAt
<1>13. EntryFits(t) => Counted(EntryAt(t)) = AvailableLen(t, i + 1)
  BY <1>11, <1>12 DEF Counted, AvailableLen, Entries
<1> QED BY <1>2, <1>9, <1>11, <1>13 DEF t

(* Behind an entry that does not fit, none does. *)
LEMMA NothingBehind ==
    ASSUME IInv, pc = "entries", i < max_entries(Current), ~EntryFits(Current)
    PROVE  UpTo(Current)[i] = AvailableTotal(Current)
<1> DEFINE t == Current
           u == UpTo(t)
           n == Len(t.entries)
           T == {d \in Nat : i + d > n \/ u[i + d] = u[i]}
<1>1. t \in Tags /\ i + 1 \in 1 .. n /\ i + 1 \notin Whole(t)
  BY EntryCounted
<1>2. t.entry_size \in Nat /\ t.size \in Nat /\ i \in Nat /\ n \in Nat
  <2>1. t.entries \in Seq(Entries) /\ t.entry_size \in Nat /\ t.size \in Nat
    BY <1>1 DEF Tags
  <2> QED BY <2>1 DEF IInv, TypeOK
<1>3. /\ u \in [Nat -> Nat]
      /\ \A e \in Nat : u[e + 1] = u[e] + AvailableLen(t, e + 1)
      /\ AvailableTotal(t) = u[n]
  BY <1>1, SumsAre
<1>4. ASSUME NEW e \in Nat, e > i PROVE AvailableLen(t, e) = 0
  <2>1. SUFFICES ASSUME e \in Whole(t) PROVE FALSE
    BY DEF AvailableLen
  <2>2. e \in 1 .. n /\ MmapHeader + (e - 1) * t.entry_size + EntryBytes <= t.size
    BY <2>1 DEF Whole
  <2> DEFINE x == i * t.entry_size
             y == (e - 1) * t.entry_size
  <2>3. x <= y /\ x \in Int /\ y \in Int
    <3>1. (e - 1 - i) * t.entry_size >= 0
      BY <1>2, <1>4
    <3>2. (e - 1 - i) * t.entry_size = y - x
      BY <1>2, <1>4
    <3> QED BY <3>1, <3>2, <1>2, <1>4
  <2>4. (i + 1) - 1 = i
    BY <1>2
  <2>5. ~(MmapHeader + x + EntryBytes <= t.size)
    BY <1>1, <2>4 DEF Whole
  <2>6. MmapHeader + y + EntryBytes <= t.size
    BY <2>2
  <2> HIDE DEF x, y
  <2> QED BY <2>3, <2>5, <2>6, <1>2 DEF MmapHeader, EntryBytes
<1> HIDE DEF u, t, n
<1>5. T \in SUBSET Nat /\ 0 \in T
  BY <1>2
<1>6. ASSUME NEW d \in Nat, d \in T PROVE d + 1 \in T
  <2>1. CASE i + d + 1 > n
    BY <2>1, <1>2
  <2>2. CASE ~(i + d + 1 > n)
    <3>1. u[i + d] = u[i] /\ i + d \in Nat
      BY <2>2, <1>6, <1>2
    <3>2. u[i + d + 1] = u[i + d] + AvailableLen(t, i + d + 1)
      BY <3>1, <1>3, <1>2
    <3>3. AvailableLen(t, i + d + 1) = 0
      BY <1>4, <1>2
    <3>4. u[i + d] \in Nat
      BY <3>1, <1>3
    <3>5. u[i + d + 1] = u[i]
      BY <3>1, <3>2, <3>3, <3>4
    <3>6. i + (d + 1) = i + d + 1
      BY <1>2
    <3> QED BY <3>5, <3>6
  <2> QED BY <2>1, <2>2
<1> DEFINE d == n - i
<1>7. d \in Nat /\ i + d = n
  BY <1>1, <1>2
<1>8. d \in T
  <2> HIDE DEF T, d
  <2> QED BY <1>5, <1>6, <1>7, Induction
<1>9. u[n] = u[i]
  BY <1>7, <1>8, <1>2
<1> QED BY <1>3, <1>9 DEF u, t

LEMMA TotalInitially == Init => TotalInv
<1> SUFFICES ASSUME Init PROVE TotalInv
  OBVIOUS
<1>1. LayoutInv /\ IsTag(tag)
  BY InitInv DEF IInv, WalkInv
<1>2. pc = "iter" /\ resource.len = 0 /\ tag = InfoHeader
  BY DEF Init
<1>3. tags \in Seq(Tags) /\ Len(tags) \in Nat /\ DOMAIN tags = 1 .. Len(tags)
  BY <1>1 DEF LayoutInv
<1>4. tags[1].at = tag
  <2>1. PICK ts \in TagLists : tags = Append(ts, EndTag(ts))
    BY DEF Init
  <2>2. ts \in Seq(Tags)
    BY TagListsAssumption
  <2>3. CASE ts = <<>>
    <3>1. tags[1] = EndTag(ts)
      BY <2>1, <2>2, <2>3
    <3> QED BY <3>1, <2>3, <1>2 DEF EndTag
  <2>4. CASE ts # <<>>
    <3>1. 1 \in DOMAIN ts /\ tags[1] = ts[1]
      BY <2>1, <2>2, <2>4
    <3>2. ts[1].at = InfoHeader
      BY <3>1, TagListsAssumption
    <3> QED BY <3>1, <3>2, <1>2
  <2> QED BY <2>3, <2>4
<1>5. NoneBefore(tag)
  <2> SUFFICES ASSUME NEW k \in 1 .. Len(tags), tags[k].at < tag PROVE FALSE
    BY <1>3 DEF NoneBefore
  <2>1. k = 1 \/ (k > 1 /\ 1 \in 1 .. k - 1)
    BY <1>3
  <2>2. k > 1 => tags[1].at < tags[k].at
    BY <2>1, <1>1 DEF LayoutInv
  <2>3. tags[k].at \in Nat /\ tag \in Nat
    <3>1. tags[k] \in Tags
      BY <1>3
    <3> QED BY <3>1, <1>2 DEF Tags, InfoHeader
  <2> QED BY <2>1, <2>2, <2>3, <1>4
<1> QED BY <1>2, <1>5 DEF TotalInv, TotalIsAvailable

(* Tags and positions have the same order. *)
LEMMA PlacesOrdered ==
    ASSUME LayoutInv, NEW j \in 1 .. Len(tags), NEW k \in 1 .. Len(tags)
    PROVE  tags[j].at < tags[k].at <=> j < k
<1>1. tags \in Seq(Tags) /\ Len(tags) \in Nat
  BY DEF LayoutInv
<1>2. tags[j].at \in Nat /\ tags[k].at \in Nat
  <2>1. tags[j] \in Tags /\ tags[k] \in Tags
    BY <1>1
  <2> QED BY <2>1 DEF Tags
<1>3. CASE j < k
  <2>1. j \in 1 .. k - 1
    BY <1>1, <1>3
  <2> QED BY <2>1, <1>3 DEF LayoutInv
<1>4. CASE k < j
  <2>1. k \in 1 .. j - 1
    BY <1>1, <1>4
  <2>2. tags[k].at < tags[j].at
    BY <2>1 DEF LayoutInv
  <2> QED BY <2>2, <1>2, <1>4
<1>5. CASE j = k
  BY <1>5, <1>2
<1> QED BY <1>3, <1>4, <1>5

(* The walk passes a tag that is no usable memory map. *)
LEMMA NonePassed ==
    ASSUME IInv, NoneBefore(tag), Current.type # End, Step, tags' = tags,
           Current.type # Mmap \/ BadParameters(Current)
    PROVE  NoneBefore(tag)'
<1>1. PICK c \in 1 .. Len(tags) : Current = tags[c] /\ tags[c].at = tag /\ tags[c] \in Tags
  BY CurrentIsTag DEF IInv, WalkInv
<1>2. tags \in Seq(Tags) /\ Len(tags) \in Nat /\ DOMAIN tags = 1 .. Len(tags)
  BY DEF IInv, LayoutInv
<1>3. c < Len(tags)
  <2>1. c # Len(tags)
    BY <1>1, <1>2 DEF IInv, LayoutInv
  <2> DEFINE n == Len(tags)
  <2>2. n \in Nat /\ c \in 1 .. n /\ c # n
    BY <2>1, <1>2
  <2> HIDE DEF n
  <2>3. c < n
    BY <2>2
  <2> QED BY <2>3 DEF n
<1>4. tag' = tags[c + 1].at
  BY <1>1, <1>3 DEF Step, Advance, IInv, LayoutInv, Behind
<1>5. c + 1 \in 1 .. Len(tags)
  BY <1>2, <1>3
<1>6. ASSUME NEW k \in 1 .. Len(tags), tags[k].at < tag' PROVE k \notin UsableMaps
  <2>1. k < c + 1
    BY <1>4, <1>5, <1>6, PlacesOrdered DEF IInv
  <2>2. CASE k = c
    BY <2>2, <1>1 DEF UsableMaps
  <2>3. CASE k < c
    <3>1. tags[k].at < tag
      BY <2>3, <1>1, PlacesOrdered DEF IInv
    <3> QED BY <3>1, <1>2 DEF NoneBefore
  <2> QED BY <2>1, <2>2, <2>3, <1>2
<1>7. UsableMaps' = UsableMaps
  BY DEF UsableMaps, BadParameters
<1> QED BY <1>2, <1>6, <1>7 DEF NoneBefore

(* A usable memory map with none before it is the first. *)
LEMMA FirstUsable ==
    ASSUME IInv, NoneBefore(tag), Current.type = Mmap, ~BadParameters(Current)
    PROVE  UsableMaps # {} /\ tags[Min(UsableMaps)] = Current /\ Current \in Tags
<1>1. PICK c \in 1 .. Len(tags) : Current = tags[c] /\ tags[c].at = tag /\ tags[c] \in Tags
  BY CurrentIsTag DEF IInv, WalkInv
<1>2. tags \in Seq(Tags) /\ Len(tags) \in Nat /\ DOMAIN tags = 1 .. Len(tags)
  BY DEF IInv, LayoutInv
<1>3. c \in UsableMaps /\ UsableMaps \in SUBSET Nat /\ UsableMaps \subseteq 1 .. Len(tags)
  BY <1>1, <1>2 DEF UsableMaps
<1> DEFINE k == Min(UsableMaps)
<1>4. k \in UsableMaps /\ \A y \in UsableMaps : k <= y
  BY <1>3, MinOfSome
<1> HIDE DEF k
<1>5. k <= c /\ k \in 1 .. Len(tags)
  BY <1>3, <1>4
<1>6. ~(tags[k].at < tag)
  BY <1>2, <1>4, <1>5 DEF NoneBefore
<1>7. ~(k < c)
  BY <1>1, <1>5, <1>6, PlacesOrdered DEF IInv
<1>8. k = c
  BY <1>5, <1>7, <1>2
<1> QED BY <1>1, <1>3, <1>8 DEF k

LEMMA TotalGoesOn == IInv /\ TotalInv /\ [Next]_vars => TotalInv'
<1> SUFFICES ASSUME IInv, TotalInv, [Next]_vars PROVE TotalInv'
  OBVIOUS
<1>0. LenMod \in Nat /\ LenMod > 0 /\ resource \in [type : {0, MEM}, len : 0 .. LenMod - 1]
  BY TagListsAssumption DEF IInv, TypeOK
<1>1. CASE IterEnd
  <2>1. tags' = tags /\ resource' = resource /\ pc' = "done" /\ pc = "iter" /\ Current.type = End
    BY <1>1 DEF IterEnd
  <2>2. PICK c \in 1 .. Len(tags) : Current = tags[c] /\ tags[c].at = tag /\ tags[c] \in Tags
    BY CurrentIsTag DEF IInv, WalkInv
  <2>3. tags \in Seq(Tags) /\ Len(tags) \in Nat /\ DOMAIN tags = 1 .. Len(tags)
    BY DEF IInv, LayoutInv
  <2>4. c = Len(tags)
    BY <2>1, <2>2 DEF IInv, LayoutInv
  <2>5. ASSUME NEW k \in UsableMaps PROVE FALSE
    <3>1. k \in 1 .. Len(tags) /\ tags[k].type = Mmap
      BY <2>3 DEF UsableMaps
    <3>2. k # c
      BY <3>1, <2>1, <2>2 DEF Mmap, End
    <3>3. k < c
      BY <3>1, <3>2, <2>4, <2>3
    <3>4. tags[k].at < tag
      BY <3>1, <3>3, <2>2, PlacesOrdered DEF IInv
    <3> QED BY <3>1, <3>4, <2>1, <2>3 DEF TotalInv, NoneBefore
  <2>6. UsableMaps' = {}
    BY <2>1, <2>5 DEF UsableMaps, BadParameters
  <2>7. resource'.len = 0
    BY <2>1 DEF TotalInv
  <2> QED BY <2>1, <2>6, <2>7 DEF TotalInv, TotalIsAvailable
<1>2. CASE OtherTag
  <2>1. tags' = tags /\ resource' = resource /\ pc' = "iter" /\ pc = "iter"
    BY <1>2 DEF OtherTag
  <2>2. NoneBefore(tag)'
    BY <1>2, <2>1, NonePassed DEF OtherTag, TotalInv
  <2> QED BY <2>1, <2>2 DEF TotalInv, TotalIsAvailable
<1>3. CASE BadMmap
  <2>1. tags' = tags /\ resource'.len = 0 /\ pc' = "iter" /\ pc = "iter"
    BY <1>3 DEF BadMmap, Reset
  <2>2. NoneBefore(tag)'
    BY <1>3, <2>1, NonePassed DEF BadMmap, TotalInv, Mmap, End
  <2> QED BY <2>1, <2>2 DEF TotalInv, TotalIsAvailable
<1>4. CASE EnterMmap
  <2>1. /\ tags' = tags /\ tag' = tag /\ resource'.len = 0 /\ pc' = "entries" /\ pc = "iter" /\ i' = 0
    BY <1>4 DEF EnterMmap, Reset
  <2>2. Current' = Current
    BY <2>1 DEF Current, TagAt
  <2>3. NoneBefore(tag)'
    BY <2>1 DEF TotalInv, NoneBefore, UsableMaps, BadParameters
  <2>4. PICK c \in 1 .. Len(tags) : Current = tags[c] /\ tags[c].at = tag /\ tags[c] \in Tags
    BY CurrentIsTag DEF IInv, WalkInv
  <2>5. UpTo(Current)[0] = 0 /\ Len(Current.entries) \in Nat
    <3>1. Current.entries \in Seq(Entries)
      BY <2>4 DEF Tags
    <3>2. Current \in Tags
      BY <2>4
    <3>3. UpTo(Current)[0] = 0
      BY <3>2, SumsAre
    <3> QED BY <3>1, <3>3
  <2>6. 0 % LenMod = 0
    BY <1>0
  <2>7. UpTo(Current')[i'] % LenMod = 0 /\ i' <= Len(Current'.entries)
    BY <2>1, <2>2, <2>5, <2>6
  <2>8. (UpTo(Current)[i])' = UpTo(Current')[i'] /\ Len(Current.entries)' = Len(Current'.entries)
    BY DEF UpTo, AvailableLen, Whole
  <2> QED BY <2>1, <2>3, <2>7, <2>8 DEF TotalInv, TotalIsAvailable
<1>5. CASE Entry
  <2>1. /\ tags' = tags /\ tag' = tag /\ pc' = "entries" /\ pc = "entries" /\ i' = i + 1
        /\ i < max_entries(Current) /\ EntryFits(Current)
        /\ resource' = [resource EXCEPT !.len = Plus(@, Counted(EntryAt(Current)))]
    BY <1>5 DEF Entry
  <2>2. Current' = Current
    BY <2>1 DEF Current, TagAt
  <2>3. NoneBefore(tag)'
    BY <2>1 DEF TotalInv, NoneBefore, UsableMaps, BadParameters
  <2>4. /\ Current \in Tags /\ i + 1 \in 1 .. Len(Current.entries)
        /\ Counted(EntryAt(Current)) = AvailableLen(Current, i + 1)
    BY <2>1, EntryCounted
  <2> DEFINE u == UpTo(Current)
             b == AvailableLen(Current, i + 1)
  <2>5. u[i + 1] = u[i] + b /\ u[i] \in Nat /\ b \in Nat /\ i \in Nat
    <3>1. i \in Nat
      BY DEF IInv, TypeOK
    <3>2. u \in [Nat -> Nat] /\ \A e \in Nat : u[e + 1] = u[e] + AvailableLen(Current, e + 1)
      BY <2>4, SumsAre
    <3>3. i + 1 \in Nat
      BY <3>1
    <3>4. b \in Nat
      BY <3>3, <2>4, LengthsAre
    <3> HIDE DEF u
    <3> QED BY <3>1, <3>2, <3>4
  <2>6. resource'.len = Plus(resource.len, b)
    <3>1. PICK z : z = Plus(resource.len, Counted(EntryAt(Current))) /\ resource' = [resource EXCEPT !.len = z]
      BY <2>1
    <3> QED BY <3>1, <2>4, <1>0
  <2>7. resource.len = u[i] % LenMod
    BY <2>1 DEF TotalInv
  <2> HIDE DEF u, b
  <2>8. resource'.len = u[i + 1] % LenMod
    BY <2>5, <2>6, <2>7, Remainder DEF Plus
  <2>9. (UpTo(Current)[i])' = UpTo(Current')[i'] /\ Len(Current.entries)' = Len(Current'.entries)
    BY DEF UpTo, AvailableLen, Whole
  <2>10. (UpTo(Current)[i])' = u[i + 1] /\ i' <= Len(Current'.entries)
    BY <2>1, <2>2, <2>4, <2>9 DEF u
  <2> QED BY <2>1, <2>3, <2>8, <2>9, <2>10 DEF TotalInv, TotalIsAvailable
<1>6. CASE LeaveMmap
  <2>1. /\ tags' = tags /\ resource' = resource /\ pc' = "done" /\ pc = "entries"
        /\ i >= max_entries(Current) \/ ~EntryFits(Current)
    BY <1>6 DEF LeaveMmap
  <2>2. /\ UsableMaps # {} /\ tags[Min(UsableMaps)] = Current /\ Current \in Tags
    BY <2>1, FirstUsable DEF TotalInv, IInv, WalkInv
  <2>3. resource.len = UpTo(Current)[i] % LenMod /\ i <= Len(Current.entries)
    BY <2>1 DEF TotalInv
  <2>4. UpTo(Current)[i] = AvailableTotal(Current)
    <3>1. CASE i < max_entries(Current)
      <4>1. ~EntryFits(Current)
        <5>0. /\ Current.size \in Nat /\ Current.entry_size \in Nat /\ Current.entry_size # 0
          BY <2>1, <2>2 DEF IInv, WalkInv, BadParameters, Tags
        <5>1. i \in Nat /\ max_entries(Current) \in Int
          BY <5>0 DEF IInv, TypeOK, max_entries, MmapHeader
        <5> QED BY <5>1, <3>1, <2>1
      <4> QED BY <4>1, <3>1, <2>1, NothingBehind
    <3>2. CASE ~(i < max_entries(Current))
      <4>1. PICK c \in 1 .. Len(tags) : Current = tags[c] /\ tags[c].at = tag /\ tags[c] \in Tags
        BY CurrentIsTag DEF IInv, WalkInv
      <4>2. Len(Current.entries) = Places(Current)
        BY <4>1 DEF IInv, LayoutInv
      <4>3. Len(Current.entries) = max_entries(Current)
        BY <4>2, <2>1 DEF Places, max_entries, IInv, WalkInv, BadParameters
      <4>4. i \in Nat /\ Len(Current.entries) \in Nat
        <5>1. Current.entries \in Seq(Entries)
          BY <2>2 DEF Tags
        <5> QED BY <5>1 DEF IInv, TypeOK
      <4>5. i = Len(Current.entries)
        BY <4>3, <4>4, <3>2, <2>3
      <4> QED BY <4>5, <2>2, SumsAre
    <3> QED BY <3>1, <3>2
  <2>5. UsableMaps' = UsableMaps
    BY <2>1 DEF UsableMaps, BadParameters
  <2>6. AvailableTotal(tags'[Min(UsableMaps')]) = AvailableTotal(Current)
    BY <2>1, <2>2, <2>5
  <2>7. TotalIsAvailable'
    BY <2>1, <2>2, <2>3, <2>4, <2>5, <2>6 DEF TotalIsAvailable
  <2> QED BY <2>1, <2>7 DEF TotalInv
<1>7. CASE UNCHANGED vars
  <2>1. tags' = tags /\ tag' = tag /\ i' = i /\ mmap' = mmap /\ pc' = pc /\ resource' = resource
    BY <1>7 DEF vars
  <2>2. Current' = Current /\ UsableMaps' = UsableMaps
    BY <2>1 DEF Current, TagAt, UsableMaps, BadParameters
  <2>3. NoneBefore(tag)' <=> NoneBefore(tag)
    BY <2>1, <2>2 DEF NoneBefore
  <2>4. (UpTo(Current)[i])' = UpTo(Current')[i'] /\ Len(Current.entries)' = Len(Current'.entries)
    BY DEF UpTo, AvailableLen, Whole
  <2>5. TotalIsAvailable'
    BY <2>1, <2>2 DEF TotalInv, TotalIsAvailable
  <2> QED BY <2>1, <2>2, <2>3, <2>4, <2>5 DEF TotalInv
<1> QED BY <1>1, <1>2, <1>3, <1>4, <1>5, <1>6, <1>7 DEF Next

(* The memory the kernel reckons with is the sum over the available, whole *)
(* entries of the first usable memory map, modulo the width of size_t, and *)
(* 0 when there is none (multiboot2.cpp:95-99, 140, pmm.cpp:42): for every *)
(* number and order of tags, every size of entries, and whether the loop   *)
(* over them ends or breaks.                                               *)
THEOREM TotalIsRight == Spec => []TotalIsAvailable
<1>1. TotalInv => TotalIsAvailable
  BY DEF TotalInv
<1>2. Spec => []TotalInv
  BY TotalInitially, TotalGoesOn, Inductive, PTL DEF Spec
<1> QED BY <1>1, <1>2, PTL
=============================================================================

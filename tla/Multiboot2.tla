----------------------------- MODULE Multiboot2 -----------------------------
(***************************************************************************)
(* MULTIBOOT2::multiboot2_iter and its callback MULTIBOOT2::get_memory     *)
(* (libk/src/multiboot2.cpp), as BOOT_INFO::get_memory calls them: the     *)
(* walk over the tags of the boot information and, in the memory map tag,  *)
(* over its entries, one iteration per step.                               *)
(*                                                                         *)
(* "tags" is what the boot loader wrote: each tag is padded to TagAlign    *)
(* bytes and the tag of type End comes last.  "tag" is the pointer of the  *)
(* walk, as an offset into the boot information; "mmap" the pointer to an  *)
(* entry, as an offset into the memory map tag.                            *)
(***************************************************************************)
EXTENDS Integers, Sequences, FiniteSets, FiniteSetsExt

CONSTANTS TagLists,     \* the tag sequences before the end tag
          LenMod        \* 2^w for the width w of size_t

TagAlign     == 8       \* MULTIBOOT_TAG_ALIGN
InfoHeader   == 8       \* total_size and reserved, before the first tag
TagHeader    == 8       \* sizeof(iter_data_t)
MmapHeader   == 16      \* sizeof(multiboot_tag_mmap_t)
EntryBytes   == 24      \* sizeof(multiboot_mmap_entry_t)
End          == 0       \* MULTIBOOT_TAG_TYPE_END
Mmap         == 6       \* MULTIBOOT_TAG_TYPE_MMAP
Available    == 1       \* MULTIBOOT_MEMORY_AVAILABLE
MEM          == 1       \* resource_t::MEM

(* common::ALIGN *)
ALIGN(x, align) == ((x + align - 1) \div align) * align

(* An entry of a memory map tag is what its 24 bytes say: len and type.    *)
(* There is one for every place get_memory could look at.  "at" is where   *)
(* the boot loader put the tag.                                            *)
Entries == [len : 0 .. LenMod - 1, type : Nat]
Tags    == [type : Nat, size : Nat, at : Nat, entry_size : Nat, entries : Seq(Entries)]
Places(t) == IF t.entry_size = 0 \/ t.size < MmapHeader THEN 0
             ELSE (t.size - MmapHeader) \div t.entry_size

(* The tags lie one behind the other, each padded, the end tag last. *)
Behind(t) == t.at + ALIGN(t.size, TagAlign)
EndTag(ts) == [type |-> End, size |-> TagHeader,
               at |-> IF ts = <<>> THEN InfoHeader ELSE Behind(ts[Len(ts)]),
               entry_size |-> 0, entries |-> <<>>]

ASSUME TagListsAssumption ==
    /\ LenMod \in Nat \ {0}
    /\ TagLists \subseteq Seq(Tags)
    /\ \A ts \in TagLists : \A k \in DOMAIN ts :
          /\ ts[k].type # End
          /\ ts[k].size >= TagHeader
          /\ Len(ts[k].entries) = Places(ts[k])
          /\ ts[k].at = IF k = 1 THEN InfoHeader ELSE Behind(ts[k - 1])

VARIABLES tags,                 \* the boot information
          pc,                   \* "iter", "entries", "done"
          tag,                  \* the locals of multiboot2_iter
          i, mmap,              \* and of get_memory
          resource              \* the resource_t BOOT_INFO::get_memory returns

vars == <<tags, pc, tag, i, mmap, resource>>

(* The tag a pointer of the walk points to, if to any. *)
IsTag(pos) == \E k \in DOMAIN tags : tags[k].at = pos
TagAt(pos) == tags[CHOOSE k \in DOMAIN tags : tags[k].at = pos]
Current == TagAt(tag)

(* resource_t's constructor. *)
Init ==
    /\ \E ts \in TagLists : tags = Append(ts, EndTag(ts))
    /\ pc = "iter"
    /\ tag = InfoHeader
    /\ i = 0 /\ mmap = 0
    /\ resource = [type |-> 0, len |-> 0]

Advance(pos, t) == pos + ALIGN(t.size, TagAlign)
Step == tag' = Advance(tag, Current)

(* multiboot2_iter: the loop ends at the end tag. *)
IterEnd ==
    /\ pc = "iter" /\ IsTag(tag) /\ Current.type = End
    /\ pc' = "done"
    /\ UNCHANGED <<tags, tag, i, mmap, resource>>

(* get_memory returns false for any other tag, and the walk goes on. *)
OtherTag ==
    /\ pc = "iter" /\ IsTag(tag) /\ Current.type \notin {End, Mmap}
    /\ Step
    /\ UNCHANGED <<tags, pc, i, mmap, resource>>

BadParameters(t) == t.entry_size = 0 \/ t.size < MmapHeader
Reset == [type |-> MEM, len |-> 0]

(* A memory map tag with unusable parameters: the resource has been reset  *)
(* already when get_memory returns false.                                  *)
BadMmap ==
    /\ pc = "iter" /\ IsTag(tag) /\ Current.type = Mmap /\ BadParameters(Current)
    /\ resource' = Reset
    /\ Step
    /\ UNCHANGED <<tags, pc, i, mmap>>

EnterMmap ==
    /\ pc = "iter" /\ IsTag(tag) /\ Current.type = Mmap /\ ~BadParameters(Current)
    /\ resource' = Reset
    /\ i' = 0 /\ mmap' = MmapHeader
    /\ pc' = "entries"
    /\ UNCHANGED <<tags, tag>>

max_entries(t) == (t.size - MmapHeader) \div t.entry_size
EntryFits_Always(t) == TRUE                         \* mutation: no boundary check
EntryFits(t) == mmap + EntryBytes <= t.size
EntryAt(t) == t.entries[(mmap - MmapHeader) \div t.entry_size + 1]

(* What one entry adds to the total. *)
Counted_All(entry) == entry.len                     \* mutation: every type counts
Counted(entry) == IF entry.len # 0 /\ entry.type = Available THEN entry.len ELSE 0

Plus_Wide(a, b) == a + b                            \* mutation: a wider sum
Plus(a, b) == (a + b) % LenMod

Entry ==
    /\ pc = "entries" /\ i < max_entries(Current) /\ EntryFits(Current)
    /\ resource' = [resource EXCEPT !.len = Plus(@, Counted(EntryAt(Current)))]
    /\ mmap' = mmap + Current.entry_size
    /\ i' = i + 1
    /\ UNCHANGED <<tags, pc, tag>>

(* The loop ends, or breaks at the tag's boundary; get_memory returns true *)
(* and the walk stops.                                                     *)
LeaveMmap_NoBreak ==                                \* mutation: no break
    /\ pc = "entries" /\ i >= max_entries(Current)
    /\ pc' = "done"
    /\ UNCHANGED <<tags, tag, i, mmap, resource>>
LeaveMmap ==
    /\ pc = "entries" /\ (i >= max_entries(Current) \/ ~EntryFits(Current))
    /\ pc' = "done"
    /\ UNCHANGED <<tags, tag, i, mmap, resource>>

Next == IterEnd \/ OtherTag \/ BadMmap \/ EnterMmap \/ Entry \/ LeaveMmap

Spec == Init /\ [][Next]_vars /\ WF_vars(Next)

-----------------------------------------------------------------------------
InfoEnd == tags[Len(tags)].at + TagHeader

TypeOK ==
    /\ pc \in {"iter", "entries", "done"}
    /\ tag \in Nat /\ i \in Nat /\ mmap \in Nat
    /\ resource \in [type : {0, MEM}, len : 0 .. LenMod - 1]

(* The walk never looks at anything but the start of a tag and never       *)
(* behind the end of the boot information, whatever the sizes of the tags  *)
(* (multiboot2.cpp:80).                                                    *)
WalkStaysOnTags == IsTag(tag) /\ tag + TagHeader <= InfoEnd

(* The walk stays on tags, and get_memory reads an entry only when all of  *)
(* it lies inside its tag, also when the boot loader's entries are shorter *)
(* than the struct (multiboot2.cpp:80, multiboot2.cpp:121-127).            *)
ReadsInsideTag ==
    /\ WalkStaysOnTags
    /\ pc = "entries" /\ i < max_entries(Current) /\ EntryFits(Current) =>
           /\ mmap >= MmapHeader
           /\ tag + mmap + EntryBytes <= Advance(tag, Current)
           /\ (mmap - MmapHeader) % Current.entry_size = 0

(* The memory maps that get_memory accepts, and the entries of one that    *)
(* lie inside the tag.                                                     *)
UsableMaps == {k \in DOMAIN tags : tags[k].type = Mmap /\ ~BadParameters(tags[k])}
Whole(t) == {e \in 1 .. Len(t.entries) : MmapHeader + (e - 1) * t.entry_size + EntryBytes <= t.size}
AvailableLen(t, e) == IF e \in Whole(t) /\ t.entries[e].type = Available THEN t.entries[e].len ELSE 0
AvailableTotal(t) ==
    LET upto[e \in Nat] == IF e = 0 THEN 0 ELSE upto[e - 1] + AvailableLen(t, e) IN upto[Len(t.entries)]

(* What the kernel believes to be its memory is the sum over the available *)
(* entries of the first usable memory map, and 0 when there is none: tags  *)
(* before it, unusable maps and later maps do not change it.  PMM::init    *)
(* stops on 0 (multiboot2.cpp:95-99, 140, pmm.cpp:42).                     *)
TotalIsAvailable ==
    pc = "done" =>
        resource.len = IF UsableMaps = {} THEN 0 ELSE AvailableTotal(tags[Min(UsableMaps)]) % LenMod

(* The walk ends. *)
WalkEnds == <>(pc = "done")
=============================================================================

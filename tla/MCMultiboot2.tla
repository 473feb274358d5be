---------------------------- MODULE MCMultiboot2 ----------------------------
(* Instances of Multiboot2 for TLC: up to three tags before the end tag.   *)
EXTENDS Multiboot2, TLC

E(len, type) == [len |-> len, type |-> type]
Tag(type, size, entry_size, entries) ==
    [type |-> type, size |-> size, entry_size |-> entry_size, entries |-> entries]

(* Tags of other types, one of a size that needs padding; memory maps of   *)
(* 0, 1 and 3 entries, with longer entries, with entries shorter than the  *)
(* struct (the last ones do not fit), with bytes left over, and with       *)
(* unusable parameters.                                                    *)
MCTags == {
    Tag(1, 17, 0, <<>>), Tag(4, 16, 0, <<>>),
    Tag(Mmap, 16, 24, <<>>),
    Tag(Mmap, 40, 24, <<E(3, Available)>>),
    Tag(Mmap, 88, 24, <<E(5, Available), E(2, 2), E(6, Available)>>),
    Tag(Mmap, 84, 32, <<E(0, Available), E(4, Available)>>),
    Tag(Mmap, 60, 16, <<E(1, Available), E(2, Available)>>),
    Tag(Mmap, 40, 8, <<E(1, Available), E(2, Available), E(5, Available)>>),
    Tag(Mmap, 40, 0, <<>>), Tag(Mmap, 12, 24, <<>>)}

(* The boot loader lays a sequence of tags out. *)
At(ts, k) == InfoHeader + MapThenSumSet(LAMBDA j : ALIGN(ts[j].size, TagAlign), 1 .. k - 1)
LaidOut(ts) == [k \in DOMAIN ts |->
                  [type |-> ts[k].type, size |-> ts[k].size, at |-> At(ts, k),
                   entry_size |-> ts[k].entry_size, entries |-> ts[k].entries]]

MCTagLists == {LaidOut(ts) : ts \in UNION {[1 .. n -> MCTags] : n \in 0 .. 3}}
=============================================================================

----------------------------- MODULE ArchiveBlocks -----------------------------
(* Reading the blocks of an archive file (fervor-feed-rs old_faithful.rs): the  *)
(* file is a list of nodes, each named by the hash of its content; the nodes    *)
(* up to a block node are that block's.  A file with damaged, lost, repeated,   *)
(* moved or foreign nodes is read as the blocks that were written or not at     *)
(* all.                                                                         *)
EXTENDS Integers, Sequences, FiniteSets, FiniteSetsExt, SequencesExt

CONSTANTS
    Nodes,       \* the nodes there are: name -> node; Spoilt is not one of them
    Written,     \* the file as it was written: a sequence of names
    Slots,       \* the slots that may be in it
    MaxData,     \* longest data a frame may hold
    MaxDamage,   \* bound: changes to the file
    Spoilt,      \* a section whose content does not match its name
    None

VARIABLES
    car,         \* the file as it is read
    damage       \* changes to it

vars == <<car, damage>>

Change(file) ==
    /\ damage < MaxDamage
    /\ car' = file /\ damage' = damage + 1
Lose(i) == Change(RemoveAt(car, i))
Add(i, cid) == Change(InsertAt(car, i, cid))
Spoil(i) == Change(ReplaceAt(car, i, Spoilt))

BlocksInit == car = Written /\ damage = 0
BlocksNext ==
    \/ \E i \in DOMAIN car : Lose(i) \/ Spoil(i)
    \/ \E i \in 1 .. Len(car) + 1, cid \in DOMAIN Nodes : Add(i, cid)
BlocksSpec == BlocksInit /\ [][BlocksNext]_vars

-----------------------------------------------------------------------------
(* assemble_frame: the frames that continue a frame, level by level.          *)

ValidFrame(f) ==
    \/ f.index = None /\ f.total = None
    \/ f.index # None /\ f.total # None /\ f.total > 0 /\ f.index < f.total

Kind(group, cid, kind) == (\E i \in DOMAIN group : group[i] = cid) /\ Nodes[cid].kind = kind

Broken == [ok |-> FALSE, data |-> <<>>, seen |-> {}, index |-> None, next |-> <<>>]
\* One continuation: in order, of the same frame, and the only one to go on
\* must be the last of its level.
Continue(group, root, st, cid, isLast) ==
    IF ~st.ok \/ cid \in st.seen \/ ~Kind(group, cid, "frame") THEN Broken
    ELSE LET f == Nodes[cid].frame
             next == IF st.index = None THEN None ELSE st.index + 1
         IN IF \/ ~ValidFrame(f) \/ f.total # root.total \/ f.hash # root.hash
               \/ f.index # next
               \/ Len(st.data \o f.data) > MaxData
               \/ f.next # <<>> /\ ~isLast
            THEN Broken
            ELSE [ok |-> TRUE, data |-> st.data \o f.data, seen |-> st.seen \union {cid},
                  index |-> next, next |-> f.next]
RECURSIVE Assemble(_, _, _)
Assemble(group, root, st) ==
    IF ~st.ok \/ st.next = <<>> THEN st
    ELSE Assemble(group, root,
           FoldLeft(LAMBDA s, i : Continue(group, root, s, st.next[i], i = Len(st.next)),
                    [st EXCEPT !.next = <<>>], [i \in 1 .. Len(st.next) |-> i]))
\* The data of a frame and of what continues it, None if they are not all there.
FrameData(group, root) ==
    LET st == Assemble(group, root, [ok |-> ValidFrame(root), data |-> root.data, seen |-> {},
                                     index |-> root.index, next |-> root.next])
    IN IF /\ st.ok
          /\ root.total # None => st.index + 1 = root.total
          /\ root.hash # None => root.hash = st.data
       THEN st.data ELSE None

-----------------------------------------------------------------------------
(* build_block: the nodes up to a block node.                                 *)

Of(group, kind) == {i \in DOMAIN group : Nodes[group[i]].kind = kind}
RewardsAreSound(group, block) ==
    /\ Kind(group, block.rewards, "rewards") /\ Cardinality(Of(group, "rewards")) = 1
    /\ Nodes[block.rewards].slot = block.slot
    /\ FrameData(group, Nodes[block.rewards].frame) # None
Transactions(block) == FlattenSeq([k \in DOMAIN block.entries |-> Nodes[block.entries[k]].txs])
EntriesAreSound(group, block) ==
    /\ block.entries # <<>> /\ IsInjective(block.entries)
    /\ \A k \in DOMAIN block.entries : Kind(group, block.entries[k], "entry")
\* A plausible slip: a transaction no entry names is passed over.
TransactionsAreSound_Unnamed(group, block) ==
    LET txs == Transactions(block)
    IN \A k \in DOMAIN txs : Kind(group, txs[k], "tx") /\ Nodes[txs[k]].index = k - 1
\* Every transaction of the group is named by an entry, once, in its place.
TransactionsAreSound(group, block) ==
    LET txs == Transactions(block)
    IN /\ IsInjective(txs) /\ Cardinality(Of(group, "tx")) = Len(txs)
       /\ \A k \in DOMAIN txs :
            Kind(group, txs[k], "tx") /\ Nodes[txs[k]].slot = block.slot /\ Nodes[txs[k]].index = k - 1
Record(group, cid) ==
    [tx |-> cid, signed |-> FrameData(group, Nodes[cid].data), meta |-> FrameData(group, Nodes[cid].meta)]
Sound(group, block) ==
    /\ Cardinality(Of(group, "block")) = 1 /\ Of(group, "other") = {}
    /\ block.parent < block.slot
    /\ IsInjective(group) /\ RewardsAreSound(group, block) /\ EntriesAreSound(group, block)
    /\ Cardinality(Of(group, "entry")) = Len(block.entries)
    /\ TransactionsAreSound(group, block)
Finished(slot, records) ==
    IF \A k \in DOMAIN records : None \notin {records[k].signed, records[k].meta}
    THEN [slot |-> slot, records |-> records] ELSE None
\* The block of a group: its slot and its records, None if anything is amiss.
BuildBlock(group, block) ==
    IF Sound(group, block)
    THEN Finished(block.slot, [k \in DOMAIN Transactions(block) |->
                                 Record(group, Transactions(block)[k])])
    ELSE None

\* next_block, again and again: a group ends with a block node, and the slots
\* rise; None if any of it fails.
Ends(file) == {i \in DOMAIN file : Nodes[file[i]].kind = "block"}
Group(file, end) ==
    SubSeq(file, Max({i \in Ends(file) : i < end} \union {0}) + 1, end)
Rising(blocks) ==
    IF /\ \A k \in DOMAIN blocks : blocks[k] # None
       /\ \A k \in DOMAIN blocks : blocks[k].slot \in Slots
       /\ \A k \in 2 .. Len(blocks) : blocks[k - 1].slot < blocks[k].slot
    THEN blocks ELSE None
ReadEach(file, ends) ==
    Rising([k \in DOMAIN ends |-> BuildBlock(Group(file, ends[k]), Nodes[file[ends[k]]])])
ReadAll(file) ==
    IF \/ \E i \in DOMAIN file : file[i] = Spoilt
       \/ file # <<>> /\ Len(file) \notin Ends(file)
    THEN None ELSE ReadEach(file, SetToSortSeq(Ends(file), <))

-----------------------------------------------------------------------------
\* A file as it was written is read; every transaction in a file that is read
\* comes out of it, once, in the order of its block and with the data it was
\* signed with.
Whole(cid, frame) == Nodes[cid][frame].whole
ComesOut(records) ==
    /\ {records[k].tx : k \in DOMAIN records} =
         {car[i] : i \in {n \in DOMAIN car : Nodes[car[n]].kind = "tx"}}
    /\ IsInjective([k \in DOMAIN records |-> records[k].tx])
InPlace(r, slot, k) ==
    /\ Nodes[r.tx].slot = slot /\ Nodes[r.tx].index = k - 1
    /\ r.signed = Whole(r.tx, "data") /\ r.meta = Whole(r.tx, "meta")
Faithful(blocks) ==
    /\ damage = 0 => blocks # None
    /\ blocks # None =>
         /\ ComesOut(FlattenSeq([b \in DOMAIN blocks |-> blocks[b].records]))
         /\ \A b \in DOMAIN blocks : \A k \in DOMAIN blocks[b].records :
              InPlace(blocks[b].records[k], blocks[b].slot, k)
ReadIsWhole == Faithful(ReadAll(car))
=============================================================================

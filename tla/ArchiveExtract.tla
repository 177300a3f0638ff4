---------------------------- MODULE ArchiveExtract ----------------------------
(* The historical corpus: a plan of what to take from the archive, the        *)
(* bounded extract of it and the replay built from the extract                *)
(* (fervor-feed-rs archive.rs, bin/corpus.rs, bin/replay.rs).                 *)
(*                                                                            *)
(* The archive serves a slot index and one large file.  It may be published   *)
(* anew at any moment, with another index and a file of another length; its   *)
(* answers fail, stop early or come from another place of the file.  A byte   *)
(* is the edition it comes from and its place there.                          *)
EXTENDS Integers, Sequences, FiniteSets, FiniteSetsExt, SequencesExt

CONSTANTS
    Procs,         \* runs of fervor-corpus and of fervor-replay
    Editions,      \* what the archive serves, in time: [index, bytes, header]
    Start, End,    \* the selected slots, End excluded
    MaxHeader,     \* longest header of the file
    MaxDownload,   \* ceiling of an extract
    Retries,       \* failures an extract survives per file or range
    MaxCommands,   \* bound: commands given
    Nothing

VARIABLES
    edition,       \* the edition the archive serves
    job,           \* what each run has in hand
    plan,          \* the plan file
    out,           \* the extract directory
    replay,        \* the replay directory
    commands       \* commands given (bounded)

vars == <<edition, job, plan, out, replay, commands>>

IndexBytes == Len(Editions[1].index)
EndOf(r) == r.offset + r.length

\* RangeInfo::parse: what the index says of the selected slots, Nothing if it
\* cannot be trusted.
Present(index) == {i \in DOMAIN index : index[i].length > 0}
Selected(index) == Present(index) \cap (Start .. End - 1)
Ordered(index) ==
    /\ \A i \in DOMAIN index \ Present(index) : index[i].offset = 0
    /\ \A i, j \in Present(index) : i < j => EndOf(index[i]) <= index[j].offset
\* A plausible slip: a gap between two selected slots is let through.
Contiguous_Gaps(index) == TRUE
Contiguous(index) ==
    \A i, j \in Selected(index) :
        i < j /\ (\A k \in Selected(index) : k <= i \/ k >= j) => EndOf(index[i]) = index[j].offset
RangeInfo(index) ==
    IF ~Ordered(index) \/ ~Contiguous(index) \/ Selected(index) = {} THEN Nothing
    ELSE LET first == Min(Selected(index))
             last == Max(Selected(index))
             header == index[Min(Present(index))].offset
         IN IF header \notin 1 .. MaxHeader THEN Nothing
            ELSE [header |-> header, from |-> index[first].offset, to |-> EndOf(index[last]),
                  first |-> first, last |-> last, slots |-> Cardinality(Selected(index))]

RawBytes(p) == p.range.header + (p.range.to - p.range.from)
DownloadBytes(p) == IndexBytes + RawBytes(p)

Idle == [pc |-> "idle", plan |-> Nothing, index |-> 0, used |-> 0, failures |-> 0,
         cursor |-> 0, body |-> Nothing, raw |-> <<>>, slots |-> <<>>]

Init ==
    /\ edition = 1 /\ commands = 0
    /\ job = [p \in Procs |-> Idle]
    /\ plan = Nothing /\ out = Nothing /\ replay = Nothing

-----------------------------------------------------------------------------
Republish ==
    /\ edition < Len(Editions)
    /\ edition' = edition + 1
    /\ UNCHANGED <<job, plan, out, replay, commands>>

Become(p, j) == job' = [job EXCEPT ![p] = j]
\* An error the run does not outlive, Ctrl-C, a crash: its stage is nobody's.
Stop(p) ==
    /\ job[p].pc # "idle"
    /\ Become(p, Idle)
    /\ UNCHANGED <<edition, plan, out, replay, commands>>
Command(p, pc) ==
    /\ job[p].pc = "idle" /\ commands < MaxCommands
    /\ commands' = commands + 1
    /\ UNCHANGED <<edition, plan, out, replay>>

\* ByteMeter::take
Takes(j, n, max) == j.used + n <= max

\* fetch_small: an attempt gets the whole index or a part of it, which counts
\* all the same; each failure starts it again.
FetchIndex(p, pc, next, max) ==
    /\ job[p].pc = pc
    /\ \E n \in 0 .. IndexBytes :
        /\ Takes(job[p], n, max)
        /\ \/ n = IndexBytes
              /\ Become(p, [job[p] EXCEPT !.pc = next, !.used = @ + n, !.failures = 0, !.index = edition])
           \/ /\ n < IndexBytes /\ job[p].failures < Retries
              /\ Become(p, [job[p] EXCEPT !.used = @ + n, !.failures = @ + 1])
    /\ UNCHANGED <<edition, plan, out, replay, commands>>

(* inspect: the index, the length of the file, the plan. *)
Inspect(p) == Command(p, "inspect") /\ plan = Nothing /\ Become(p, [Idle EXCEPT !.pc = "inspect"])
InspectIndex(p) == FetchIndex(p, "inspect", "measure", IndexBytes)
\* The length of the file may be that of a later edition than the index.
Measure(p) ==
    /\ job[p].pc = "measure"
    /\ LET range == RangeInfo(Editions[job[p].index].index)
           made == [index |-> job[p].index, range |-> range, bytes |-> Editions[edition].bytes]
       IN /\ range # Nothing
          /\ range.to <= made.bytes /\ DownloadBytes(made) <= MaxDownload
          /\ Become(p, [Idle EXCEPT !.pc = "planned", !.plan = made])
    /\ UNCHANGED <<edition, plan, out, replay, commands>>
\* write_plan renames over what another run may have written since it looked.
WritePlan(p) ==
    /\ job[p].pc = "planned"
    /\ plan' = job[p].plan
    /\ Become(p, Idle)
    /\ UNCHANGED <<edition, out, replay, commands>>

(* extract *)
Extract(p) ==
    /\ plan # Nothing /\ out = Nothing
    /\ Command(p, "extract") /\ Become(p, [Idle EXCEPT !.pc = "refetch", !.plan = plan])
RefetchIndex(p) == FetchIndex(p, "refetch", "check", MaxDownload)
\* The hash of the index is the plan's: it is of the same edition.
CheckIndex(p) ==
    /\ job[p].pc = "check" /\ job[p].index = job[p].plan.index
    /\ Become(p, [job[p] EXCEPT !.pc = "header", !.cursor = 0])
    /\ UNCHANGED <<edition, plan, out, replay, commands>>

Until(j) == IF j.pc = "header" THEN j.plan.range.header ELSE j.plan.range.to
\* A plausible slip: the length of the whole file is not looked at.
Fits_AnyTotal(j, answer) == answer.status = 206 /\ answer.at = j.cursor
\* The answer is the rest of the range, of a file as long as the planned one.
Fits(j, answer) ==
    /\ answer.status = 206 /\ answer.at = j.cursor /\ answer.total = j.plan.bytes
Answers ==
    [status : {206}, at : 0 .. Editions[edition].bytes - 1, total : {Editions[edition].bytes}]
    \union [status : {200}, at : {0}, total : {Editions[edition].bytes}]
Ask(p) ==
    /\ job[p].pc \in {"header", "range"} /\ job[p].body = Nothing
    /\ \E answer \in Answers :
        /\ Fits(job[p], answer)
        /\ Become(p, [job[p] EXCEPT !.body = [edition |-> edition, at |-> answer.at]])
    /\ UNCHANGED <<edition, plan, out, replay, commands>>
\* A connection error, 429, 5xx or a stream that stops: the next attempt goes on
\* from the cursor.
Retry(p) ==
    /\ job[p].pc \in {"header", "range"} /\ job[p].failures < Retries
    /\ Become(p, [job[p] EXCEPT !.failures = @ + 1, !.body = Nothing])
    /\ UNCHANGED <<edition, plan, out, replay, commands>>
\* A chunk is metered, written and hashed; one past the end of the range ends
\* the run.
Chunk(p) ==
    LET j == job[p]
        end == Until(j)
    IN /\ j.pc \in {"header", "range"} /\ j.body # Nothing
       /\ \E n \in 1 .. end - j.cursor :
            /\ Takes(j, n, MaxDownload)
            /\ LET read == [j EXCEPT !.used = @ + n, !.cursor = @ + n, !.body.at = @ + n,
                                     !.raw = @ \o [k \in 1 .. n |-> <<j.body.edition, j.body.at + k - 1>>]]
               IN Become(p, CASE read.cursor < end -> read
                              [] j.pc = "header" -> [read EXCEPT !.pc = "range", !.cursor = j.plan.range.from,
                                                                 !.body = Nothing, !.failures = 0]
                              [] OTHER -> [read EXCEPT !.pc = "publish", !.body = Nothing])
       /\ UNCHANGED <<edition, plan, out, replay, commands>>
\* The stage is renamed; a directory that has come up meanwhile stays.
Publish(p) ==
    /\ job[p].pc = "publish" /\ out = Nothing
    /\ Len(job[p].raw) = RawBytes(job[p].plan) /\ job[p].used >= DownloadBytes(job[p].plan)
    /\ out' = [plan |-> job[p].plan, raw |-> job[p].raw, hash |-> job[p].raw]
    /\ Become(p, Idle)
    /\ UNCHANGED <<edition, plan, replay, commands>>

\* The disk loses or changes a byte of the extract.
Bad == <<0, 0>>
Rot ==
    /\ out # Nothing /\ out.raw = out.hash
    /\ \/ out' = [out EXCEPT !.raw = Front(@)]
       \/ \E i \in DOMAIN out.raw : out' = [out EXCEPT !.raw[i] = Bad]
    /\ UNCHANGED <<edition, job, plan, replay, commands>>

-----------------------------------------------------------------------------
(* fervor-replay: verify, read every block, publish.                          *)

BytesOf(e, from, to) == [k \in 1 .. to - from |-> <<e, from + k - 1>>]
BlockOf(e, i) == BytesOf(e, Editions[e].index[i].offset, EndOf(Editions[e].index[i]))
BlocksOf(e, slots) == FlattenSeq([k \in DOMAIN slots |-> BlockOf(e, slots[k])])

\* verify_extract
Verified(dir) ==
    /\ RangeInfo(Editions[dir.plan.index].index) = dir.plan.range
    /\ Len(dir.raw) = RawBytes(dir.plan) /\ dir.raw = dir.hash
Verify(p) ==
    /\ replay = Nothing /\ out # Nothing /\ Verified(out)
    /\ Command(p, "replay") /\ Become(p, [Idle EXCEPT !.pc = "read", !.plan = out.plan])

\* ArchiveReader: whole blocks, each node checked against its content address,
\* of selected slots that rise.
ReadsAs(raw, header, e, slots) ==
    /\ Len(raw) >= header
    /\ SubSeq(raw, header + 1, Len(raw)) = BlocksOf(e, slots)
SlotLists == {SetToSortSeq(S, <) : S \in SUBSET (Start .. End - 1)}
\* The blocks read are as many as were planned, from the first to the last.
Covers(slots, range) ==
    slots # <<>> /\ Len(slots) = range.slots /\ Head(slots) = range.first /\ Last(slots) = range.last
Read(p) ==
    /\ job[p].pc = "read"
    /\ \E e \in DOMAIN Editions, slots \in SlotLists :
        /\ \A k \in DOMAIN slots : slots[k] \in Present(Editions[e].index)
        /\ ReadsAs(out.raw, job[p].plan.range.header, e, slots) /\ Covers(slots, job[p].plan.range)
        /\ Become(p, [job[p] EXCEPT !.pc = "built", !.index = e, !.slots = slots])
    /\ UNCHANGED <<edition, plan, out, replay, commands>>
PublishReplay(p) ==
    /\ job[p].pc = "built" /\ replay = Nothing
    /\ replay' = [edition |-> job[p].index, slots |-> job[p].slots]
    /\ Become(p, Idle)
    /\ UNCHANGED <<edition, plan, out, commands>>

-----------------------------------------------------------------------------
RunStep(p) ==
    \/ Inspect(p) \/ InspectIndex(p) \/ Measure(p) \/ WritePlan(p)
    \/ Extract(p) \/ RefetchIndex(p) \/ CheckIndex(p) \/ Ask(p) \/ Retry(p) \/ Chunk(p) \/ Publish(p)
    \/ Verify(p) \/ Read(p) \/ PublishReplay(p) \/ Stop(p)
Next == Republish \/ Rot \/ \E p \in Procs : RunStep(p)
Spec == Init /\ [][Next]_vars

-----------------------------------------------------------------------------
\* An extract that was published is the header of the file and the blocks of
\* the selected slots, each byte once, all of the edition the plan was made
\* from ("resumes truncated streams without duplicating bytes, and publishes
\* only an atomically completed directory", fervor-feed-rs/README.md).
Wanted(e) ==
    BytesOf(e, 0, Editions[e].header) \o BlocksOf(e, SetToSortSeq(Selected(Editions[e].index), <))
PublishedIsTheSelection == out # Nothing => out.hash = Wanted(out.plan.index)

\* A run never takes more than it was allowed.
CeilingHolds == \A p \in Procs : job[p].used <= MaxDownload

\* A replay is of exactly the selected blocks of one edition, whatever became
\* of the disk.
ReplayIsTheSelection ==
    replay # Nothing =>
        replay.slots = SetToSortSeq(Selected(Editions[replay.edition].index), <)

\* What history was taken is the history that was asked for (archive.rs extract,
\* bin/replay.rs main).
CorpusIsTrue == PublishedIsTheSelection /\ CeilingHolds /\ ReplayIsTheSelection
=============================================================================

----------------------------- MODULE MarketFanout ------------------------------
(* The market stream of an API process (marketFanout.ts) and the event streams *)
(* it feeds (routes/streams.ts, frameQueue.ts): one XREAD loop serves every    *)
(* listener of the process, starts with the first listener and ends with the   *)
(* last, and hands each batch to the sinks, which queue what the connection    *)
(* does not take yet.                                                          *)
(*   XREAD with "$" gives the entries added after Redis has begun that call.   *)
(* A listener is a connection: it subscribes once.  Frames are counted, not    *)
(* measured in bytes; a batch is one frame, as the terminal asks for it        *)
(* (batch=1).  The heartbeat and the statuses are left out of the queue        *)
(* (state frames under keys of their own).                                     *)
EXTENDS Naturals, Sequences, FiniteSets, SequencesExt

CONSTANTS
    Listeners,   \* connections
    Tokens,      \* what a listener listens to
    Streams,     \* Redis streams, in the order they are read
    StateStream, \* the stream whose events replace one another
    MaxLog,      \* bound: entries added to the streams
    MaxFrames,   \* RT_QUEUE_FRAMES
    MaxErrors,   \* bound: reads that fail
    None

VARIABLES
    log,       \* every entry ever added, in order: its stream and token
    run,       \* the loop: stage, ids (None is "$"), positions of a read, its answer
    running,   \* the promise of the loop is set
    sink,      \* of a listener: stage, token, queue, blocked
    got,       \* what its connection took, in order
    heard,     \* what the loop handed to it, in order
    errors,
    closed     \* the process is draining

vars == <<log, run, running, sink, got, heard, errors, closed>>

Ended == [stage |-> "ended", ids |-> [s \in Streams |-> None], from |-> None, batch |-> <<>>]

Init ==
    /\ log = <<>> /\ run = Ended /\ running = FALSE
    /\ sink = [l \in Listeners |-> [stage |-> "new", token |-> None, queue |-> <<>>, blocked |-> FALSE]]
    /\ got = [l \in Listeners |-> <<>>] /\ heard = [l \in Listeners |-> <<>>]
    /\ errors = 0 /\ closed = FALSE

Live == {l \in Listeners : sink[l].stage = "open"}

Append1(s, t) ==
    /\ Len(log) < MaxLog
    /\ log' = Append(log, [stream |-> s, token |-> t])
    /\ UNCHANGED <<run, running, sink, got, heard, errors, closed>>

-------------------------------------------------------------------------------
(* Listeners come and go.                                                      *)

\* A loop that has left its while sees the new listener only in finally.
Subscribe(l, t) ==
    /\ sink[l].stage = "new" /\ ~closed
    /\ sink' = [sink EXCEPT ![l].stage = "open", ![l].token = t]
    /\ running' = TRUE
    /\ run' = IF running THEN run ELSE [Ended EXCEPT !.stage = "connect"]
    /\ UNCHANGED <<log, got, heard, errors, closed>>

Unsubscribe(l) ==
    /\ sink[l].stage = "open"
    /\ sink' = [sink EXCEPT ![l].stage = "gone", ![l].queue = <<>>]
    /\ UNCHANGED <<log, run, running, got, heard, errors, closed>>

\* Draining ends every connection; the loop ends at its next turn.
Close ==
    /\ ~closed /\ closed' = TRUE
    /\ sink' = [l \in Listeners |-> IF l \in Live THEN [sink[l] EXCEPT !.stage = "gone", !.queue = <<>>]
                                    ELSE sink[l]]
    /\ UNCHANGED <<log, run, running, got, heard, errors>>

-------------------------------------------------------------------------------
(* The loop.                                                                   *)

Continues == ~closed /\ Live # {}

\* The promise is cleared when the loop is over, and a listener that came
\* meanwhile starts it again.
Finally ==
    /\ running /\ run.stage \in {"connect", "read"} /\ ~Continues
    /\ run' = [run EXCEPT !.stage = "over"]
    /\ UNCHANGED <<log, running, sink, got, heard, errors, closed>>

\* Clearing the promise without looking for new listeners.
Restarts_Never == FALSE
Restarts == Continues

Over ==
    /\ run.stage = "over"
    /\ running' = Restarts
    /\ run' = IF Restarts THEN [Ended EXCEPT !.stage = "connect"] ELSE Ended
    /\ UNCHANGED <<log, sink, got, heard, errors, closed>>

ConnectReader ==
    /\ run.stage = "connect" /\ Continues
    /\ run' = [run EXCEPT !.stage = "read"]
    /\ UNCHANGED <<log, running, sink, got, heard, errors, closed>>

\* Redis begins the call: "$" is the end of the stream at that moment.
BeginRead ==
    /\ run.stage = "read" /\ Continues
    /\ run' = [run EXCEPT !.stage = "blocked",
                          !.from = [s \in Streams |-> IF run.ids[s] = None THEN Len(log) ELSE run.ids[s]]]
    /\ UNCHANGED <<log, running, sink, got, heard, errors, closed>>

News == SelectSeq([i \in DOMAIN log |-> i], LAMBDA i : run.from[log[i].stream] < i)

\* The answer lists the streams one after the other; nothing after BLOCK ms.
InStreamOrder(batch) ==
    FoldLeft(LAMBDA acc, s : acc \o SelectSeq(batch, LAMBDA i : log[i].stream = s), <<>>, SetToSeq(Streams))

EndRead ==
    /\ run.stage = "blocked"
    /\ run' = [run EXCEPT !.stage = "answered", !.batch = InStreamOrder(News)]
    /\ UNCHANGED <<log, running, sink, got, heard, errors, closed>>

\* A failed read starts every stream at its end again.
IdsAfterError_Reset == [s \in Streams |-> None]
\* A failed read keeps the places the loop has reached.
IdsAfterError == run.ids

ReadFails ==
    /\ run.stage \in {"connect", "blocked"} /\ (run.stage = "connect" => Continues)
    /\ errors < MaxErrors /\ errors' = errors + 1
    /\ run' = [run EXCEPT !.stage = "connect", !.ids = IdsAfterError, !.from = None]
    /\ UNCHANGED <<log, running, sink, got, heard, closed>>

-------------------------------------------------------------------------------
(* The sinks.                                                                  *)

\* A frame: the entries it carries and its class.
Frame(entries) ==
    [ids |-> entries, state |-> \A i \in Range(entries) : log[i].stream = StateStream]

Without(queue, i) == SubSeq(queue, 1, i - 1) \o SubSeq(queue, i + 1, Len(queue))

StatePlaces(queue) == {i \in DOMAIN queue : queue[i].state}

\* Replacing the queued state where it stands.
Replaced_InPlace(queue, frame) ==
    IF frame.state /\ StatePlaces(queue) # {}
    THEN [queue EXCEPT ![CHOOSE i \in StatePlaces(queue) : TRUE] = frame]
    ELSE Append(queue, frame)
\* A state replaces the one queued before it and goes to the end; when there is
\* no room a queued state makes it.
Replaced(queue, frame) ==
    LET own == IF frame.state /\ StatePlaces(queue) # {}
               THEN Without(queue, CHOOSE i \in StatePlaces(queue) : TRUE) ELSE queue
        room == IF Len(own) < MaxFrames \/ StatePlaces(own) = {} THEN own
                ELSE Without(own, CHOOSE i \in StatePlaces(own) : TRUE)
    IN Append(room, frame)

\* push and flush: a connection that is not blocked takes what is queued.  A
\* queue past its limit ends the connection and what was queued is dropped.
Pushed(l, entries) ==
    LET queue == Replaced(sink[l].queue, Frame(entries))
        full == Len(queue) > MaxFrames
        taken == IF sink[l].blocked \/ full THEN <<>> ELSE queue
    IN [sink |-> [sink[l] EXCEPT !.queue = IF full \/ ~sink[l].blocked THEN <<>> ELSE queue,
                                 !.stage = IF full THEN "gone" ELSE "open"],
        got |-> got[l] \o FlattenSeq([i \in DOMAIN taken |-> taken[i].ids])]

\* Of a batch a listener is handed the entries of its token.
Mine(l) == SelectSeq(run.batch, LAMBDA i : log[i].token = sink[l].token)

\* Handing the batch over before the places are noted, and losing them.
IdsAfter_Kept == run.ids
\* The place reached in each stream that had news.
IdsAfter ==
    [s \in Streams |->
        LET mine == {i \in Range(run.batch) : log[i].stream = s}
        IN IF mine = {} THEN run.ids[s] ELSE CHOOSE i \in mine : \A j \in mine : j <= i]

Dispatch ==
    /\ run.stage = "answered"
    /\ LET served == {l \in Live : Mine(l) # <<>>}
       IN /\ sink' = [l \in Listeners |-> IF l \in served THEN Pushed(l, Mine(l)).sink ELSE sink[l]]
          /\ got' = [l \in Listeners |-> IF l \in served THEN Pushed(l, Mine(l)).got ELSE got[l]]
          /\ heard' = [l \in Listeners |-> IF l \in served THEN heard[l] \o Mine(l) ELSE heard[l]]
    /\ run' = [run EXCEPT !.stage = "read", !.ids = IdsAfter, !.from = None, !.batch = <<>>]
    /\ UNCHANGED <<log, running, errors, closed>>

\* The connection stops taking, and takes again.
Blocks(l) ==
    /\ sink[l].stage = "open" /\ ~sink[l].blocked
    /\ sink' = [sink EXCEPT ![l].blocked = TRUE]
    /\ UNCHANGED <<log, run, running, got, heard, errors, closed>>

Drains(l) ==
    /\ sink[l].stage = "open" /\ sink[l].blocked
    /\ sink' = [sink EXCEPT ![l].blocked = FALSE, ![l].queue = <<>>]
    /\ got' = [got EXCEPT ![l] = @ \o FlattenSeq([i \in DOMAIN sink[l].queue |-> sink[l].queue[i].ids])]
    /\ UNCHANGED <<log, run, running, heard, errors, closed>>

Next ==
    \/ \E s \in Streams, t \in Tokens : Append1(s, t)
    \/ \E l \in Listeners : Unsubscribe(l) \/ Blocks(l) \/ Drains(l)
    \/ \E l \in Listeners, t \in Tokens : Subscribe(l, t)
    \/ Close \/ Finally \/ Over \/ ConnectReader \/ BeginRead \/ EndRead \/ ReadFails \/ Dispatch

Spec == Init /\ [][Next]_vars

-------------------------------------------------------------------------------
(* Properties.                                                                 *)

\* While a connection is open it is listened for: whatever listeners leave and
\* come while the loop is ending (marketFanout.ts:154-160).
SomeoneReads == Live # {} => running /\ run.stage # "ended"

Of(l, s) == SelectSeq(heard[l], LAMBDA i : log[i].stream = s)

\* From the first entry of a stream that a listener is handed, it is handed
\* every one of its token until its connection ends, across reads that fail
\* (marketFanout.ts:162-196).
NothingSkipped ==
    \A l \in Listeners, s \in Streams :
        LET mine == Of(l, s)
        IN mine # <<>> =>
            mine = SelectSeq([i \in DOMAIN log |-> i],
                             LAMBDA i : /\ log[i].stream = s /\ log[i].token = sink[l].token
                                        /\ mine[1] <= i /\ i <= mine[Len(mine)])

\* A connection takes what its listener was handed, in that order, and of the
\* streams that do not replace one another a prefix with nothing left out: it
\* ends rather than skip (frameQueue.ts:33-58, streams.ts:92-112).
InOrder ==
    \A l \in Listeners :
        /\ \A i, j \in DOMAIN got[l] : i < j =>
              \E m, n \in DOMAIN heard[l] : m < n /\ heard[l][m] = got[l][i] /\ heard[l][n] = got[l][j]
        /\ IsPrefix(SelectSeq(got[l], LAMBDA i : log[i].stream # StateStream),
                    SelectSeq(heard[l], LAMBDA i : log[i].stream # StateStream))

FanoutIsTrue == SomeoneReads /\ NothingSkipped /\ InOrder
===============================================================================

----------------------------- MODULE ReplayFeed -----------------------------
(***************************************************************************)
(* The realtime feed of a historical replay: the API process polls the     *)
(* owner of the replay, keeps a bounded journal of what it learned, and    *)
(* sends it over a WebSocket to a client that resumes where it was.        *)
(*                                                                         *)
(*   - one pull at a time asks for the trades after the head, and, once it *)
(*     has them all, for an exact snapshot that becomes the new base;      *)
(*   - a subscriber is seeded with the frames after its own cursors, or    *)
(*     with the base and the frames after it;                              *)
(*   - every connection has a bounded queue: a state frame makes room for  *)
(*     others, a frame that finds no room ends the connection.             *)
(*                                                                         *)
(* The owner is what ReplaySource promises.  A call to it is one step: the *)
(* feed changes nothing while it waits, and the answer is of one instant.  *)
(* Calls that fail change nothing but the delay of the next.  A stream     *)
(* has a cursor: the trades seen ("trade"), the cursor of the projection   *)
(* ("market"), a hash of the whole state ("replay", here the cursor and    *)
(* the paper facts).  Heartbeats are left out.                             *)
(***************************************************************************)
EXTENDS ReplaySource, Sequences, SequencesExt

CONSTANTS
  Streams,      \* what the client subscribes to
  Window,       \* resumeEvents: frames of the journal
  PageSize,     \* trades a page may hold
  QueueFrames   \* frames a connection may have waiting

ASSUME FeedAssumption ==
  /\ Streams \subseteq {"trade", "market", "replay"} /\ "trade" \in Streams
  /\ Window \in Nat \ {0} /\ PageSize \in Nat \ {0} /\ QueueFrames \in Nat \ {0}

VARIABLES
  feed,  \* base, heads and journal; pc is what the pull asks for next
  link   \* the connection, its queue, the frame being sent, and what the
         \*   client's worker remembers

FeedVars == <<source, feed, link>>

Smaller(a, b) == IF a < b THEN a ELSE b
AllStreams == {"trade", "market", "replay"}
None == "none"

CutOf(s) == [epoch |-> s.epoch, cursor |-> s.cursor, fact |-> s.fact]
CursorOf(cut, stream) ==
  IF stream = "replay" THEN <<cut.cursor, cut.fact>> ELSE <<cut.cursor>>
HeadsOf(cut) == [s \in AllStreams |-> CursorOf(cut, s)]

Unready == [ready |-> FALSE, pc |-> "idle", base |-> CutOf(Unserved),
            heads |-> HeadsOf(Unserved), history |-> <<>>]

(***************************************************************************)
(* The queue of a connection.                                              *)
(***************************************************************************)
Delta(epoch, stream, prior, cursor) ==
  [type |-> "delta", epoch |-> epoch, stream |-> stream, prior |-> prior, cursor |-> cursor]
Snapshot(cut) ==
  [type |-> "snapshot", epoch |-> cut.epoch, cut |-> HeadsOf(cut)]
Resync == [type |-> "resync"]
Hello(cut) == [type |-> "hello", epoch |-> cut.epoch]

\* The key under which a newer frame replaces a queued one; None if it may not.
KeyOf(frame) ==
  CASE frame.type = "snapshot" -> "snapshot"
    [] frame.type = "delta" -> IF frame.stream = "trade" THEN None ELSE frame.stream
    [] OTHER -> None

\* Fault: trades make room too.
Evictable_Trades(frame) == frame.type # "resync"

\* The frame replaces the queued one of its key; then state frames make room.
Evictable(frame) == KeyOf(frame) # None
Push(queue, frame) ==
  LET Same(f) == KeyOf(f) = KeyOf(frame)
      i == IF KeyOf(frame) = None THEN 0 ELSE SelectInSeq(queue, Same)
      rest == IF i = 0 THEN queue ELSE RemoveAt(queue, i)
      j == SelectInSeq(rest, Evictable)
  IN CASE Len(rest) < QueueFrames -> [queue |-> Append(rest, frame), fits |-> TRUE]
       [] Len(rest) >= QueueFrames /\ j # 0 ->
            [queue |-> Append(RemoveAt(rest, j), frame), fits |-> TRUE]
       [] OTHER -> [queue |-> <<>>, fits |-> FALSE]

\* A free socket takes the next frame at once.
Flush(l) ==
  IF l.wire = <<>> /\ l.queue # <<>>
  THEN [l EXCEPT !.wire = <<Head(l.queue)>>, !.queue = Tail(@)] ELSE l

\* A frame without room ends the connection with a resync signal.
Enqueued(l, frame) ==
  LET pushed == Push(l.queue, frame)
  IN CASE l.conn # "open" -> l
       [] l.conn = "open" /\ pushed.fits -> Flush([l EXCEPT !.queue = pushed.queue])
       [] OTHER -> Flush([l EXCEPT !.conn = "closing", !.queue = <<Resync>>])

\* The same; the set binds l to its value, which is evaluated once.
Enqueue(l, frame) == CHOOSE r \in {Enqueued(m, frame) : m \in {l}} : TRUE
EnqueueAll(l, frames) == FoldLeft(Enqueue, l, frames)

\* The frames a subscribed connection is interested in.
Forward(l, frames) ==
  IF l.subbed
  THEN EnqueueAll(l, SelectSeq(frames, LAMBDA f : f.type = "delta" => f.stream \in Streams))
  ELSE l

(***************************************************************************)
(* The feed.                                                               *)
(***************************************************************************)
Closed(l) == [l EXCEPT !.conn = "closed", !.subbed = FALSE, !.asked = FALSE,
                       !.queue = <<>>, !.wire = <<>>]
NoResume == [epoch |-> 0, cursors |-> [s \in AllStreams |-> <<>>]]

FeedInit ==
  /\ SourceInit
  /\ feed = Unready
  /\ link = [conn |-> "closed", subbed |-> FALSE, asked |-> FALSE, queue |-> <<>>,
             wire |-> <<>>, resume |-> NoResume, offer |-> NoResume]

TradeHead == feed.heads["trade"][1]
Used == TradeHead - feed.base.cursor
Served == source.phase = "served"

\* Fault: the journal grows.
Kept_All(frames) == frames

\* The last frames, as many as the journal may hold.
Kept(frames) == SubSeq(frames, Len(frames) - Smaller(Len(frames), Window) + 1, Len(frames))

\* The frames go into the journal, which keeps the last of them, and out.
Record(f, frames) ==
  [f EXCEPT !.history = Kept(@ \o frames),
            !.heads = [s \in AllStreams |->
              LET mine == SelectSeq(frames, LAMBDA x : x.stream = s)
              IN IF mine = <<>> THEN f.heads[s] ELSE Last(mine).cursor]]

Open ==
  /\ ~feed.ready /\ Served
  /\ feed' = [Unready EXCEPT !.ready = TRUE, !.base = CutOf(source), !.heads = HeadsOf(CutOf(source))]
  /\ UNCHANGED <<source, link>>

\* Fault: whole pages, whatever the journal has room for.
Limit_WholePage == PageSize

\* A page holds no more trades than the journal has room for.
Limit == Smaller(PageSize, Window - Used)

\* Fault: no exact snapshot is asked for.
AfterPage_Idle(end) == "idle"

\* With the last trade known, an exact snapshot is asked for.
AfterPage(end) == IF end = source.cursor THEN "exact" ELSE "idle"

PullPage ==
  LET end == Smaller(source.cursor, TradeHead + Limit)
      frames == [i \in 1 .. end - TradeHead |->
                   Delta(feed.base.epoch, "trade", <<TradeHead + i - 1>>, <<TradeHead + i>>)]
  IN /\ feed.ready /\ feed.pc = "idle" /\ Used < Window
     /\ Served /\ source.epoch = feed.base.epoch /\ TradeHead <= source.cursor
     /\ feed' = [Record(feed, frames) EXCEPT !.pc = AfterPage(end)]
     /\ link' = Forward(link, frames)
     /\ UNCHANGED source

\* The owner refuses the page: it moved, or is about to.
PullRefused ==
  /\ feed.ready /\ feed.pc = "idle" /\ Used < Window
  /\ \/ source.phase = "hidden"
     \/ Served /\ (source.epoch # feed.base.epoch \/ TradeHead > source.cursor)
  /\ feed' = [feed EXCEPT !.pc = "rebase"]
  /\ UNCHANGED <<source, link>>

\* The feed starts again from what the owner shows now, and says so.
Rebased(next) ==
  /\ feed' = [Unready EXCEPT !.ready = TRUE, !.base = next, !.heads = HeadsOf(next)]
  /\ link' = Forward(link, <<Resync, Snapshot(next)>>)

Rebase ==
  /\ feed.ready /\ feed.pc = "rebase"
  /\ IF Served THEN Rebased(CutOf(source))
     ELSE feed' = [feed EXCEPT !.pc = "idle"] /\ UNCHANGED link
  /\ UNCHANGED source

\* The states that changed since the base, as frames.
StateFrames(next) ==
  LET Changed(s) == CursorOf(next, s) # feed.heads[s]
      frame(s) == Delta(next.epoch, s, feed.heads[s], CursorOf(next, s))
  IN (IF Changed("market") THEN <<frame("market")>> ELSE <<>>)
       \o (IF Changed("replay") THEN <<frame("replay")>> ELSE <<>>)

\* A snapshot of exactly the head becomes the base.  One of a later cursor is
\* of no use: the trades up to it are not known yet.
RefreshExact ==
  LET next == CutOf(source)
  IN /\ feed.ready /\ feed.pc \in {"idle", "exact"} /\ (feed.pc = "idle" => Used >= Window)
     /\ \/ /\ Served /\ next.epoch # feed.base.epoch
           /\ Rebased(next)
        \/ /\ Served /\ next.epoch = feed.base.epoch /\ next.cursor = TradeHead
           /\ feed' = [Record(feed, StateFrames(next)) EXCEPT !.base = next, !.pc = "idle"]
           /\ link' = Forward(link, StateFrames(next))
        \/ /\ ~Served \/ (next.epoch = feed.base.epoch /\ next.cursor # TradeHead)
           /\ feed' = [feed EXCEPT !.pc = "idle"]
           /\ UNCHANGED link
     /\ UNCHANGED source

\* The API process restarts; its connections break.
RestartApi ==
  /\ feed.ready
  /\ feed' = Unready /\ link' = Closed(link)
  /\ UNCHANGED source

(***************************************************************************)
(* Seeding a subscriber.                                                   *)
(***************************************************************************)
\* Follows the journal from a cursor of the stream towards its head.
Walk(stream, start) ==
  FoldLeft(LAMBDA w, i :
             LET f == feed.history[i]
             IN IF w.done \/ f.stream # stream \/ f.prior # w.at THEN w
                ELSE [at |-> f.cursor, chain |-> w.chain \cup {i},
                      done |-> f.cursor = feed.heads[stream]],
           [at |-> start, chain |-> {}, done |-> FALSE],
           [i \in 1 .. Len(feed.history) |-> i])

Reaches(cursors) == \A s \in Streams : Walk(s, cursors[s]).at = feed.heads[s]

\* The frames of all streams after the cursors, in the order of the journal.
Paths(cursors) ==
  LET wanted == UNION {Walk(s, cursors[s]).chain : s \in Streams}
      order == SelectSeq([i \in 1 .. Len(feed.history) |-> i], LAMBDA i : i \in wanted)
  IN [k \in 1 .. Len(order) |-> feed.history[order[k]]]

Resumes(offer) == offer.epoch = feed.base.epoch /\ Reaches(offer.cursors)

Seed(offer) ==
  IF Resumes(offer) THEN Paths(offer.cursors)
  ELSE (IF offer = NoResume THEN <<>> ELSE <<Resync>>)
         \o <<Snapshot(feed.base)>> \o Paths(HeadsOf(feed.base))

(***************************************************************************)
(* The connection and the client's worker.                                 *)
(***************************************************************************)
Connect ==
  /\ link.conn = "closed" /\ feed.ready
  /\ link' = Enqueue([link EXCEPT !.conn = "open"], Hello(feed.base))
  /\ UNCHANGED <<source, feed>>

\* The server takes the subscription; a seed that cannot be built is an error
\* that ends the connection.
Subscribe ==
  LET l == [link EXCEPT !.asked = FALSE, !.offer = NoResume]
  IN /\ link.conn = "open" /\ link.asked
     /\ link' = IF Resumes(link.offer) \/ Reaches(HeadsOf(feed.base))
                THEN EnqueueAll([l EXCEPT !.subbed = TRUE], Seed(link.offer))
                ELSE Closed(l)
     /\ UNCHANGED <<source, feed>>

\* What the worker remembers after a frame, to resume from.
Remember(resume, f) ==
  CASE f.type = "resync" -> NoResume
    [] f.type = "snapshot" ->
         [epoch |-> f.epoch,
          cursors |-> [s \in AllStreams |-> IF s \in Streams THEN f.cut[s] ELSE <<>>]]
    [] f.type = "delta" ->
         [(IF resume.epoch = f.epoch THEN resume ELSE [NoResume EXCEPT !.epoch = f.epoch])
            EXCEPT !.cursors[f.stream] = f.cursor]
    [] OTHER -> resume

\* The client receives the frame; after hello it subscribes, and offers to
\* resume if that is of the same epoch.
Receive ==
  LET f == Head(link.wire)
      l == [link EXCEPT !.wire = <<>>, !.resume = Remember(@, f)]
  IN /\ link.conn # "closed" /\ link.wire # <<>>
     /\ link' = IF f.type = "hello"
                THEN Flush([l EXCEPT !.asked = TRUE,
                              !.offer = IF l.resume.epoch = f.epoch THEN l.resume ELSE NoResume])
                ELSE Flush(l)
     /\ UNCHANGED <<source, feed>>

\* The connection breaks, or has said all it had to say before its end.
Disconnect ==
  /\ link.conn # "closed"
  /\ link' = Closed([link EXCEPT !.offer = NoResume])
  /\ UNCHANGED <<source, feed>>

FeedStep == Open \/ PullPage \/ PullRefused \/ Rebase \/ RefreshExact
LinkStep == Connect \/ Subscribe \/ Receive \/ Disconnect
PollNext ==
  \/ FeedStep \/ RestartApi
  \/ SourceNext /\ UNCHANGED <<feed, link>>
FeedNext == PollNext \/ LinkStep

\* The timer of the feed fires and a call is answered.
FeedFairness == WF_FeedVars(FeedStep)
FeedSpec == FeedInit /\ [][FeedNext]_FeedVars /\ FeedFairness

(***************************************************************************)
(* Properties.                                                             *)
(***************************************************************************)
FeedTypeOK ==
  /\ feed.ready \in BOOLEAN /\ feed.pc \in {"idle", "exact", "rebase"}
  /\ feed.base \in [epoch : 1 .. MaxEpoch, cursor : 0 .. Total, fact : 0 .. MaxFact]
  /\ TradeHead \in 0 .. Total /\ Len(feed.history) <= Window
  /\ link.conn \in {"closed", "open", "closing"} /\ Len(link.queue) <= QueueFrames
  /\ Len(link.wire) <= 1 /\ (link.conn = "closed" => link.queue = <<>>)

\* A fresh subscription can always be seeded: however far the head ran ahead of
\* the base and whatever the journal has forgotten, the frames between the two
\* are still there, for every stream.
SeedIsPossible == feed.ready => Reaches(HeadsOf(feed.base))

ToClient == IF link.wire = <<>> THEN None ELSE Head(link.wire).type
TradeOnWire == ToClient = "delta" /\ Head(link.wire).stream = "trade"

\* A client never misses or sees again a trade without being told: the trade it
\* receives follows the last one it knew of in the epoch, across resumption,
\* overflowing queues, rebases and restarts, or a resync signal came before.
NoUnannouncedGap ==
  LET f == Head(link.wire) IN
  TradeOnWire /\ link.resume.epoch = f.epoch /\ link.resume.cursors["trade"] # <<>>
    => f.prior = link.resume.cursors["trade"]

\* The README says that a fresh subscription receives one exact snapshot followed
\* by deltas after that cut.
TradesFollowSnapshot ==
  LET f == Head(link.wire) IN
  TradeOnWire => link.resume.epoch = f.epoch /\ link.resume.cursors["trade"] # <<>>

\* The feed does not stay behind an owner that can be read: it comes to the
\* owner's revision, unless it used up its window before it found the owner at
\* rest, after which it asks for no trades until the epoch changes.
Caught == feed.ready /\ feed.base = CutOf(source) /\ TradeHead = source.cursor
Spent == feed.ready /\ feed.base.epoch = source.epoch /\ Used >= Window
FeedCatchesUp == []<>(~Served \/ Caught \/ Spent)
=============================================================================

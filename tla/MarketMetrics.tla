--------------------------- MODULE MarketMetrics ---------------------------
(***************************************************************************)
(* How trades become the rolling metrics of a token.  A decoded trade is   *)
(* priced and stored, and published once on a stream; the metric workers   *)
(* count it in the token's rollup, in one transaction with the event that  *)
(* says so, and only then deliver the new state: to the token's row, to    *)
(* the stream of states and to the stream of ticks.                        *)
(*                                                                         *)
(*   - a worker may die, or be so slow that another one claims its entry;  *)
(*   - what was committed and not delivered is delivered again later;      *)
(*   - before any of this the trades of the last day are replayed from the *)
(*     store, under a lease, and are not to be delivered;                  *)
(*   - a stored trade is not all of the trade: its input hash differs from *)
(*     that of the entry on the stream;                                    *)
(*   - windows are cut into buckets, and a bucket is dropped when it ends  *)
(*     before its window begins.                                           *)
(*                                                                         *)
(* One token is modelled.  A trade is a number, its event key; what it     *)
(* adds to volume, counts and makers is the number itself, so a bucket is  *)
(* how often each trade was added to it.                                   *)
(***************************************************************************)
EXTENDS Integers, Sequences, FiniteSets, FiniteSetsExt, Functions

CONSTANTS
  At,            \* when each trade was observed; its domain are the trades
  Slot,          \* the slot of each
  Windows,       \* window -> [span, width of a bucket]; the longest is "day"
  Ahead,         \* how far ahead of the clock a trade may be
  Retention,     \* how long a delivered event is kept
  Cutoff,        \* the replay from the store ends here
  Procs,         \* metric workers
  Nobody,        \* the lease has no owner yet
  MaxTries,      \* attempts at a stream entry
  LastTime       \* bound: the clock stops here

Trades == DOMAIN At
Day == Windows["day"].span

ASSUME MetricAssumption ==
  /\ Trades \subseteq Nat \ {0} /\ IsFiniteSet(Trades)
  /\ At \in [Trades -> Nat] /\ Slot \in [Trades -> Nat]
  /\ "day" \in DOMAIN Windows /\ Day \in Nat /\ Ahead \in Nat
  /\ \A w \in DOMAIN Windows :
       Windows[w].width \in Nat \ {0} /\ Windows[w].span \in 0 .. Day
  \* The default is 14 days; the least that is accepted, one day, is not enough.
  /\ Retention \in Nat /\ Retention + 1 >= Day + Ahead
  /\ Nobody \notin Procs /\ MaxTries \in Nat \ {0}
  /\ LastTime \in Nat /\ Cutoff \in 0 .. LastTime

VARIABLES
  clock,
  intake,      \* what became of each decoded trade
  trades,      \* the trades table
  unacked,     \* stream entries that were not acknowledged
  tries,       \* failed attempts of each
  buried,      \* dead letters
  rollup,      \* the locked row: revision, windows, latest trade
  metricEvents,\* market_metric_events
  token,       \* the tokens row: as of which trade, and when that was observed
  states,      \* the events whose state is on the stream of states
  ticks,       \* and whose tick is on the stream of ticks
  boot,        \* market_metric_bootstrap
  proc         \* the metric workers

MetricVars == <<clock, intake, trades, unacked, tries, buried, rollup, metricEvents,
                token, states, ticks, boot, proc>>

NoTrade == 0
NoEvent == [rev |-> 0, last |-> NoTrade, input |-> "none", published |-> FALSE, at |-> 0,
            gated |-> FALSE]
NoTask == [kind |-> "none", trade |-> NoTrade, at |-> "none"]
ProcDown == [phase |-> "down", lease |-> FALSE, cursor |-> <<0, 0>>, task |-> NoTask]

MetricInit ==
  /\ clock = Cutoff
  /\ intake \in [Trades -> {"decoded", "published"}]
  /\ \A t \in Trades : intake[t] = "published" => At[t] <= Cutoff
  /\ trades = {t \in Trades : intake[t] = "published"}
  /\ unacked = trades /\ tries = [t \in Trades |-> 0] /\ buried = {}
  /\ rollup = [rev |-> 0, last |-> NoTrade, asOf |-> 0,
               book |-> [w \in DOMAIN Windows |-> [t \in Trades |-> 0]]]
  /\ metricEvents = [t \in Trades |-> NoEvent]
  /\ token = [last |-> NoTrade, at |-> 0]
  /\ states = {} /\ ticks = {}
  /\ boot = [status |-> "pending", holder |-> Nobody, held |-> FALSE, cursor |-> <<0, 0>>]
  /\ proc = [p \in Procs |-> ProcDown]

Tick ==
  /\ clock < LastTime /\ clock' = clock + 1
  /\ UNCHANGED <<intake, trades, unacked, tries, buried, rollup, metricEvents, token,
                 states, ticks, boot, proc>>

(***************************************************************************)
(* The trade worker: enrich and store, publish once.                       *)
(***************************************************************************)
\* The row is kept even when what follows fails; the entry is then tried again.
StoreTrade(t) ==
  /\ intake[t] = "decoded" /\ At[t] <= clock
  /\ intake' = [intake EXCEPT ![t] = "stored"]
  /\ trades' = trades \cup {t}
  /\ UNCHANGED <<clock, unacked, tries, buried, rollup, metricEvents, token, states,
                 ticks, boot, proc>>

\* Published once, and acknowledged: a second publication finds the marker.
PublishTrade(t) ==
  /\ intake[t] = "stored"
  /\ intake' = [intake EXCEPT ![t] = "published"]
  /\ unacked' = unacked \cup {t}
  /\ UNCHANGED <<clock, trades, tries, buried, rollup, metricEvents, token, states,
                 ticks, boot, proc>>

\* The worker dies or a step fails: the entry is taken again, or, when it has
\* failed too often (no price, say), buried.
RetryDecoded(t) ==
  /\ intake[t] \in {"decoded", "stored"}
  /\ intake' = [intake EXCEPT ![t] = IF @ = "stored" THEN "decoded" ELSE "buried"]
  /\ UNCHANGED <<clock, trades, unacked, tries, buried, rollup, metricEvents, token,
                 states, ticks, boot, proc>>

(***************************************************************************)
(* The rolling book.                                                       *)
(***************************************************************************)
BucketEnd(w, t) == (At[t] \div Windows[w].width + 1) * Windows[w].width

\* The bucket ends before the window begins.
Ended(w, t, now) == BucketEnd(w, t) <= now - Windows[w].span

Pruned(book, now) ==
  [w \in DOMAIN book |-> [t \in Trades |-> IF Ended(w, t, now) THEN 0 ELSE book[w][t]]]

InHorizon(t, now) == At[t] <= now + Ahead /\ At[t] > now - Day

\* RollingMetricBook.add, for a trade in the horizon.
Added(book, t, now) ==
  Pruned([w \in DOMAIN book |-> [book[w] EXCEPT ![t] = @ + 1]], now)

\* isLater: by time, then by slot, then by event key.
Later(t, last) ==
  \/ last = NoTrade
  \/ At[t] > At[last]
  \/ At[t] = At[last] /\ Slot[t] > Slot[last]
  \/ At[t] = At[last] /\ Slot[t] = Slot[last] /\ t > last

(***************************************************************************)
(* The transaction of MarketMetricRepository.apply: the event is there, or *)
(* it and the rollup are written together, or nothing is.                  *)
(***************************************************************************)
\* Fault: the event is not looked up under the lock.
Known_Never(t) == FALSE

Known(t) == metricEvents[t] # NoEvent

Commit(t, input, now, byHolder) ==
  /\ ~Known(t) /\ InHorizon(t, now)
  /\ LET last == IF Later(t, rollup.last) THEN t ELSE rollup.last IN
     /\ rollup' = [rev |-> rollup.rev + 1, last |-> last, asOf |-> Max({rollup.asOf, now}),
                   book |-> Added(rollup.book, t, now)]
     /\ metricEvents' = [metricEvents EXCEPT ![t] =
          [rev |-> rollup.rev + 1, last |-> last, input |-> input, published |-> FALSE,
           at |-> clock, gated |-> byHolder]]

\* The same event, from the same input.
Duplicate(t, input) ==
  /\ Known(t) /\ metricEvents[t].input = input
  /\ UNCHANGED <<rollup, metricEvents>>

\* The trade is outside the horizon, or its event has another input.
Refused(t, input, now) ==
  \/ Known(t) /\ metricEvents[t].input # input
  \/ ~Known(t) /\ ~InHorizon(t, now)

MarkPublished(t) ==
  metricEvents' = [metricEvents EXCEPT ![t].published = TRUE]

(***************************************************************************)
(* The worker: the trades of the day, then the stream.                     *)
(***************************************************************************)
StartProc(p) ==
  /\ proc[p].phase = "down"
  /\ proc' = [proc EXCEPT ![p].phase = "boot"]
  /\ UNCHANGED <<clock, intake, trades, unacked, tries, buried, rollup, metricEvents,
                 token, states, ticks, boot>>

CrashProc(p) ==
  /\ proc[p].phase # "down"
  /\ proc' = [proc EXCEPT ![p] = ProcDown]
  /\ UNCHANGED <<clock, intake, trades, unacked, tries, buried, rollup, metricEvents,
                 token, states, ticks, boot>>

\* The lease runs out; its holder does not notice.
ExpireBoot ==
  /\ boot.held /\ boot' = [boot EXCEPT !.held = FALSE]
  /\ UNCHANGED <<clock, intake, trades, unacked, tries, buried, rollup, metricEvents,
                 token, states, ticks, proc>>

\* The gate is open, or the lease is claimed with its cursor.
ClaimBoot(p) ==
  /\ proc[p].phase = "boot" /\ ~proc[p].lease
  /\ \/ /\ boot.status = "complete"
        /\ proc' = [proc EXCEPT ![p].phase = "live"]
        /\ UNCHANGED boot
     \/ /\ boot.status # "complete" /\ ~boot.held
        /\ boot' = [boot EXCEPT !.status = "running", !.holder = p, !.held = TRUE]
        /\ proc' = [proc EXCEPT ![p].lease = TRUE, ![p].cursor = boot.cursor]
  /\ UNCHANGED <<clock, intake, trades, unacked, tries, buried, rollup, metricEvents,
                 token, states, ticks>>

\* The rows of the page that comes next.
Position(t) == <<At[t], t>>
After(a, b) == a[1] > b[1] \/ (a[1] = b[1] /\ a[2] > b[2])
PageRows(cursor) ==
  {t \in trades : At[t] > Cutoff - Day /\ At[t] <= Cutoff /\ After(Position(t), cursor)}
FirstRow(rows) == CHOOSE t \in rows : \A u \in rows \ {t} : After(Position(u), Position(t))

\* A page, of one row or none, is read ...
ReadPage(p) ==
  LET rows == PageRows(proc[p].cursor) IN
  /\ proc[p].phase = "boot" /\ proc[p].lease /\ proc[p].task = NoTask
  /\ proc' = [proc EXCEPT ![p].task =
       IF rows = {} THEN [kind |-> "replay", trade |-> NoTrade, at |-> "finish"]
       ELSE [kind |-> "replay", trade |-> FirstRow(rows), at |-> "commit"]]
  /\ UNCHANGED <<clock, intake, trades, unacked, tries, buried, rollup, metricEvents,
                 token, states, ticks, boot>>

\* Fault: the event of a row is left for redrive.
ReplayRow_Unmarked(p) ==
  LET task == proc[p].task IN
  /\ task.kind = "replay" /\ task.at = "commit"
  /\ Commit(task.trade, "row", Cutoff, boot.holder = p)
       \/ Duplicate(task.trade, "row")
  /\ proc' = [proc EXCEPT ![p].task.at = "checkpoint"]
  /\ UNCHANGED <<clock, intake, trades, unacked, tries, buried, token, states, ticks, boot>>

\* ... its row is projected as of the cutoff ...
ReplayRow(p) ==
  LET task == proc[p].task IN
  /\ task.kind = "replay" /\ task.at = "commit"
  /\ \/ Commit(task.trade, "row", Cutoff, boot.holder = p)
     \/ Duplicate(task.trade, "row")
  /\ proc' = [proc EXCEPT ![p].task.at = IF metricEvents'[task.trade].published
                                        THEN "checkpoint" ELSE "mark"]
  /\ UNCHANGED <<clock, intake, trades, unacked, tries, buried, token, states, ticks, boot>>

\* ... and marked, as if it had been delivered.
MarkRow(p) ==
  LET task == proc[p].task IN
  /\ task.kind = "replay" /\ task.at = "mark" /\ Known(task.trade)
  /\ MarkPublished(task.trade)
  /\ proc' = [proc EXCEPT ![p].task.at = "checkpoint"]
  /\ UNCHANGED <<clock, intake, trades, unacked, tries, buried, rollup, token, states,
                 ticks, boot>>

\* The cursor moves if the lease is still the worker's; otherwise it dies.
CheckpointRow(p) ==
  LET task == proc[p].task IN
  /\ task.kind = "replay" /\ task.at = "checkpoint"
  /\ \/ /\ boot.status = "running" /\ boot.holder = p
        /\ boot' = [boot EXCEPT !.cursor = Position(task.trade), !.held = TRUE]
        /\ proc' = [proc EXCEPT ![p].task = NoTask, ![p].cursor = Position(task.trade)]
     \/ /\ ~(boot.status = "running" /\ boot.holder = p)
        /\ proc' = [proc EXCEPT ![p] = ProcDown]
        /\ UNCHANGED boot
  /\ UNCHANGED <<clock, intake, trades, unacked, tries, buried, rollup, metricEvents,
                 token, states, ticks>>

\* No row was left: the gate opens.
FinishBoot(p) ==
  /\ proc[p].task.at = "finish"
  /\ \/ /\ boot.status = "running" /\ boot.holder = p
        /\ boot' = [boot EXCEPT !.status = "complete", !.held = FALSE]
        /\ proc' = [proc EXCEPT ![p].lease = FALSE, ![p].task = NoTask]
     \/ /\ ~(boot.status = "running" /\ boot.holder = p)
        /\ proc' = [proc EXCEPT ![p] = ProcDown]
        /\ UNCHANGED boot
  /\ UNCHANGED <<clock, intake, trades, unacked, tries, buried, rollup, metricEvents,
                 token, states, ticks>>

Free(p) == proc[p].phase = "live" /\ proc[p].task = NoTask

\* An entry, new or left by another worker, is projected as of now.  What is not
\* published yet is delivered.
ProjectEntry(p, t) ==
  /\ Free(p) /\ t \in unacked
  /\ Commit(t, "stream", clock, FALSE) \/ Duplicate(t, "stream")
  /\ proc' = [proc EXCEPT ![p].task = [kind |-> "live", trade |-> t,
       at |-> IF metricEvents'[t].published THEN "ack" ELSE "persist"]]
  /\ UNCHANGED <<clock, intake, trades, unacked, tries, buried, token, states, ticks, boot>>

\* Fault: an entry is tried for ever.
RetryEntry_Forever(t) ==
  /\ tries' = [tries EXCEPT ![t] = Min({@ + 1, MaxTries})]
  /\ UNCHANGED <<unacked, buried>>

\* Fault: one attempt too many.
RetryEntry_Late(t) ==
  /\ tries' = [tries EXCEPT ![t] = @ + 1]
  /\ \/ tries[t] < MaxTries /\ UNCHANGED <<unacked, buried>>
     \/ /\ tries[t] >= MaxTries
        /\ buried' = buried \cup {t} /\ unacked' = unacked \ {t}

\* An entry that failed is tried again, until it is buried.
RetryEntry(t) ==
  /\ tries' = [tries EXCEPT ![t] = Min({@ + 1, MaxTries})]
  /\ \/ tries[t] + 1 < MaxTries /\ UNCHANGED <<unacked, buried>>
     \/ /\ tries[t] + 1 >= MaxTries
        /\ buried' = buried \cup {t} /\ unacked' = unacked \ {t}

\* The projection is refused.
RefuseEntry(p, t) ==
  /\ Free(p) /\ t \in unacked
  /\ Refused(t, "stream", clock)
  /\ RetryEntry(t)
  /\ UNCHANGED <<clock, intake, trades, rollup, metricEvents, token, states, ticks, boot,
                 proc>>

\* redrive: what was committed and not published.
Redrive(p, t) ==
  /\ Free(p) /\ Known(t) /\ ~metricEvents[t].published
  /\ proc' = [proc EXCEPT ![p].task = [kind |-> "redrive", trade |-> t, at |-> "persist"]]
  /\ UNCHANGED <<clock, intake, trades, unacked, tries, buried, rollup, metricEvents,
                 token, states, ticks, boot>>

\* Fault: the row of the token is written by whoever comes last.
Newer_Always(t) == TRUE

\* The row of the token is not set back in time.
Newer(t) == token.last = NoTrade \/ At[t] >= token.at

\* The snapshot is there or not; the row is written if the state is not older.
PersistState(p) ==
  LET task == proc[p].task
      last == metricEvents[task.trade].last
  IN /\ task.at = "persist" /\ Known(task.trade)
     /\ token' = IF Newer(last)
                 THEN [last |-> last, at |-> At[last]] ELSE token
     /\ proc' = [proc EXCEPT ![p].task.at = "state"]
     /\ UNCHANGED <<clock, intake, trades, unacked, tries, buried, rollup, metricEvents,
                    states, ticks, boot>>

PublishState(p) ==
  LET task == proc[p].task IN
  /\ task.at = "state"
  /\ states' = states \cup {task.trade}
  /\ proc' = [proc EXCEPT ![p].task.at = "tick"]
  /\ UNCHANGED <<clock, intake, trades, unacked, tries, buried, rollup, metricEvents,
                 token, ticks, boot>>

PublishTick(p) ==
  LET task == proc[p].task IN
  /\ task.at = "tick"
  /\ ticks' = ticks \cup {task.trade}
  /\ proc' = [proc EXCEPT ![p].task.at = "mark"]
  /\ UNCHANGED <<clock, intake, trades, unacked, tries, buried, rollup, metricEvents,
                 token, states, boot>>

\* An event that was pruned meanwhile is an error like any other.
MarkDelivered(p) ==
  LET task == proc[p].task IN
  /\ task.kind \in {"live", "redrive"} /\ task.at = "mark" /\ Known(task.trade)
  /\ MarkPublished(task.trade)
  /\ proc' = [proc EXCEPT ![p].task = IF task.kind = "live"
                THEN [task EXCEPT !.at = "ack"] ELSE NoTask]
  /\ UNCHANGED <<clock, intake, trades, unacked, tries, buried, rollup, token, states,
                 ticks, boot>>

AckEntry(p) ==
  LET task == proc[p].task IN
  /\ task.kind = "live" /\ task.at = "ack"
  /\ unacked' = unacked \ {task.trade}
  /\ tries' = [tries EXCEPT ![task.trade] = 0]
  /\ proc' = [proc EXCEPT ![p].task = NoTask]
  /\ UNCHANGED <<clock, intake, trades, buried, rollup, metricEvents, token,
                 states, ticks, boot>>

\* A delivery fails: the entry is tried again; a redrive that fails ends the worker.
FailDelivery(p) ==
  LET task == proc[p].task IN
  /\ \/ /\ task.kind = "live" /\ RetryEntry(task.trade)
        /\ proc' = [proc EXCEPT ![p].task = NoTask]
     \/ /\ task.kind = "redrive" /\ proc' = [proc EXCEPT ![p] = ProcDown]
        /\ UNCHANGED <<tries, unacked, buried>>
  /\ UNCHANGED <<clock, intake, trades, rollup, metricEvents, token, states, ticks, boot>>

\* A live worker prunes delivered events that are old.  A worker that has lost its
\* lease on the replay has learned so long before they are.
PruneEvent(p, t) ==
  /\ Free(p) /\ \A q \in Procs : ~proc[q].lease
  /\ Known(t) /\ metricEvents[t].published
  /\ metricEvents[t].at < clock - Retention
  /\ metricEvents' = [metricEvents EXCEPT ![t] = NoEvent]
  /\ UNCHANGED <<clock, intake, trades, unacked, tries, buried, rollup, token, states,
                 ticks, boot, proc>>

BootStep(p) ==
  \/ StartProc(p) \/ ClaimBoot(p) \/ ReadPage(p) \/ ReplayRow(p) \/ MarkRow(p) \/ CheckpointRow(p)
  \/ FinishBoot(p)

DeliverStep(p) ==
  \/ PersistState(p) \/ PublishState(p) \/ PublishTick(p) \/ MarkDelivered(p) \/ AckEntry(p)

IntakeStep(t) == StoreTrade(t) \/ PublishTrade(t) \/ RetryDecoded(t)

\* What a worker does by itself.
WorkerStep(p) ==
  \/ BootStep(p) \/ DeliverStep(p)
  \/ \E t \in Trades : ProjectEntry(p, t) \/ RefuseEntry(p, t) \/ Redrive(p, t)

\* What happens to it.
Mishap(p) == CrashProc(p) \/ FailDelivery(p)

MetricNext ==
  \/ Tick \/ ExpireBoot
  \/ \E t \in Trades : IntakeStep(t)
  \/ \E p \in Procs :
       WorkerStep(p) \/ Mishap(p) \/ \E t \in Trades : PruneEvent(p, t)

MetricSpec == MetricInit /\ [][MetricNext]_MetricVars

(***************************************************************************)
(* Properties.                                                             *)
(***************************************************************************)
MetricTypeOK ==
  /\ clock \in 0 .. LastTime
  /\ intake \in [Trades -> {"decoded", "stored", "published", "buried"}]
  /\ trades \subseteq Trades /\ unacked \subseteq Trades /\ buried \subseteq Trades
  /\ tries \in [Trades -> 0 .. MaxTries]
  /\ rollup \in [rev : Nat, last : Trades \cup {NoTrade}, asOf : 0 .. LastTime,
                 book : [DOMAIN Windows -> [Trades -> Nat]]]
  /\ metricEvents \in [Trades ->
       [rev : Nat, last : Trades \cup {NoTrade}, input : {"none", "row", "stream"},
        published : BOOLEAN, at : 0 .. LastTime, gated : BOOLEAN]]
  /\ token \in [last : Trades \cup {NoTrade}, at : Nat]
  /\ states \subseteq Trades /\ ticks \subseteq Trades
  /\ boot.status \in {"pending", "running", "complete"}
  /\ \A p \in Procs :
       /\ proc[p].phase \in {"down", "boot", "live"}
       /\ proc[p].task.kind \in {"none", "replay", "live", "redrive"}

\* The rollup is its trades, whatever was redelivered, replayed, pruned or came
\* late: in each window whose bucket has not ended a trade is counted once if it
\* has its event and not at all if it could still be counted, and the price is that
\* of the last trade there is.
RollupIsTrades ==
  \A t \in Trades :
    /\ \A w \in DOMAIN Windows :
         /\ ~Ended(w, t, rollup.asOf) /\ Known(t) => rollup.book[w][t] = 1
         /\ ~Known(t) /\ InHorizon(t, clock) => rollup.book[w][t] = 0
    /\ Known(t) => t = rollup.last \/ Later(rollup.last, t)

\* A trade that was counted from the store by the holder of the lease is history,
\* even if the holder died before it had marked it: no alert is matched with its
\* tick.
HistoryIsSilent == \A t \in ticks : ~metricEvents[t].gated

\* What is said to be delivered is: the state and the tick of an event that came by
\* the stream are on their streams, and the token's row is not older.
DeliveredIsThere ==
  \A t \in Trades :
    Known(t) /\ metricEvents[t].published /\ metricEvents[t].input = "stream" =>
      t \in states /\ t \in ticks /\ token.at >= At[metricEvents[t].last]

\* What is delivered of a metric is there to be read, and history is not news
\* (marketMetricService.ts).
MetricEventsAreTrue == MetricTypeOK /\ HistoryIsSilent /\ DeliveredIsThere

\* What was committed is delivered, wherever the workers died before, and an entry
\* of the stream is counted or buried.
CommittedIsDelivered ==
  \A t \in Trades :
    /\ Known(t) ~> (~Known(t) \/ metricEvents[t].published)
    /\ t \in unacked ~> t \notin unacked
=============================================================================

---------------------------- MODULE MarketProofs ----------------------------
(***************************************************************************)
(* Proofs about MarketMetrics, CandleProjection and AlertTrigger, for any  *)
(* trades, any number of workers, any windows, any definitions of an alert *)
(* and any bounds.                                                         *)
(***************************************************************************)
EXTENDS MarketMetrics, CandleProjection, AlertTrigger, FiniteSetTheorems, WellFoundedInduction, TLAPS

(***************************************************************************)
(* Extremes of finite sets.                                                *)
(***************************************************************************)
\* A finite family of sets that is not empty has a member none of the others is
\* a part of.
LEMMA SmallestMember ==
  ASSUME NEW S, IsFiniteSet(S), NEW F \in SUBSET SUBSET S, F # {}
  PROVE  \E x \in F : \A y \in F : y \subseteq x => y = x
<1>1. IsWellFoundedOn(StrictSubsetOrdering(S), SUBSET S)
  BY FS_StrictSubsetOrderingWellFounded, FS_FiniteSubsetsOfFinite
<1>2. PICK x \in F : \A y \in F : <<y, x>> \notin StrictSubsetOrdering(S)
  BY <1>1, WFMin
<1>3. QED
  BY <1>2 DEF StrictSubsetOrdering

(***************************************************************************)
(* The candle.                                                             *)
(***************************************************************************)
CandleRows ==
  [open : CandleTrades \cup {0}, close : CandleTrades \cup {0}, added : [CandleTrades -> Nat]]

Projections ==
  [at : {"read", "project", "publish", "ack"}, batch : SUBSET CandleTrades, row : CandleRows]

\* What a worker publishes or acknowledges was projected.
CandleInv ==
  /\ toProject \subseteq CandleTrades /\ projected \subseteq CandleTrades
  /\ candle \in CandleRows /\ published \in CandleRows
  /\ projector \in [Projectors -> Projections]
  /\ CandleIsTrades
  /\ \A p \in Projectors :
       projector[p].at \in {"publish", "ack"} => projector[p].batch \subseteq projected

\* The order of trades is total: any trades there are have a first and a last one.
LEMMA TradeOrderTotal ==
  /\ \A t, u \in CandleTrades : t = u \/ TradeOrder(t, u) \/ TradeOrder(u, t)
  /\ \A t \in CandleTrades : ~TradeOrder(t, t)
  /\ \A t, u, v \in CandleTrades : TradeOrder(t, u) /\ TradeOrder(u, v) => TradeOrder(t, v)
BY CandleAssumption DEF TradeOrder

\* The first of some trades is one of them.
LEMMA FirstTradeThere ==
  ASSUME NEW ts \in SUBSET CandleTrades, ts # {}
  PROVE  FirstTrade(ts) \in ts
<1> DEFINE Before(t) == {u \in ts : TradeOrder(u, t)}
           F == {Before(t) : t \in ts}
<1>1. PICK x \in F : \A y \in F : y \subseteq x => y = x
  <2>1. IsFiniteSet(CandleTrades) BY CandleAssumption
  <2>2. F \in SUBSET SUBSET CandleTrades /\ F # {} OBVIOUS
  <2> HIDE DEF F
  <2>3. QED BY <2>1, <2>2, SmallestMember
<1>2. PICK t \in ts : x = Before(t) OBVIOUS
<1>3. ASSUME NEW u \in ts, TradeOrder(u, t) PROVE FALSE
  <2>1. Before(u) \subseteq x /\ u \in x /\ u \notin Before(u)
    BY <1>2, <1>3, TradeOrderTotal
  <2>2. QED BY <1>1, <2>1
<1>4. \A u \in ts \ {t} : TradeOrder(t, u) BY <1>3, TradeOrderTotal
<1>5. QED BY <1>4 DEF FirstTrade

\* The last of some trades is one of them.
LEMMA LastTradeThere ==
  ASSUME NEW ts \in SUBSET CandleTrades, ts # {}
  PROVE  LastTrade(ts) \in ts
<1> DEFINE Behind(t) == {u \in ts : TradeOrder(t, u)}
           F == {Behind(t) : t \in ts}
<1>1. PICK x \in F : \A y \in F : y \subseteq x => y = x
  <2>1. IsFiniteSet(CandleTrades) BY CandleAssumption
  <2>2. F \in SUBSET SUBSET CandleTrades /\ F # {} OBVIOUS
  <2> HIDE DEF F
  <2>3. QED BY <2>1, <2>2, SmallestMember
<1>2. PICK t \in ts : x = Behind(t) OBVIOUS
<1>3. ASSUME NEW u \in ts, TradeOrder(t, u) PROVE FALSE
  <2>1. Behind(u) \subseteq x /\ u \in x /\ u \notin Behind(u)
    BY <1>2, <1>3, TradeOrderTotal
  <2>2. QED BY <1>1, <2>1
<1>4. \A u \in ts \ {t} : TradeOrder(u, t) BY <1>3, TradeOrderTotal
<1>5. QED BY <1>4 DEF LastTrade

\* A row into which a batch is merged is a row, and counts what the batch adds.
LEMMA MergedIsRow ==
  ASSUME NEW row \in CandleRows, NEW ts \in SUBSET CandleTrades
  PROVE  /\ Merged(row, ts) \in CandleRows
         /\ \A t \in CandleTrades :
              Merged(row, ts).added[t] = row.added[t] + IF t \in ts THEN 1 ELSE 0
<1>1. CASE ts = {} BY <1>1 DEF Merged, CandleRows
<1>2. CASE ts # {}
  <2>1. FirstTrade(ts) \in CandleTrades /\ LastTrade(ts) \in CandleTrades
    BY <1>2, FirstTradeThere, LastTradeThere
  <2>2. QED BY <1>2, <2>1 DEF Merged, CandleRows
<1>3. QED BY <1>1, <1>2

\* No candle, and nothing projected.
LEMMA CandleStart == CandleInit => CandleInv
BY DEF CandleInit, CandleInv, CandleIsTrades, CandleRows, Projections, NoCandle, Waiting

\* A step of the projectors keeps the invariant of the candle.
LEMMA CandleKept == CandleInv /\ [CandleNext]_CandleVars => CandleInv'
<1> SUFFICES ASSUME CandleInv, [CandleNext]_CandleVars PROVE CandleInv'
  OBVIOUS
<1>0. NoCandle \in CandleRows /\ Waiting \in Projections
  BY DEF NoCandle, Waiting, CandleRows, Projections
<1>1. ASSUME NEW p \in Projectors, NEW batch \in SUBSET toProject, ReadBatch(p, batch)
      PROVE  CandleInv'
  <2>1. [Waiting EXCEPT !.at = "project", !.batch = batch] \in Projections
    BY <1>0, <1>1 DEF CandleInv, Projections
  <2>2. QED BY <1>1, <2>1 DEF CandleInv, ReadBatch, CandleIsTrades, Projections
<1>2. ASSUME NEW p \in Projectors, Project(p) PROVE CandleInv'
  <2>1. projector[p] \in Projections /\ Accepted(projector[p].batch) \subseteq CandleTrades
    BY DEF CandleInv, Projections, Accepted
  <2>2. candle' \in CandleRows
    BY <1>2, <2>1, MergedIsRow DEF CandleInv, Project
  <2>3. \A t \in CandleTrades :
          candle'.added[t] = candle.added[t] + IF t \in projector[p].batch \ projected THEN 1 ELSE 0
    BY <1>2, <2>1, MergedIsRow DEF CandleInv, Project, Accepted
  <2>4. projector' \in [Projectors -> Projections]
    BY <1>2, <2>1, <2>2 DEF CandleInv, Project, Projections
  <2>5. projected' = projected \cup projector[p].batch /\ UNCHANGED <<toProject, published>>
    BY <1>2 DEF Project
  <2>6. CandleIsTrades'
    BY <2>1, <2>3, <2>5 DEF CandleInv, CandleIsTrades, Projections
  <2>7. \A q \in Projectors : projector'[q].batch = projector[q].batch
                           /\ (q # p => projector'[q] = projector[q])
    BY <1>2, <2>1 DEF CandleInv, Project, Projections
  <2>8. QED BY <2>1, <2>2, <2>4, <2>5, <2>6, <2>7 DEF CandleInv, Projections
<1>3. ASSUME NEW p \in Projectors, PublishCandle(p) PROVE CandleInv'
  <2>1. projector[p] \in Projections BY DEF CandleInv
  <2>2. projector' \in [Projectors -> Projections] /\ published' \in CandleRows
    BY <1>0, <1>3, <2>1 DEF CandleInv, PublishCandle, Projections
  <2>3. QED BY <1>3, <2>1, <2>2 DEF CandleInv, PublishCandle, CandleIsTrades, Projections
<1>4. ASSUME NEW p \in Projectors, AckCandle(p) PROVE CandleInv'
  <2>1. projector[p] \in Projections BY DEF CandleInv
  <2>2. PICK t \in projector[p].batch :
          /\ toProject' = toProject \ {t}
          /\ projector' = [projector EXCEPT ![p] =
               IF projector[p].batch = {t} THEN Waiting
               ELSE [projector[p] EXCEPT !.batch = @ \ {t}]]
    BY <1>4, <2>1 DEF AckCandle, CandleInv
  <2>3. projector[p].at = "ack" /\ UNCHANGED <<projected, candle, published>>
    BY <1>4 DEF AckCandle
  <2>4. t \in projected BY <2>2, <2>3 DEF CandleInv
  <2>5. projector' \in [Projectors -> Projections]
    BY <1>0, <2>1, <2>2 DEF CandleInv, Projections
  <2>6. QED BY <1>0, <2>1, <2>2, <2>3, <2>4, <2>5
            DEF CandleInv, CandleIsTrades, Projections, Waiting
<1>5. ASSUME NEW p \in Projectors, FailBatch(p) PROVE CandleInv'
  BY <1>0, <1>5 DEF CandleInv, FailBatch, CandleIsTrades, Waiting
<1>6. CASE UNCHANGED CandleVars
  BY <1>6 DEF CandleVars, CandleInv, CandleIsTrades
<1>7. QED BY <1>1, <1>2, <1>3, <1>4, <1>5, <1>6 DEF CandleNext, CandleStep

\* A trade is in the candle once if it was projected and not at all if it was not,
\* whatever batches the workers read, share, acknowledge or fail, and no entry is
\* acknowledged that was not projected (candleProjector.ts).
THEOREM CandlesTrue == CandleSpec => []CandlesAreTrades
<1>1. CandleInv => CandlesAreTrades
  BY DEF CandleInv, CandlesAreTrades, CandleTypeOK, CandleRows, Projections
<1>2. QED BY <1>1, CandleStart, CandleKept, PTL DEF CandleSpec

(***************************************************************************)
(* The metrics: what their records hold.                                   *)
(***************************************************************************)
Rollups ==
  [rev : Nat, last : Trades \cup {NoTrade}, asOf : 0 .. LastTime,
   book : [DOMAIN Windows -> [Trades -> Nat]]]

MetricEvents ==
  [rev : Nat, last : Trades \cup {NoTrade}, input : {"none", "row", "stream"},
   published : BOOLEAN, at : 0 .. LastTime, gated : BOOLEAN]

Tokens == [last : Trades \cup {NoTrade}, at : Nat]

ReplayAt == {"commit", "mark", "checkpoint"}
DeliverAt == {"persist", "state", "tick", "mark"}

Tasks ==
  [kind : {"none", "replay", "live", "redrive"}, trade : Trades \cup {NoTrade},
   at : {"none", "finish", "ack"} \cup ReplayAt \cup DeliverAt]

Workers == [phase : {"down", "boot", "live"}, lease : BOOLEAN, cursor : Nat \X Nat, task : Tasks]

Boots ==
  [status : {"pending", "running", "complete"}, holder : Procs \cup {Nobody}, held : BOOLEAN,
   cursor : Nat \X Nat]

MetricTypes ==
  /\ clock \in Cutoff .. LastTime
  /\ intake \in [Trades -> {"decoded", "stored", "published", "buried"}]
  /\ trades \subseteq Trades /\ unacked \subseteq Trades /\ buried \subseteq Trades
  /\ tries \in [Trades -> 0 .. MaxTries]
  /\ rollup \in Rollups
  /\ metricEvents \in [Trades -> MetricEvents]
  /\ token \in Tokens
  /\ states \subseteq Trades /\ ticks \subseteq Trades
  /\ boot \in Boots
  /\ proc \in [Procs -> Workers]

(***************************************************************************)
(* The inductive invariant of the metrics.                                 *)
(***************************************************************************)
\* The replay is over, and nobody believes it is not.
Settled == boot.status = "complete" /\ \A p \in Procs : ~proc[p].lease

\* Counted under the lease and not yet marked: the replay has to come back to it.
Owed(t) == metricEvents[t].gated /\ ~metricEvents[t].published

\* A trade without an event is in no bucket, unless its event was pruned, which
\* happens when the replay is over and the trade is out of the horizon for ever.
BookInv(t) ==
  /\ Known(t) =>
       /\ rollup.last \in Trades /\ (t = rollup.last \/ Later(rollup.last, t))
       /\ \A w \in DOMAIN Windows : ~Ended(w, t, rollup.asOf) => rollup.book[w][t] = 1
  /\ ~Known(t) /\ ~(Settled /\ At[t] <= clock - Day) =>
       \A w \in DOMAIN Windows : rollup.book[w][t] = 0

\* An event was committed while its trade was in the horizon; history has no tick.
EventInv(t) ==
  /\ Known(t) =>
       /\ metricEvents[t].last \in Trades /\ metricEvents[t].input # "none"
       /\ metricEvents[t].at <= clock /\ At[t] <= metricEvents[t].at + Ahead
       /\ metricEvents[t].published /\ metricEvents[t].input = "stream" =>
            t \in states /\ t \in ticks /\ token.at >= At[metricEvents[t].last]
  /\ metricEvents[t].gated => metricEvents[t].input = "row"
  /\ t \in ticks => boot.status = "complete" /\ ~metricEvents[t].gated

\* What is owed is still ahead of the cursor.
OwedInv(t) == Owed(t) => boot.status # "complete" /\ t \in PageRows(boot.cursor)

\* A task of the replay is a task under a lease; what is delivered is no history,
\* and its steps are done in order.
TaskInv(p) ==
  LET task == proc[p].task IN
  \/ task = NoTask
  \/ /\ task.kind = "replay" /\ proc[p].lease
     /\ task.at = "finish" \/ (task.at \in ReplayAt /\ task.trade \in PageRows(proc[p].cursor))
     /\ task.at \in {"mark", "checkpoint"} =>
          Known(task.trade) /\ metricEvents[task.trade].input = "row"
     /\ task.at = "checkpoint" => metricEvents[task.trade].published
  \/ /\ task.kind \in {"live", "redrive"} /\ proc[p].phase = "live"
     /\ task.trade \in Trades /\ ~metricEvents[task.trade].gated
     /\ task.at \in DeliverAt \/ (task.kind = "live" /\ task.at = "ack")
     /\ Known(task.trade) \/ (Settled /\ At[task.trade] <= clock - Day)
     /\ task.at \in {"state", "tick", "mark"} /\ Known(task.trade) =>
          token.at >= At[metricEvents[task.trade].last]
     /\ task.at \in {"tick", "mark"} => task.trade \in states
     /\ task.at = "mark" => task.trade \in ticks

\* A worker that believes in its lease either has lost it or goes through the
\* trades with nothing owed behind it.
LeaseInv(p) ==
  /\ proc[p].phase = "live" => boot.status = "complete"
  /\ proc[p].lease => /\ proc[p].phase = "boot" /\ boot.status # "pending"
                      /\ boot.status = "complete" => boot.holder # p
  /\ proc[p].lease /\ boot.holder = p =>
       LET task == proc[p].task IN
       /\ proc[p].cursor = boot.cursor
       /\ task.kind = "replay" /\ task.at \in ReplayAt =>
            \A u \in Trades : Owed(u) => u = task.trade \/ After(Position(u), Position(task.trade))
       /\ task.at = "finish" => \A u \in Trades : ~Owed(u)

MetricInv ==
  /\ MetricTypes
  /\ token.last = NoTrade => token.at = 0
  /\ \A t \in Trades : BookInv(t) /\ EventInv(t) /\ OwedInv(t)
  /\ \A p \in Procs : TaskInv(p) /\ LeaseInv(p)

(***************************************************************************)
(* Buckets, the order of trades, the next row.                             *)
(***************************************************************************)
LEMMA BucketEndIsInt ==
  ASSUME NEW w \in DOMAIN Windows, NEW t \in Trades
  PROVE  BucketEnd(w, t) \in Int /\ Windows[w].span \in Nat
<1>1. Windows[w].width \in Nat \ {0} /\ At[t] \in Nat BY MetricAssumption
<1>2. At[t] \div Windows[w].width \in Int BY <1>1
<1>3. QED BY <1>1, <1>2, MetricAssumption DEF BucketEnd

\* A bucket that has ended stays ended.
LEMMA EndedStays ==
  ASSUME NEW w \in DOMAIN Windows, NEW t \in Trades, NEW a \in Int, NEW b \in Int,
         a <= b, Ended(w, t, a)
  PROVE  Ended(w, t, b)
BY BucketEndIsInt DEF Ended

\* The order of the rollup is total.
LEMMA LaterTotal ==
  ASSUME NEW t \in Trades, NEW u \in Trades
  PROVE  /\ t = u \/ Later(t, u) \/ Later(u, t)
         /\ \A v \in Trades : Later(t, u) /\ Later(u, v) => Later(t, v)
BY MetricAssumption DEF Later, NoTrade

\* The order of the replay pages is total.
LEMMA AfterTotal ==
  /\ \A t, u \in Trades : t = u \/ After(Position(t), Position(u)) \/ After(Position(u), Position(t))
  /\ \A t \in Trades : ~After(Position(t), Position(t))
  /\ \A t, u, v \in Trades :
       After(Position(t), Position(u)) /\ After(Position(u), Position(v)) =>
         After(Position(t), Position(v))
BY MetricAssumption DEF After, Position

\* A page that is not empty has a first row.
LEMMA FirstRowThere ==
  ASSUME NEW rows \in SUBSET Trades, rows # {}
  PROVE  /\ FirstRow(rows) \in rows
         /\ \A u \in rows : u = FirstRow(rows) \/ After(Position(u), Position(FirstRow(rows)))
<1> DEFINE Before(t) == {u \in rows : After(Position(t), Position(u))}
           F == {Before(t) : t \in rows}
<1>1. PICK x \in F : \A y \in F : y \subseteq x => y = x
  <2>1. IsFiniteSet(Trades) BY MetricAssumption
  <2>2. F \in SUBSET SUBSET Trades /\ F # {} OBVIOUS
  <2> HIDE DEF F
  <2>3. QED BY <2>1, <2>2, SmallestMember
<1>2. PICK t \in rows : x = Before(t) OBVIOUS
<1>3. ASSUME NEW u \in rows, After(Position(t), Position(u)) PROVE FALSE
  <2>1. Before(u) \subseteq x /\ u \in x /\ u \notin Before(u)
    BY <1>2, <1>3, AfterTotal
  <2>2. QED BY <1>1, <2>1
<1>4. \A u \in rows \ {t} : After(Position(u), Position(t)) BY <1>3, AfterTotal
<1>5. QED BY <1>4 DEF FirstRow

\* The larger of two integers.
LEMMA LargerOfTwo ==
  ASSUME NEW a \in Int, NEW b \in Int
  PROVE  Max({a, b}) \in {a, b} /\ Max({a, b}) >= a /\ Max({a, b}) >= b
<1>1. \E x \in {a, b} : \A y \in {a, b} : x >= y
  <2>1. CASE a >= b BY <2>1
  <2>2. CASE b >= a BY <2>2
  <2>3. QED BY <2>1, <2>2
<1>2. QED BY <1>1 DEF Max

\* The smaller of two integers.
LEMMA SmallerOfTwo ==
  ASSUME NEW a \in Int, NEW b \in Int
  PROVE  Min({a, b}) \in {a, b} /\ Min({a, b}) <= a /\ Min({a, b}) <= b
<1>1. \E x \in {a, b} : \A y \in {a, b} : x =< y
  <2>1. CASE a <= b BY <2>1
  <2>2. CASE b <= a BY <2>2
  <2>3. QED BY <2>1, <2>2
<1>2. QED BY <1>1 DEF Min

(***************************************************************************)
(* Types.                                                                  *)
(***************************************************************************)
LEMMA NothingTyped ==
  NoEvent \in MetricEvents /\ NoTask \in Tasks /\ ProcDown \in Workers
BY MetricAssumption DEF NoEvent, MetricEvents, NoTask, Tasks, ProcDown, Workers, NoTrade

\* A trade that has no event row has the blank one.
LEMMA EventUnknown ==
  ASSUME MetricTypes, NEW t \in Trades, ~Known(t)
  PROVE  metricEvents[t] = NoEvent
BY DEF Known

\* Nothing is counted and nothing is owed.
LEMMA MetricStart == MetricInit => MetricInv
<1> SUFFICES ASSUME MetricInit PROVE MetricInv OBVIOUS
<1>1. MetricTypes
  BY NothingTyped, MetricAssumption
     DEF MetricInit, MetricTypes, Rollups, Tokens, Boots, MetricEvents, Workers, NoTrade
<1>2. ASSUME NEW t \in Trades PROVE BookInv(t) /\ EventInv(t) /\ OwedInv(t)
  BY DEF MetricInit, BookInv, EventInv, OwedInv, Owed, Known, NoEvent
<1>3. ASSUME NEW p \in Procs PROVE TaskInv(p) /\ LeaseInv(p)
  BY DEF MetricInit, TaskInv, LeaseInv, ProcDown
<1>4. QED BY <1>1, <1>2, <1>3 DEF MetricInv, MetricInit

\* What the transaction of a trade writes has its type.
LEMMA CommitTyped ==
  ASSUME MetricTypes, NEW t \in Trades, NEW input \in {"row", "stream"},
         NEW now \in 0 .. LastTime, NEW byHolder \in BOOLEAN, Commit(t, input, now, byHolder)
  PROVE  rollup' \in Rollups /\ metricEvents' \in [Trades -> MetricEvents]
<1> DEFINE last == IF Later(t, rollup.last) THEN t ELSE rollup.last
<1>1. last \in Trades \cup {NoTrade} BY DEF MetricTypes, Rollups
<1>2. Max({rollup.asOf, now}) \in 0 .. LastTime
  <2>1. rollup.asOf \in 0 .. LastTime BY DEF MetricTypes, Rollups
  <2>2. rollup.asOf \in Int /\ now \in Int BY <2>1, MetricAssumption
  <2>3. Max({rollup.asOf, now}) \in {rollup.asOf, now} BY <2>2, LargerOfTwo
  <2>4. QED BY <2>1, <2>3
<1>3. Added(rollup.book, t, now) \in [DOMAIN Windows -> [Trades -> Nat]]
  <2>1. rollup.book \in [DOMAIN Windows -> [Trades -> Nat]] BY DEF MetricTypes, Rollups
  <2>2. QED BY <2>1 DEF Added, Pruned
<1>4. rollup.rev + 1 \in Nat BY DEF MetricTypes, Rollups
<1>5. rollup' = [rev |-> rollup.rev + 1, last |-> last, asOf |-> Max({rollup.asOf, now}),
                 book |-> Added(rollup.book, t, now)]
  BY DEF Commit
<1>6. metricEvents' = [metricEvents EXCEPT ![t] =
          [rev |-> rollup.rev + 1, last |-> last, input |-> input, published |-> FALSE,
           at |-> clock, gated |-> byHolder]]
  BY DEF Commit
<1>7. clock \in 0 .. LastTime BY MetricAssumption DEF MetricTypes
<1> HIDE DEF last
<1>8. QED BY <1>1, <1>2, <1>3, <1>4, <1>5, <1>6, <1>7 DEF MetricTypes, Rollups, MetricEvents

\* Marking an event published keeps the type of the events.
LEMMA MarkTyped ==
  ASSUME MetricTypes, NEW t \in Trades, MarkPublished(t)
  PROVE  metricEvents' \in [Trades -> MetricEvents]
BY DEF MetricTypes, MarkPublished, MetricEvents

\* Handing an entry back to the stream keeps the types.
LEMMA RetryTyped ==
  ASSUME MetricTypes, NEW t \in Trades \cup {NoTrade}, RetryEntry(t)
  PROVE  /\ tries' \in [Trades -> 0 .. MaxTries]
         /\ unacked' \subseteq Trades
         /\ t \in Trades => buried' \subseteq Trades
<1>1. unacked' \subseteq Trades /\ (t \in Trades => buried' \subseteq Trades)
  BY DEF MetricTypes, RetryEntry
<1>2. tries' = [tries EXCEPT ![t] = Min({tries[t] + 1, MaxTries})] BY DEF RetryEntry
<1>3. ASSUME t \in Trades PROVE Min({tries[t] + 1, MaxTries}) \in 0 .. MaxTries
  <2>1. tries[t] \in 0 .. MaxTries BY <1>3 DEF MetricTypes
  <2>2. tries[t] + 1 \in Int /\ tries[t] + 1 >= 0 /\ MaxTries \in Nat BY <2>1, MetricAssumption
  <2> DEFINE least == Min({tries[t] + 1, MaxTries})
  <2>3. least \in {tries[t] + 1, MaxTries} /\ least <= MaxTries
    <3>1. PICK a \in Int : a = tries[t] + 1 BY <2>2
    <3>0. MaxTries \in Int /\ a \in Int BY <2>2
    <3>2. Min({a, MaxTries}) \in {a, MaxTries} /\ Min({a, MaxTries}) <= MaxTries
      BY ONLY <3>0, SmallerOfTwo
    <3>3. QED BY <3>1, <3>2, Zenon
  <2> HIDE DEF least
  <2>4. least \in 0 .. MaxTries BY <2>2, <2>3
  <2>5. QED BY <2>4 DEF least
<1>4. QED BY <1>1, <1>2, <1>3 DEF MetricTypes

\* The tasks of a worker have one of the trades when they are not the last page.
LEMMA TaskTrade ==
  ASSUME MetricTypes, NEW p \in Procs, TaskInv(p), proc[p].task # NoTask,
         proc[p].task.at # "finish"
  PROVE  proc[p].task.trade \in Trades
BY DEF MetricTypes, TaskInv, PageRows

\* The worker's record after a step that changes its task.
LEMMA WorkerTyped ==
  ASSUME MetricTypes, NEW p \in Procs
  PROVE  /\ proc[p] \in Workers
         /\ \A at \in {"none", "finish", "ack"} \cup ReplayAt \cup DeliverAt :
              [proc EXCEPT ![p].task.at = at] \in [Procs -> Workers]
         /\ \A task \in Tasks : [proc EXCEPT ![p].task = task] \in [Procs -> Workers]
         /\ [proc EXCEPT ![p] = ProcDown] \in [Procs -> Workers]
<1>1. proc[p] \in Workers /\ proc[p].task \in Tasks BY DEF MetricTypes, Workers
<1>2. ASSUME NEW at \in {"none", "finish", "ack"} \cup ReplayAt \cup DeliverAt
      PROVE  [proc EXCEPT ![p].task.at = at] \in [Procs -> Workers]
  <2>1. [proc[p].task EXCEPT !.at = at] \in Tasks BY <1>1 DEF Tasks
  <2>2. [proc[p] EXCEPT !.task.at = at] \in Workers
    BY <1>1, <2>1 DEF Workers
  <2>3. QED BY <2>2 DEF MetricTypes
<1>3. ASSUME NEW task \in Tasks PROVE [proc EXCEPT ![p].task = task] \in [Procs -> Workers]
  <2>1. [proc[p] EXCEPT !.task = task] \in Workers BY <1>1 DEF Workers
  <2>2. QED BY <2>1 DEF MetricTypes
<1>4. QED BY <1>1, <1>2, <1>3, NothingTyped DEF MetricTypes

\* Steps of the clock, of the trade worker and of the lease.
LEMMA OutsideTyped ==
  ASSUME MetricInv,
         Tick \/ ExpireBoot \/ \E t \in Trades : IntakeStep(t)
  PROVE  MetricTypes'
<1>0. MetricTypes BY DEF MetricInv
<1>1. CASE Tick BY <1>0, <1>1, MetricAssumption DEF Tick, MetricTypes
<1>2. CASE ExpireBoot BY <1>0, <1>2 DEF ExpireBoot, MetricTypes, Boots
<1>3. CASE \E t \in Trades : IntakeStep(t)
  BY <1>0, <1>3 DEF MetricTypes, IntakeStep, StoreTrade, PublishTrade, RetryDecoded
<1>4. QED BY <1>1, <1>2, <1>3

\* Steps of the replay.
LEMMA BootTyped ==
  ASSUME MetricInv, NEW p \in Procs, BootStep(p)
  PROVE  MetricTypes'
<1>0. MetricTypes /\ TaskInv(p) BY DEF MetricInv
<1>r. PICK r \in Workers : r = proc[p] BY <1>0, WorkerTyped
<1>1. CASE StartProc(p)
  <2>1. [r EXCEPT !.phase = "boot"] \in Workers BY DEF Workers
  <2>2. QED BY <1>0, <1>1, <1>r, <2>1 DEF StartProc, MetricTypes
<1>2. CASE ClaimBoot(p)
  <2>1. /\ [r EXCEPT !.phase = "live"] \in Workers
        /\ [r EXCEPT !.lease = TRUE, !.cursor = boot.cursor] \in Workers
        /\ [boot EXCEPT !.status = "running", !.holder = p, !.held = TRUE] \in Boots
    BY <1>0 DEF Workers, MetricTypes, Boots
  <2>2. boot' \in Boots /\ proc' \in [Procs -> Workers]
    <3>1. CASE /\ proc' = [proc EXCEPT ![p].phase = "live"] /\ UNCHANGED boot
      BY <1>0, <1>r, <2>1, <3>1 DEF MetricTypes
    <3>2. CASE /\ boot' = [boot EXCEPT !.status = "running", !.holder = p, !.held = TRUE]
               /\ proc' = [proc EXCEPT ![p].lease = TRUE, ![p].cursor = boot.cursor]
      <4>1. proc' = [proc EXCEPT ![p] = [r EXCEPT !.lease = TRUE, !.cursor = boot.cursor]]
        BY <1>0, <1>r, <3>2 DEF MetricTypes
      <4>2. QED BY <1>0, <2>1, <3>2, <4>1 DEF MetricTypes
    <3>3. QED BY <1>2, <3>1, <3>2 DEF ClaimBoot
  <2>3. QED BY <1>0, <1>2, <2>2 DEF ClaimBoot, MetricTypes
<1>3. CASE ReadPage(p)
  <2>1. PICK rows \in SUBSET Trades : rows = PageRows(proc[p].cursor)
    BY <1>0 DEF PageRows, MetricTypes
  <2>2. rows # {} => FirstRow(rows) \in Trades BY FirstRowThere
  <2>3. (IF rows = {} THEN [kind |-> "replay", trade |-> NoTrade, at |-> "finish"]
         ELSE [kind |-> "replay", trade |-> FirstRow(rows), at |-> "commit"]) \in Tasks
    BY <2>2 DEF Tasks, ReplayAt
  <2>4. proc' \in [Procs -> Workers] BY <1>0, <1>3, <2>1, <2>3, WorkerTyped DEF ReadPage
  <2>5. QED BY <1>0, <1>3, <2>4 DEF ReadPage, MetricTypes
<1>4. CASE ReplayRow(p)
  <2>1. r.task.trade \in Trades /\ r.task # NoTask
    BY <1>0, <1>4, <1>r, TaskTrade DEF ReplayRow, NoTask
  <2>2. proc' \in [Procs -> Workers]
    BY <1>0, <1>4, WorkerTyped DEF ReplayRow, ReplayAt
  <2>3. Cutoff \in 0 .. LastTime /\ (boot.holder = p) \in BOOLEAN BY MetricAssumption
  <2>4. rollup' \in Rollups /\ metricEvents' \in [Trades -> MetricEvents]
    BY <1>0, <1>4, <1>r, <2>1, <2>3, CommitTyped DEF ReplayRow, Duplicate, MetricTypes
  <2>5. QED BY <1>0, <1>4, <2>2, <2>4 DEF ReplayRow, MetricTypes
<1>5. CASE MarkRow(p)
  <2>1. r.task.trade \in Trades BY <1>0, <1>5, <1>r, TaskTrade DEF MarkRow, NoTask
  <2>2. metricEvents' \in [Trades -> MetricEvents]
    BY <1>0, <1>5, <1>r, <2>1, MarkTyped DEF MarkRow
  <2>3. proc' \in [Procs -> Workers]
    BY <1>0, <1>5, WorkerTyped DEF MarkRow, ReplayAt
  <2>4. QED BY <1>0, <1>5, <2>2, <2>3 DEF MarkRow, MetricTypes
<1>6. CASE CheckpointRow(p)
  <2>1. r.task.trade \in Trades BY <1>0, <1>6, <1>r, TaskTrade DEF CheckpointRow, NoTask
  <2>2. Position(r.task.trade) \in Nat \X Nat BY <2>1, MetricAssumption DEF Position
  <2>3. /\ [r EXCEPT !.task = NoTask, !.cursor = Position(r.task.trade)] \in Workers
        /\ [boot EXCEPT !.cursor = Position(r.task.trade), !.held = TRUE] \in Boots
    BY <1>0, <2>2, NothingTyped DEF Workers, Boots, MetricTypes
  <2>4. boot' \in Boots /\ proc' \in [Procs -> Workers]
    <3>1. CASE /\ boot' = [boot EXCEPT !.cursor = Position(r.task.trade), !.held = TRUE]
               /\ proc' = [proc EXCEPT ![p].task = NoTask, ![p].cursor = Position(r.task.trade)]
      <4>1. proc' = [proc EXCEPT ![p] =
               [r EXCEPT !.task = NoTask, !.cursor = Position(r.task.trade)]]
        BY <1>0, <1>r, <3>1 DEF MetricTypes
      <4>2. QED BY <1>0, <2>3, <3>1, <4>1 DEF MetricTypes
    <3>2. CASE proc' = [proc EXCEPT ![p] = ProcDown] /\ UNCHANGED boot
      BY <1>0, <3>2, WorkerTyped DEF MetricTypes
    <3>3. QED BY <1>6, <1>r, <3>1, <3>2 DEF CheckpointRow
  <2>5. QED BY <1>0, <1>6, <2>4 DEF CheckpointRow, MetricTypes
<1>7. CASE FinishBoot(p)
  <2>1. /\ [r EXCEPT !.lease = FALSE, !.task = NoTask] \in Workers
        /\ [boot EXCEPT !.status = "complete", !.held = FALSE] \in Boots
    BY <1>0, NothingTyped DEF Workers, Boots, MetricTypes
  <2>2. boot' \in Boots /\ proc' \in [Procs -> Workers]
    <3>1. CASE /\ boot' = [boot EXCEPT !.status = "complete", !.held = FALSE]
               /\ proc' = [proc EXCEPT ![p].lease = FALSE, ![p].task = NoTask]
      <4>1. proc' = [proc EXCEPT ![p] = [r EXCEPT !.lease = FALSE, !.task = NoTask]]
        BY <1>0, <1>r, <3>1 DEF MetricTypes
      <4>2. QED BY <1>0, <2>1, <3>1, <4>1 DEF MetricTypes
    <3>2. CASE proc' = [proc EXCEPT ![p] = ProcDown] /\ UNCHANGED boot
      BY <1>0, <3>2, WorkerTyped DEF MetricTypes
    <3>3. QED BY <1>7, <1>r, <3>1, <3>2 DEF FinishBoot
  <2>3. QED BY <1>0, <1>7, <2>2 DEF FinishBoot, MetricTypes
<1>8. QED BY <1>1, <1>2, <1>3, <1>4, <1>5, <1>6, <1>7 DEF BootStep

\* Steps of a delivery, and what may happen to a worker.
LEMMA DeliverTyped ==
  ASSUME MetricInv, NEW p \in Procs, DeliverStep(p) \/ Mishap(p)
  PROVE  MetricTypes'
<1>0. MetricTypes /\ TaskInv(p) BY DEF MetricInv
<1>r. PICK r \in Workers : r = proc[p] BY <1>0, WorkerTyped
<1>t. r.task \in Tasks /\ (r.task # NoTask /\ r.task.at # "finish" => r.task.trade \in Trades)
  BY <1>0, <1>r, TaskTrade DEF Workers
<1>1. CASE PersistState(p)
  <2>1. r.task.trade \in Trades BY <1>1, <1>r, <1>t DEF PersistState, NoTask
  <2>2. proc' \in [Procs -> Workers] BY <1>0, <1>1, WorkerTyped DEF PersistState, DeliverAt
  <2>3. metricEvents[r.task.trade].last \in Trades
    BY <1>1, <1>r, <2>1 DEF MetricInv, EventInv, PersistState
  <2>4. token' \in Tokens
    BY <1>0, <1>1, <1>r, <2>3, MetricAssumption DEF PersistState, MetricTypes, Tokens
  <2>5. QED BY <1>0, <1>1, <2>2, <2>4 DEF PersistState, MetricTypes
<1>2. CASE PublishState(p)
  <2>1. r.task.trade \in Trades BY <1>2, <1>r, <1>t DEF PublishState, NoTask
  <2>2. proc' \in [Procs -> Workers] BY <1>0, <1>2, WorkerTyped DEF PublishState, DeliverAt
  <2>3. QED BY <1>0, <1>2, <1>r, <2>1, <2>2 DEF PublishState, MetricTypes
<1>3. CASE PublishTick(p)
  <2>1. r.task.trade \in Trades BY <1>3, <1>r, <1>t DEF PublishTick, NoTask
  <2>2. proc' \in [Procs -> Workers] BY <1>0, <1>3, WorkerTyped DEF PublishTick, DeliverAt
  <2>3. QED BY <1>0, <1>3, <1>r, <2>1, <2>2 DEF PublishTick, MetricTypes
<1>4. CASE MarkDelivered(p)
  <2>1. r.task.trade \in Trades BY <1>4, <1>r, <1>t DEF MarkDelivered, NoTask
  <2>2. metricEvents' \in [Trades -> MetricEvents]
    BY <1>0, <1>4, <1>r, <2>1, MarkTyped DEF MarkDelivered
  <2>3. [r.task EXCEPT !.at = "ack"] \in Tasks BY <1>t DEF Tasks
  <2>4. proc' \in [Procs -> Workers]
    BY <1>0, <1>4, <1>r, <2>3, NothingTyped, WorkerTyped DEF MarkDelivered
  <2>5. QED BY <1>0, <1>4, <2>2, <2>4 DEF MarkDelivered, MetricTypes
<1>5. CASE AckEntry(p)
  <2>1. r.task.trade \in Trades BY <1>5, <1>r, <1>t DEF AckEntry, NoTask
  <2>2. proc' \in [Procs -> Workers]
    BY <1>0, <1>5, NothingTyped, WorkerTyped DEF AckEntry
  <2>3. tries' \in [Trades -> 0 .. MaxTries] /\ unacked' \subseteq Trades
    <3>1. 0 \in 0 .. MaxTries BY MetricAssumption
    <3>2. unacked' = unacked \ {r.task.trade} /\ tries' = [tries EXCEPT ![r.task.trade] = 0]
      BY <1>5, <1>r DEF AckEntry
    <3>3. QED BY <1>0, <2>1, <3>1, <3>2 DEF MetricTypes
  <2>4. QED BY <1>0, <1>5, <2>2, <2>3 DEF AckEntry, MetricTypes
<1>6. CASE CrashProc(p)
  <2>1. proc' \in [Procs -> Workers] BY <1>0, <1>6, WorkerTyped DEF CrashProc
  <2>2. QED BY <1>0, <1>6, <2>1 DEF CrashProc, MetricTypes
<1>7. CASE FailDelivery(p)
  <2>1. proc' \in [Procs -> Workers]
    BY <1>0, <1>7, NothingTyped, WorkerTyped DEF FailDelivery
  <2>2. tries' \in [Trades -> 0 .. MaxTries] /\ unacked' \subseteq Trades /\ buried' \subseteq Trades
    <3>1. CASE r.task.kind = "live" /\ RetryEntry(r.task.trade)
      <4>1. r.task.trade \in Trades BY <1>0, <1>r, <3>1 DEF TaskInv, NoTask
      <4>2. QED BY <1>0, <3>1, <4>1, RetryTyped
    <3>2. CASE UNCHANGED <<tries, unacked, buried>> BY <1>0, <3>2 DEF MetricTypes
    <3>3. QED BY <1>7, <1>r, <3>1, <3>2 DEF FailDelivery
  <2>3. QED BY <1>0, <1>7, <2>1, <2>2 DEF FailDelivery, MetricTypes
<1>8. QED BY <1>1, <1>2, <1>3, <1>4, <1>5, <1>6, <1>7 DEF DeliverStep, Mishap

\* Steps that begin with an entry or an event.
LEMMA EntryTyped ==
  ASSUME MetricInv, NEW p \in Procs, NEW t \in Trades,
         ProjectEntry(p, t) \/ RefuseEntry(p, t) \/ Redrive(p, t) \/ PruneEvent(p, t)
  PROVE  MetricTypes'
<1>0. MetricTypes BY DEF MetricInv
<1>1. CASE ProjectEntry(p, t)
  <2>1. [kind |-> "live", trade |-> t,
         at |-> IF metricEvents'[t].published THEN "ack" ELSE "persist"] \in Tasks
    BY DEF Tasks, DeliverAt
  <2>2. proc' \in [Procs -> Workers] BY <1>0, <1>1, <2>1, WorkerTyped DEF ProjectEntry
  <2>3. clock \in 0 .. LastTime BY <1>0, MetricAssumption DEF MetricTypes
  <2>4. rollup' \in Rollups /\ metricEvents' \in [Trades -> MetricEvents]
    BY <1>0, <1>1, <2>3, CommitTyped DEF ProjectEntry, Duplicate, MetricTypes
  <2>5. QED BY <1>0, <1>1, <2>2, <2>4 DEF ProjectEntry, MetricTypes
<1>2. CASE RefuseEntry(p, t)
  <2>1. tries' \in [Trades -> 0 .. MaxTries] /\ unacked' \subseteq Trades /\ buried' \subseteq Trades
    BY <1>0, <1>2, RetryTyped DEF RefuseEntry
  <2>2. QED BY <1>0, <1>2, <2>1 DEF RefuseEntry, MetricTypes
<1>3. CASE Redrive(p, t)
  <2>1. [kind |-> "redrive", trade |-> t, at |-> "persist"] \in Tasks BY DEF Tasks, DeliverAt
  <2>2. proc' \in [Procs -> Workers] BY <1>0, <1>3, <2>1, WorkerTyped DEF Redrive
  <2>3. QED BY <1>0, <1>3, <2>2 DEF Redrive, MetricTypes
<1>4. CASE PruneEvent(p, t)
  <2>1. metricEvents' \in [Trades -> MetricEvents]
    BY <1>0, <1>4, NothingTyped DEF PruneEvent, MetricTypes
  <2>2. QED BY <1>0, <1>4, <2>1 DEF PruneEvent, MetricTypes
<1>5. QED BY <1>1, <1>2, <1>3, <1>4

(***************************************************************************)
(* What a step leaves alone keeps its part of the invariant.               *)
(***************************************************************************)
\* What no step takes back.
Onward ==
  /\ clock <= clock' /\ trades \subseteq trades' /\ states \subseteq states'
  /\ ticks \subseteq ticks' /\ token.at <= token'.at
  /\ Settled => Settled'
  /\ boot.status = "complete" => boot'.status = "complete"

\* An event that is left as it is, or marked.
EventStays(t) ==
  /\ Known(t)' <=> Known(t)
  /\ metricEvents'[t].last = metricEvents[t].last
  /\ metricEvents'[t].input = metricEvents[t].input
  /\ metricEvents'[t].gated = metricEvents[t].gated
  /\ metricEvents[t].published => metricEvents'[t].published

\* The lease and the cursor are not moved.
LeaseStays ==
  boot'.status = boot.status /\ boot'.holder = boot.holder /\ boot'.cursor = boot.cursor

\* Moments and windows are numbers.
LEMMA TimesAreInts ==
  /\ \A t \in Trades : At[t] \in Int /\ At[t] >= 0
  /\ Day \in Int /\ Ahead \in Int /\ Retention \in Int
  /\ MetricTypes => clock \in Int /\ token.at \in Int /\ token.at >= 0
  /\ MetricTypes => \A t \in Trades : metricEvents[t].at \in Int
BY MetricAssumption DEF MetricTypes, Tokens, MetricEvents

\* The trade an event was counted with has a moment.
LEMMA LastIsTrade ==
  ASSUME MetricInv, NEW t \in Trades, Known(t)
  PROVE  metricEvents[t].last \in Trades /\ At[metricEvents[t].last] \in Int
<1>1. EventInv(t) BY DEF MetricInv
<1>2. metricEvents[t].last \in Trades BY <1>1 DEF EventInv
<1>3. QED BY <1>2, TimesAreInts

\* The books of a trade whose event stays.
LEMMA BookFrame ==
  ASSUME MetricInv, MetricTypes', Onward, NEW t \in Trades, EventStays(t), UNCHANGED rollup
  PROVE  BookInv(t)'
<1>1. clock \in Int /\ clock' \in Int /\ Day \in Int /\ At[t] \in Int
  BY MetricAssumption DEF MetricInv, MetricTypes
<1>2. Settled /\ At[t] <= clock - Day => Settled' /\ At[t] <= clock' - Day
  BY <1>1 DEF Onward
<1>3. BookInv(t) BY DEF MetricInv
<1>4. QED BY <1>2, <1>3 DEF BookInv, EventStays, Later, Ended, BucketEnd

\* An event that stays, and gets no tick, is as it was.
LEMMA EventFrame ==
  ASSUME MetricInv, MetricTypes', Onward, NEW t \in Trades, metricEvents'[t] = metricEvents[t],
         t \in ticks' => t \in ticks \/ (boot.status = "complete" /\ ~metricEvents[t].gated)
  PROVE  EventInv(t)'
<1>1. clock \in Int /\ clock' \in Int /\ token.at \in Int /\ token'.at \in Int
  BY MetricAssumption DEF MetricInv, MetricTypes, Tokens
<1>2. metricEvents[t].at \in Int BY TimesAreInts DEF MetricInv
<1>3. Known(t) => At[metricEvents[t].last] \in Int /\ metricEvents[t].at \in Int
  BY <1>2, LastIsTrade
<1>4. EventInv(t) BY DEF MetricInv
<1>5. QED BY <1>1, <1>3, <1>4 DEF EventInv, Onward, Known

\* What is owed stays ahead of a cursor that does not move.
LEMMA OwedFrame ==
  ASSUME MetricInv, Onward, LeaseStays, NEW t \in Trades, Owed(t)' => Owed(t)
  PROVE  OwedInv(t)'
<1>1. OwedInv(t) BY DEF MetricInv
<1>2. QED BY <1>1 DEF OwedInv, LeaseStays, Onward, PageRows

\* The task of a worker that rests.
LEMMA TaskFrame ==
  ASSUME MetricInv, MetricTypes', Onward, NEW q \in Procs, proc'[q] = proc[q],
         proc[q].task.trade \in Trades => EventStays(proc[q].task.trade)
  PROVE  TaskInv(q)'
<1>1. clock \in Int /\ clock' \in Int /\ token.at \in Int /\ token'.at \in Int /\ Day \in Int
  BY MetricAssumption DEF MetricInv, MetricTypes, Tokens
<1>2. PICK task \in Tasks : task = proc[q].task BY DEF MetricInv, MetricTypes, Workers
<1>3. proc'[q].task = task /\ proc'[q].lease = proc[q].lease /\ proc'[q].phase = proc[q].phase
      /\ proc'[q].cursor = proc[q].cursor
  BY <1>2
<1>4. PageRows(proc[q].cursor) \subseteq Trades
      /\ PageRows(proc[q].cursor) \subseteq PageRows(proc[q].cursor)'
  BY <1>3 DEF PageRows, Onward, MetricInv, MetricTypes
<1>5. TaskInv(q) BY DEF MetricInv
<1>6. CASE task = NoTask BY <1>3, <1>6 DEF TaskInv
<1>7. CASE task.kind = "replay" /\ task # NoTask
  <2>1. /\ proc[q].lease
        /\ task.at = "finish" \/ (task.at \in ReplayAt /\ task.trade \in PageRows(proc[q].cursor))
        /\ task.at \in {"mark", "checkpoint"} =>
             Known(task.trade) /\ metricEvents[task.trade].input = "row"
        /\ task.at = "checkpoint" => metricEvents[task.trade].published
    BY <1>2, <1>5, <1>7 DEF TaskInv
  <2>2. task.at \in {"mark", "checkpoint"} => EventStays(task.trade)
    BY <1>2, <1>4, <2>1
  <2>3. QED BY <1>3, <1>4, <1>7, <2>1, <2>2 DEF TaskInv, EventStays
<1>8. CASE task.kind \in {"live", "redrive"}
  <2>1. /\ proc[q].phase = "live"
        /\ task.trade \in Trades /\ ~metricEvents[task.trade].gated
        /\ task.at \in DeliverAt \/ (task.kind = "live" /\ task.at = "ack")
        /\ Known(task.trade) \/ (Settled /\ At[task.trade] <= clock - Day)
        /\ task.at \in {"state", "tick", "mark"} /\ Known(task.trade) =>
             token.at >= At[metricEvents[task.trade].last]
        /\ task.at \in {"tick", "mark"} => task.trade \in states
        /\ task.at = "mark" => task.trade \in ticks
    BY <1>2, <1>5, <1>8 DEF TaskInv, NoTask
  <2>2. EventStays(task.trade) BY <1>2, <2>1
  <2>3. At[task.trade] \in Int BY <2>1, TimesAreInts
  <2>4. Known(task.trade) => At[metricEvents[task.trade].last] \in Int
    BY <2>1, LastIsTrade
  <2>5. Known(task.trade)' \/ (Settled' /\ At[task.trade] <= clock' - Day)
    BY <1>1, <2>1, <2>2, <2>3 DEF EventStays, Onward
  <2>6. task.at \in {"state", "tick", "mark"} /\ Known(task.trade)' =>
          token'.at >= At[metricEvents'[task.trade].last]
    BY <1>1, <2>1, <2>2, <2>4 DEF EventStays, Onward
  <2>7. /\ ~metricEvents'[task.trade].gated
        /\ task.at \in {"tick", "mark"} => task.trade \in states'
        /\ task.at = "mark" => task.trade \in ticks'
    BY <2>1, <2>2 DEF EventStays, Onward
  <2>8. QED BY <1>3, <1>8, <2>1, <2>5, <2>6, <2>7 DEF TaskInv
<1>9. QED BY <1>2, <1>5, <1>6, <1>7, <1>8 DEF TaskInv

\* A lease, while its worker rests and no other step adds to what is owed.
LEMMA LeaseFrame ==
  ASSUME MetricInv, LeaseStays, NEW q \in Procs, proc'[q] = proc[q],
         \A u \in Trades : Owed(u)' => Owed(u) \/ boot.holder # q
  PROVE  LeaseInv(q)'
<1>1. LeaseInv(q) BY DEF MetricInv
<1>2. QED BY <1>1 DEF LeaseInv, LeaseStays, Position, After

(***************************************************************************)
(* The kinds of steps.                                                     *)
(***************************************************************************)
\* Time passes, entries come and are buried, a lease runs out.
LEMMA QuietStep ==
  ASSUME MetricInv, MetricTypes',
         UNCHANGED <<rollup, metricEvents, token, states, ticks, proc>>,
         LeaseStays, clock <= clock', trades \subseteq trades'
  PROVE  MetricInv'
<1>0. token.at <= token'.at BY TimesAreInts DEF MetricInv
<1>1. Onward BY <1>0 DEF Onward, LeaseStays, Settled
<1>2. \A t \in Trades : EventStays(t) /\ (Owed(t)' => Owed(t))
  BY DEF EventStays, Owed, Known
<1>3. \A t \in Trades : BookInv(t)' BY <1>1, <1>2, BookFrame
<1>4. \A t \in Trades : EventInv(t)' BY <1>1, EventFrame
<1>5. \A t \in Trades : OwedInv(t)' BY <1>1, <1>2, OwedFrame
<1>6. \A p \in Procs : TaskInv(p)' BY <1>1, <1>2, TaskFrame
<1>7. \A p \in Procs : LeaseInv(p)' BY <1>2, LeaseFrame
<1>8. QED BY <1>3, <1>4, <1>5, <1>6, <1>7 DEF MetricInv

\* A worker goes on by itself and may deliver something.
LEMMA WorkerGoesOn ==
  ASSUME MetricInv, MetricTypes', NEW p \in Procs,
         UNCHANGED <<clock, trades, rollup, metricEvents, boot>>,
         \A q \in Procs \ {p} : proc'[q] = proc[q],
         proc'[p].lease => proc[p].lease,
         states \subseteq states', ticks \subseteq ticks', token.at <= token'.at,
         token'.last = NoTrade => token'.at = 0,
         \A t \in ticks' : t \in ticks \/ (boot.status = "complete" /\ ~metricEvents[t].gated),
         TaskInv(p)', LeaseInv(p)'
  PROVE  MetricInv'
<1>0. clock <= clock' BY TimesAreInts DEF MetricInv
<1>1. Onward BY <1>0 DEF Onward, Settled
<1>2. \A t \in Trades : EventStays(t) /\ (Owed(t)' => Owed(t))
  BY DEF EventStays, Owed, Known
<1>3. \A t \in Trades : BookInv(t)' BY <1>1, <1>2, BookFrame
<1>4. \A t \in Trades : EventInv(t)' BY <1>1, EventFrame
<1>5. LeaseStays BY DEF LeaseStays
<1>6. \A t \in Trades : OwedInv(t)' BY <1>1, <1>2, <1>5, OwedFrame
<1>7. \A q \in Procs : TaskInv(q)' BY <1>1, <1>2, TaskFrame
<1>8. \A q \in Procs : LeaseInv(q)' BY <1>2, <1>5, LeaseFrame
<1>9. QED BY <1>3, <1>4, <1>6, <1>7, <1>8 DEF MetricInv

\* A worker claims the lease, moves the cursor or ends the replay.
LEMMA HolderMoves ==
  ASSUME MetricInv, MetricTypes', NEW p \in Procs,
         UNCHANGED <<clock, trades, rollup, metricEvents, token, states, ticks>>,
         \A q \in Procs \ {p} : proc'[q] = proc[q],
         boot.status # "complete", boot'.status # "pending", boot'.holder = p,
         \A t \in Trades : OwedInv(t)',
         TaskInv(p)', LeaseInv(p)'
  PROVE  MetricInv'
<1>0. clock <= clock' /\ token.at <= token'.at BY TimesAreInts DEF MetricInv
<1>1. Onward BY <1>0 DEF Onward, Settled
<1>2. \A t \in Trades : EventStays(t) BY DEF EventStays, Known
<1>3. \A t \in Trades : BookInv(t)' BY <1>1, <1>2, BookFrame
<1>4. \A t \in Trades : EventInv(t)' BY <1>1, EventFrame
<1>5. \A q \in Procs : TaskInv(q)' BY <1>1, <1>2, TaskFrame
<1>6. ASSUME NEW q \in Procs \ {p} PROVE LeaseInv(q)'
  <2>1. LeaseInv(q) BY DEF MetricInv
  <2>2. QED BY <2>1, <1>6 DEF LeaseInv
<1>7. QED BY <1>3, <1>4, <1>5, <1>6 DEF MetricInv

\* A worker marks an event.
LEMMA WorkerMarks ==
  ASSUME MetricInv, MetricTypes', NEW p \in Procs, NEW t \in Trades, Known(t), MarkPublished(t),
         metricEvents[t].input = "stream" =>
           t \in states /\ t \in ticks /\ token.at >= At[metricEvents[t].last],
         UNCHANGED <<clock, trades, rollup, token, states, ticks, boot>>,
         \A q \in Procs \ {p} : proc'[q] = proc[q],
         proc'[p].lease => proc[p].lease,
         TaskInv(p)', LeaseInv(p)'
  PROVE  MetricInv'
<1>0. clock <= clock' /\ token.at <= token'.at BY TimesAreInts DEF MetricInv
<1>1. Onward BY <1>0 DEF Onward, Settled
<1>2. /\ metricEvents' = [metricEvents EXCEPT ![t].published = TRUE]
      /\ metricEvents \in [Trades -> MetricEvents]
  BY DEF MarkPublished, MetricInv, MetricTypes
<1>3. \A u \in Trades \ {t} : metricEvents'[u] = metricEvents[u] BY <1>2
<1>4. PICK e \in MetricEvents : e = metricEvents[t] BY <1>2
<1>5. metricEvents'[t] = [e EXCEPT !.published = TRUE] BY <1>2, <1>4
<1>6. Known(t)' BY <1>5 DEF Known, NoEvent, MetricEvents
<1>7. \A u \in Trades : EventStays(u) /\ (Owed(u)' => Owed(u))
  BY <1>3, <1>4, <1>5, <1>6 DEF EventStays, Owed, Known, MetricEvents
<1>8. \A u \in Trades : BookInv(u)' BY <1>1, <1>7, BookFrame
<1>9. \A u \in Trades \ {t} : EventInv(u)' BY <1>1, <1>3, EventFrame
<1>10. EventInv(t)'
  <2>1. EventInv(t) BY DEF MetricInv
  <2>2. /\ metricEvents'[t].last = e.last /\ metricEvents'[t].input = e.input
        /\ metricEvents'[t].at = e.at /\ metricEvents'[t].gated = e.gated
    BY <1>5 DEF MetricEvents
  <2>3. QED BY <1>4, <2>1, <2>2 DEF EventInv
<1>11. LeaseStays BY DEF LeaseStays
<1>12. \A u \in Trades : OwedInv(u)' BY <1>1, <1>7, <1>11, OwedFrame
<1>13. \A q \in Procs : TaskInv(q)' BY <1>1, <1>7, TaskFrame
<1>14. \A q \in Procs : LeaseInv(q)' BY <1>7, <1>11, LeaseFrame
<1>15. QED BY <1>8, <1>9, <1>10, <1>12, <1>13, <1>14 DEF MetricInv

\* The rollup after a commit.
LEMMA CommitBook ==
  ASSUME MetricInv, NEW t \in Trades, NEW input, NEW now \in 0 .. LastTime, NEW byHolder,
         Commit(t, input, now, byHolder)
  PROVE  /\ rollup'.last = IF Later(t, rollup.last) THEN t ELSE rollup.last
         /\ rollup.asOf \in Int /\ rollup'.asOf \in Int
         /\ rollup'.asOf >= rollup.asOf /\ rollup'.asOf >= now
         /\ \A w \in DOMAIN Windows : \A u \in Trades :
              rollup'.book[w][u] = IF Ended(w, u, now) THEN 0
                                   ELSE rollup.book[w][u] + IF u = t THEN 1 ELSE 0
<1>0. rollup \in Rollups BY DEF MetricInv, MetricTypes
<1>1. rollup.asOf \in Int /\ now \in Int BY <1>0, MetricAssumption DEF Rollups
<1>2. PICK later \in Int : later = Max({rollup.asOf, now}) /\ later >= rollup.asOf /\ later >= now
  <2>1. PICK a \in Int : a = rollup.asOf BY <1>1
  <2>2. PICK b \in Int : b = now BY <1>1
  <2>3. Max({a, b}) \in {a, b} /\ Max({a, b}) >= a /\ Max({a, b}) >= b
    BY ONLY <2>1, <2>2, LargerOfTwo
  <2>4. QED BY <2>1, <2>2, <2>3
<1>3. PICK book : book = Added(rollup.book, t, now) OBVIOUS
<1>4. rollup'.last = (IF Later(t, rollup.last) THEN t ELSE rollup.last)
      /\ rollup'.asOf = later /\ rollup'.book = book
  BY <1>2, <1>3 DEF Commit
<1>5. ASSUME NEW w \in DOMAIN Windows, NEW u \in Trades
      PROVE  book[w][u] = IF Ended(w, u, now) THEN 0
                          ELSE rollup.book[w][u] + IF u = t THEN 1 ELSE 0
  <2>1. rollup.book \in [DOMAIN Windows -> [Trades -> Nat]] BY <1>0 DEF Rollups
  <2>2. PICK b \in [Trades -> Nat] : b = rollup.book[w] BY <2>1
  <2>3. [b EXCEPT ![t] = @ + 1][u] = b[u] + IF u = t THEN 1 ELSE 0 BY <2>2
  <2>4. book[w][u] = IF Ended(w, u, now) THEN 0 ELSE [b EXCEPT ![t] = @ + 1][u]
    BY <1>3, <2>1, <2>2 DEF Added, Pruned
  <2>5. QED BY <2>2, <2>3, <2>4
<1>6. QED BY <1>1, <1>2, <1>4, <1>5

\* A worker counts a trade.
LEMMA WorkerCommits ==
  ASSUME MetricInv, MetricTypes', NEW p \in Procs, NEW t \in Trades,
         NEW input \in {"row", "stream"}, NEW now \in 0 .. LastTime, now <= clock,
         NEW byHolder \in BOOLEAN, Commit(t, input, now, byHolder),
         ~(Settled /\ At[t] <= clock - Day),
         byHolder => /\ input = "row" /\ boot.holder = p
                     /\ boot.status # "complete" /\ t \in PageRows(boot.cursor),
         UNCHANGED <<clock, trades, token, states, ticks, boot>>,
         \A q \in Procs \ {p} : proc'[q] = proc[q],
         proc'[p].lease => proc[p].lease,
         TaskInv(p)', LeaseInv(p)'
  PROVE  MetricInv'
<1>0. clock <= clock' /\ token.at <= token'.at BY TimesAreInts DEF MetricInv
<1>1. Onward BY <1>0 DEF Onward, Settled
<1>2. PICK last : last = IF Later(t, rollup.last) THEN t ELSE rollup.last OBVIOUS
<1>3. /\ ~Known(t) /\ InHorizon(t, now)
      /\ metricEvents' = [metricEvents EXCEPT ![t] =
           [rev |-> rollup.rev + 1, last |-> last, input |-> input, published |-> FALSE,
            at |-> clock, gated |-> byHolder]]
  BY <1>2 DEF Commit
<1>4. \A u \in Trades \ {t} : metricEvents'[u] = metricEvents[u]
  BY <1>3 DEF MetricInv, MetricTypes
<1>5. metricEvents'[t] =
        [rev |-> rollup.rev + 1, last |-> last, input |-> input, published |-> FALSE,
         at |-> clock, gated |-> byHolder]
  BY <1>3 DEF MetricInv, MetricTypes
<1>6. PICK e : e = metricEvents'[t] /\ e.last = last /\ e.input = input /\ ~e.published
               /\ e.at = clock /\ e.gated = byHolder
  BY <1>5
<1>7. Known(t)' BY <1>6 DEF Known, NoEvent
<1>8. \A u \in Trades \ {t} : EventStays(u) /\ (Owed(u)' => Owed(u))
  BY <1>4 DEF EventStays, Owed, Known
<1>9. \A u \in Trades \ {t} : Known(u)' <=> Known(u) BY <1>4 DEF Known
<1>10. last \in Trades
  BY <1>2 DEF MetricInv, MetricTypes, Rollups, Later
<1>11. ASSUME NEW u \in Trades PROVE BookInv(u)'
  <2>1. BookInv(u) BY DEF MetricInv
  <2>2. /\ rollup'.last = last
        /\ rollup.asOf \in Int /\ rollup'.asOf \in Int /\ now \in Int
        /\ rollup'.asOf >= rollup.asOf /\ rollup'.asOf >= now
        /\ \A w \in DOMAIN Windows :
             rollup'.book[w][u] = IF Ended(w, u, now) THEN 0
                                  ELSE rollup.book[w][u] + IF u = t THEN 1 ELSE 0
    BY <1>2, CommitBook
  <2>3. \A w \in DOMAIN Windows :
          ~Ended(w, u, rollup'.asOf) => ~Ended(w, u, rollup.asOf) /\ ~Ended(w, u, now)
    BY <2>2, EndedStays
  <2>4. CASE u = t
    <3>1. u = rollup'.last \/ Later(rollup'.last, u)
      <4>1. CASE Later(t, rollup.last) BY <1>2, <2>2, <2>4, <4>1
      <4>2. CASE ~Later(t, rollup.last)
        BY <1>2, <1>10, <2>2, <2>4, <4>2, LaterTotal
      <4>3. QED BY <4>1, <4>2
    <3>2. \A w \in DOMAIN Windows : rollup.book[w][u] = 0
      BY <1>3, <2>1, <2>4 DEF BookInv
    <3>3. \A w \in DOMAIN Windows : ~Ended(w, u, rollup'.asOf) => rollup'.book[w][u] = 1
      BY <2>2, <2>3, <2>4, <3>2
    <3>4. QED BY <1>7, <1>10, <2>2, <2>4, <3>1, <3>3 DEF BookInv, Later, Ended, BucketEnd
  <2>5. CASE u # t
    <3>1. rollup \in Rollups BY DEF MetricInv, MetricTypes
    <3>2. \A w \in DOMAIN Windows :
            rollup'.book[w][u] = IF Ended(w, u, now) THEN 0 ELSE rollup.book[w][u]
      BY <2>2, <2>5, <3>1 DEF Rollups
    <3>3. Known(u) => u = last \/ Later(last, u)
      BY <1>2, <1>10, <2>1, LaterTotal DEF BookInv
    <3>4. Known(u) =>
            \A w \in DOMAIN Windows : ~Ended(w, u, rollup'.asOf) => rollup'.book[w][u] = 1
      BY <2>1, <2>3, <3>2 DEF BookInv
    <3>5. ~Known(u) /\ ~(Settled' /\ At[u] <= clock' - Day) =>
            \A w \in DOMAIN Windows : rollup'.book[w][u] = 0
      BY <1>1, <2>1, <3>2 DEF BookInv, Onward
    <3>6. QED BY <1>9, <1>10, <2>2, <2>5, <3>3, <3>4, <3>5 DEF BookInv, Later, Ended, BucketEnd
  <2>6. QED BY <2>4, <2>5
<1>12. \A u \in Trades \ {t} : EventInv(u)' BY <1>1, <1>4, EventFrame
<1>13. EventInv(t)'
  <2>1. At[t] <= clock + Ahead
    BY <1>3, TimesAreInts, MetricAssumption DEF InHorizon, MetricInv
  <2>2. t \in ticks => boot.status = "complete" BY DEF MetricInv, EventInv
  <2>3. clock <= clock' /\ clock' = clock BY TimesAreInts DEF MetricInv
  <2>4. QED BY <1>6, <1>10, <2>1, <2>2, <2>3 DEF EventInv
<1>14. LeaseStays BY DEF LeaseStays
<1>15. ASSUME NEW u \in Trades PROVE OwedInv(u)'
  <2>1. CASE u # t BY <1>1, <1>8, <1>14, <2>1, OwedFrame
  <2>2. CASE u = t BY <1>6, <2>2 DEF OwedInv, Owed, PageRows, After, Position
  <2>3. QED BY <2>1, <2>2
<1>16. ASSUME NEW q \in Procs PROVE TaskInv(q)'
  <2>1. CASE q = p BY <2>1
  <2>2. CASE q # p /\ proc[q].task.trade # t
    BY <1>1, <1>8, <2>2, TaskFrame
  <2>3. CASE q # p /\ proc[q].task.trade = t
    <3>1. TaskInv(q) BY DEF MetricInv
    <3>2. t # NoTrade BY MetricAssumption DEF NoTrade
    <3>3. PICK task : task = proc[q].task /\ proc'[q].task = task BY <2>3
    <3>4. /\ task.kind = "replay" /\ proc[q].lease
          /\ task.at = "finish" \/ (task.at = "commit" /\ t \in PageRows(proc[q].cursor))
      BY <1>3, <2>3, <3>1, <3>2, <3>3 DEF TaskInv, NoTask, ReplayAt
    <3>5. t \in PageRows(proc[q].cursor) => t \in PageRows(proc[q].cursor)'
      BY <2>3 DEF PageRows
    <3>6. QED BY <2>3, <3>3, <3>4, <3>5 DEF TaskInv, ReplayAt
  <2>4. QED BY <2>1, <2>2, <2>3
<1>17. ASSUME NEW q \in Procs PROVE LeaseInv(q)'
  <2>1. CASE q = p BY <2>1
  <2>2. CASE q # p
    <3>1. \A u \in Trades : Owed(u)' => Owed(u) \/ boot.holder # q
      BY <1>6, <1>8, <2>2 DEF Owed
    <3>2. QED BY <1>14, <2>2, <3>1, LeaseFrame
  <2>3. QED BY <2>1, <2>2
<1>18. QED BY <1>11, <1>12, <1>13, <1>15, <1>16, <1>17 DEF MetricInv

\* A live worker prunes an event: nobody replays any more, and the trade is out of
\* the horizon for ever.
LEMMA WorkerPrunes ==
  ASSUME MetricInv, MetricTypes', NEW p \in Procs, NEW t \in Trades, PruneEvent(p, t)
  PROVE  MetricInv'
<1>0. /\ metricEvents' = [metricEvents EXCEPT ![t] = NoEvent]
      /\ UNCHANGED <<clock, trades, rollup, token, states, ticks, boot, proc>>
      /\ Known(t) /\ metricEvents[t].at < clock - Retention
      /\ proc[p].phase = "live" /\ \A q \in Procs : ~proc[q].lease
  BY DEF PruneEvent, Free
<1>1. clock <= clock' /\ token.at <= token'.at BY <1>0, TimesAreInts DEF MetricInv
<1>2. Onward BY <1>0, <1>1 DEF Onward, Settled
<1>3. Settled BY <1>0 DEF Settled, MetricInv, LeaseInv
<1>4. At[t] <= clock - Day
  <2>1. At[t] <= metricEvents[t].at + Ahead BY <1>0 DEF MetricInv, EventInv
  <2>2. metricEvents[t].at \in Int /\ clock \in Int BY TimesAreInts DEF MetricInv
  <2>3. QED BY <1>0, <2>1, <2>2, TimesAreInts, MetricAssumption
<1>5. Settled' /\ At[t] <= clock' - Day BY <1>0, <1>2, <1>3, <1>4 DEF Onward
<1>6. /\ metricEvents'[t] = NoEvent
      /\ \A u \in Trades \ {t} : metricEvents'[u] = metricEvents[u]
  BY <1>0 DEF MetricInv, MetricTypes
<1>7. ~Known(t)' BY <1>6 DEF Known
<1>8. \A u \in Trades \ {t} : EventStays(u) BY <1>6 DEF EventStays, Known
<1>9. \A u \in Trades : Owed(u)' => Owed(u) BY <1>6 DEF Owed, NoEvent
<1>10. ASSUME NEW u \in Trades PROVE BookInv(u)'
  <2>1. CASE u = t BY <1>5, <1>7, <2>1 DEF BookInv
  <2>2. CASE u # t BY <1>0, <1>2, <1>8, <2>2, BookFrame
  <2>3. QED BY <2>1, <2>2
<1>11. ASSUME NEW u \in Trades PROVE EventInv(u)'
  <2>1. CASE u = t
    <3>1. t \in ticks => boot.status = "complete" BY DEF MetricInv, EventInv
    <3>2. QED BY <1>0, <1>6, <1>7, <2>1, <3>1 DEF EventInv, NoEvent
  <2>2. CASE u # t BY <1>0, <1>2, <1>6, <2>2, EventFrame
  <2>3. QED BY <2>1, <2>2
<1>12. LeaseStays BY <1>0 DEF LeaseStays
<1>13. \A u \in Trades : OwedInv(u)' BY <1>2, <1>9, <1>12, OwedFrame
<1>14. ASSUME NEW q \in Procs PROVE TaskInv(q)'
  <2>0. proc'[q] = proc[q] BY <1>0
  <2>1. CASE proc[q].task.trade # t BY <1>2, <1>8, <2>0, <2>1, TaskFrame
  <2>2. CASE proc[q].task.trade = t
    <3>1. TaskInv(q) BY DEF MetricInv
    <3>2. t # NoTrade BY MetricAssumption DEF NoTrade
    <3>3. PICK task : task = proc[q].task /\ proc'[q].task = task BY <2>0
    <3>4. /\ task.kind \in {"live", "redrive"} /\ proc[q].phase = "live"
          /\ task.at \in DeliverAt \/ (task.kind = "live" /\ task.at = "ack")
          /\ task.at \in {"tick", "mark"} => t \in states
          /\ task.at = "mark" => t \in ticks
      BY <1>0, <2>2, <3>1, <3>2, <3>3 DEF TaskInv, NoTask
    <3>5. task.trade = t /\ proc'[q].phase = "live" BY <2>0, <2>2, <3>3, <3>4
    <3>6. ~metricEvents'[t].gated BY <1>6 DEF NoEvent
    <3>7. QED BY <1>0, <1>5, <1>7, <3>3, <3>4, <3>5, <3>6 DEF TaskInv
  <2>3. QED BY <2>1, <2>2
<1>15. \A q \in Procs : LeaseInv(q)' BY <1>0, <1>9, <1>12, LeaseFrame
<1>16. QED BY <1>0, <1>10, <1>11, <1>13, <1>14, <1>15 DEF MetricInv

(***************************************************************************)
(* Every step.                                                             *)
(***************************************************************************)
LEMMA OutsideKept ==
  ASSUME MetricInv,
         Tick \/ ExpireBoot \/ \E t \in Trades : IntakeStep(t)
  PROVE  MetricInv'
<1>0. MetricTypes' BY OutsideTyped
<1>c. clock \in Int BY TimesAreInts DEF MetricInv
<1>1. CASE Tick BY <1>0, <1>c, <1>1, QuietStep DEF Tick, LeaseStays
<1>2. CASE ExpireBoot
  <2>1. LeaseStays BY <1>2 DEF ExpireBoot, LeaseStays, MetricInv, MetricTypes, Boots
  <2>2. QED BY <1>0, <1>c, <1>2, <2>1, QuietStep DEF ExpireBoot
<1>3. CASE \E t \in Trades : IntakeStep(t)
  BY <1>0, <1>c, <1>3, QuietStep
     DEF IntakeStep, StoreTrade, PublishTrade, RetryDecoded, LeaseStays
<1>4. QED BY <1>1, <1>2, <1>3

\* The worker is down after a step.
LEMMA DownKept ==
  ASSUME MetricInv, MetricTypes', NEW p \in Procs, proc' = [proc EXCEPT ![p] = ProcDown],
         UNCHANGED <<clock, trades, rollup, metricEvents, token, states, ticks, boot>>
  PROVE  MetricInv'
<1>1. proc'[p] = ProcDown /\ \A q \in Procs \ {p} : proc'[q] = proc[q]
  BY DEF MetricInv, MetricTypes
<1>2. ~proc'[p].lease /\ TaskInv(p)' /\ LeaseInv(p)'
  BY <1>1 DEF ProcDown, TaskInv, LeaseInv
<1>3. token.at <= token'.at /\ (token'.last = NoTrade => token'.at = 0)
  BY TimesAreInts DEF MetricInv
<1>4. QED BY <1>1, <1>2, <1>3, WorkerGoesOn

\* Taking the lease, reading a page and completing the replay.
LEMMA BootKept ==
  ASSUME MetricInv, NEW p \in Procs, BootStep(p)
  PROVE  MetricInv'
<1>0. MetricTypes /\ MetricTypes' /\ TaskInv(p) /\ LeaseInv(p) BY BootTyped DEF MetricInv
<1>r. PICK r \in Workers : r = proc[p] BY <1>0, WorkerTyped
<1>d. proc \in [Procs -> Workers] /\ boot \in Boots /\ r.task \in Tasks
  BY <1>0, <1>r DEF MetricTypes, Workers
<1>t. token.at <= token.at /\ (token.last = NoTrade => token.at = 0)
  BY TimesAreInts DEF MetricInv
<1>p. (r.task.kind = "replay" => r.lease /\ r.task # NoTask) /\ (r.lease => r.phase = "boot")
  BY <1>0, <1>r DEF TaskInv, LeaseInv, NoTask
<1>1. CASE StartProc(p)
  <2>1. proc'[p] = [r EXCEPT !.phase = "boot"] /\ \A q \in Procs \ {p} : proc'[q] = proc[q]
    BY <1>1, <1>d, <1>r DEF StartProc
  <2>2. r.phase = "down" /\ ~r.lease /\ r.task = NoTask
    BY <1>0, <1>1, <1>p, <1>r DEF StartProc, TaskInv
  <2>3. ~proc'[p].lease /\ proc'[p].phase = "boot" /\ proc'[p].task = NoTask
    BY <2>1, <2>2 DEF Workers
  <2>4. TaskInv(p)' /\ LeaseInv(p)' BY <2>3 DEF TaskInv, LeaseInv
  <2>5. QED BY <1>0, <1>1, <1>t, <2>1, <2>3, <2>4, WorkerGoesOn DEF StartProc
<1>2. CASE ClaimBoot(p)
  <2>0. r.phase = "boot" /\ ~r.lease /\ r.task = NoTask
    BY <1>0, <1>2, <1>p, <1>r DEF ClaimBoot, TaskInv
  <2>1. CASE boot.status = "complete" /\ proc' = [proc EXCEPT ![p].phase = "live"] /\ UNCHANGED boot
    <3>1. proc'[p] = [r EXCEPT !.phase = "live"] /\ \A q \in Procs \ {p} : proc'[q] = proc[q]
      BY <1>d, <1>r, <2>1
    <3>2. ~proc'[p].lease /\ proc'[p].task = NoTask BY <2>0, <3>1 DEF Workers
    <3>3. TaskInv(p)' /\ LeaseInv(p)' BY <2>1, <3>2 DEF TaskInv, LeaseInv
    <3>4. QED BY <1>0, <1>2, <1>t, <2>1, <3>1, <3>2, <3>3, WorkerGoesOn DEF ClaimBoot
  <2>2. CASE /\ boot.status # "complete"
             /\ boot' = [boot EXCEPT !.status = "running", !.holder = p, !.held = TRUE]
             /\ proc' = [proc EXCEPT ![p].lease = TRUE, ![p].cursor = boot.cursor]
    <3>1. proc'[p].phase = "boot" /\ proc'[p].task = NoTask /\ proc'[p].cursor = boot.cursor
          /\ \A q \in Procs \ {p} : proc'[q] = proc[q]
      BY <1>d, <1>r, <2>0, <2>2 DEF Workers
    <3>2. boot'.status = "running" /\ boot'.holder = p /\ boot'.cursor = boot.cursor
      BY <1>d, <2>2 DEF Boots
    <3>3. TaskInv(p)' /\ LeaseInv(p)'
      BY <3>1, <3>2 DEF TaskInv, LeaseInv, NoTask, ReplayAt
    <3>4. UNCHANGED <<clock, trades, rollup, metricEvents, token, states, ticks>>
      BY <1>2 DEF ClaimBoot
    <3>5. \A t \in Trades : OwedInv(t)'
      BY <3>2, <3>4 DEF MetricInv, OwedInv, Owed, PageRows, After, Position
    <3>6. QED BY <1>0, <2>2, <3>1, <3>2, <3>3, <3>4, <3>5, HolderMoves
  <2>3. QED BY <1>2, <2>1, <2>2 DEF ClaimBoot
<1>3. CASE ReadPage(p)
  <2>1. PICK rows \in SUBSET Trades : rows = PageRows(r.cursor)
    BY <1>0 DEF PageRows, MetricTypes
  <2>2. PICK task : task = IF rows = {}
          THEN [kind |-> "replay", trade |-> NoTrade, at |-> "finish"]
          ELSE [kind |-> "replay", trade |-> FirstRow(rows), at |-> "commit"]
    OBVIOUS
  <2>3. r.phase = "boot" /\ r.lease /\ proc' = [proc EXCEPT ![p].task = task]
    BY <1>3, <1>r, <2>1, <2>2 DEF ReadPage
  <2>4. proc'[p] = [r EXCEPT !.task = task] /\ \A q \in Procs \ {p} : proc'[q] = proc[q]
    BY <1>d, <1>r, <2>3
  <2>5. proc'[p].task = task /\ proc'[p].lease /\ proc'[p].phase = "boot"
        /\ proc'[p].cursor = r.cursor
    BY <2>3, <2>4 DEF Workers
  <2>6. UNCHANGED <<clock, trades, rollup, metricEvents, boot, token, states, ticks>>
    BY <1>3 DEF ReadPage
  <2>7. PageRows(proc[p].cursor)' = rows BY <2>1, <2>5, <2>6 DEF PageRows
  <2>8. /\ task.kind = "replay"
        /\ rows = {} => task.at = "finish"
        /\ rows # {} => /\ task.at = "commit" /\ task.trade \in rows
                        /\ \A u \in rows : u = task.trade \/ After(Position(u), Position(task.trade))
    BY <2>2, FirstRowThere
  <2>9. TaskInv(p)'
    BY <2>5, <2>7, <2>8 DEF TaskInv, ReplayAt
  <2>10. LeaseInv(p)'
    <3>1. \A u \in Trades : Owed(u)' => u \in PageRows(boot.cursor)
      BY <2>6 DEF MetricInv, OwedInv, Owed
    <3>2. boot.holder = p => r.cursor = boot.cursor
      BY <1>0, <1>r, <2>3 DEF LeaseInv
    <3>3. boot.status # "pending" /\ (boot.status = "complete" => boot.holder # p)
      BY <1>0, <1>r, <2>3 DEF LeaseInv
    <3>4. boot.holder = p => \A u \in Trades : Owed(u)' => u \in rows
      BY <2>1, <3>1, <3>2
    <3>5. boot.holder = p /\ rows = {} => \A u \in Trades : ~Owed(u)' BY <3>4
    <3>6. boot.holder = p /\ rows # {} =>
            \A u \in Trades : Owed(u)' =>
              u = task.trade \/ After(Position(u), Position(task.trade))
      BY <2>8, <3>4
    <3>7. boot' = boot BY <2>6
    <3>8. QED BY <2>5, <2>8, <3>2, <3>3, <3>5, <3>6, <3>7 DEF LeaseInv, ReplayAt, After, Position
  <2>11. QED BY <1>0, <1>r, <1>t, <2>3, <2>4, <2>5, <2>6, <2>9, <2>10, WorkerGoesOn
<1>7. CASE FinishBoot(p)
  <2>1. CASE /\ boot.status = "running" /\ boot.holder = p
             /\ boot' = [boot EXCEPT !.status = "complete", !.held = FALSE]
             /\ proc' = [proc EXCEPT ![p].lease = FALSE, ![p].task = NoTask]
    <3>0. r.task.at = "finish" /\ UNCHANGED <<clock, trades, rollup, metricEvents, token, states, ticks>>
      BY <1>7, <1>r DEF FinishBoot
    <3>1. r.lease /\ r.task.kind = "replay"
      BY <1>0, <1>r, <3>0 DEF TaskInv, NoTask, DeliverAt
    <3>2. \A u \in Trades : ~Owed(u) BY <1>0, <1>r, <2>1, <3>0, <3>1 DEF LeaseInv
    <3>3. \A u \in Trades : OwedInv(u)' BY <3>0, <3>2 DEF OwedInv, Owed
    <3>4. ~proc'[p].lease /\ proc'[p].task = NoTask
          /\ \A q \in Procs \ {p} : proc'[q] = proc[q]
      BY <1>d, <1>r, <2>1 DEF Workers
    <3>5. boot'.status = "complete" /\ boot'.holder = p BY <1>d, <2>1 DEF Boots
    <3>6. TaskInv(p)' /\ LeaseInv(p)' BY <3>4, <3>5 DEF TaskInv, LeaseInv
    <3>7. QED BY <1>0, <2>1, <3>0, <3>3, <3>4, <3>5, <3>6, HolderMoves
  <2>2. CASE proc' = [proc EXCEPT ![p] = ProcDown] /\ UNCHANGED boot
    BY <1>0, <1>7, <2>2, DownKept DEF FinishBoot
  <2>3. QED BY <1>7, <2>1, <2>2 DEF FinishBoot
<1>6. CASE CheckpointRow(p)
  <2>1. CASE /\ boot.status = "running" /\ boot.holder = p
             /\ boot' = [boot EXCEPT !.cursor = Position(r.task.trade), !.held = TRUE]
             /\ proc' = [proc EXCEPT ![p].task = NoTask, ![p].cursor = Position(r.task.trade)]
    <3>0. r.task.kind = "replay" /\ r.task.at = "checkpoint"
          /\ UNCHANGED <<clock, trades, rollup, metricEvents, token, states, ticks>>
      BY <1>6, <1>r DEF CheckpointRow
    <3>1. r.lease /\ metricEvents[r.task.trade].published
      BY <1>0, <1>r, <3>0 DEF TaskInv, NoTask
    <3>2. \A u \in Trades : Owed(u) => After(Position(u), Position(r.task.trade))
      BY <1>0, <1>r, <2>1, <3>0, <3>1 DEF LeaseInv, ReplayAt, Owed
    <3>3. boot'.status = "running" /\ boot'.holder = p /\ boot'.cursor = Position(r.task.trade)
      BY <1>d, <2>1 DEF Boots
    <3>4. ASSUME NEW u \in Trades PROVE OwedInv(u)'
      <4>1. Owed(u)' => Owed(u) BY <3>0 DEF Owed
      <4>2. Owed(u) => u \in PageRows(boot.cursor) BY DEF MetricInv, OwedInv
      <4>3. u \in PageRows(boot.cursor) /\ After(Position(u), Position(r.task.trade)) =>
              u \in PageRows(Position(r.task.trade))
        BY DEF PageRows
      <4>4. PageRows(Position(r.task.trade)) = PageRows(boot.cursor)'
        BY <3>0, <3>3 DEF PageRows, After, Position
      <4>5. QED BY <3>2, <3>3, <4>1, <4>2, <4>3, <4>4 DEF OwedInv
    <3>5. proc'[p] = [r EXCEPT !.task = NoTask, !.cursor = Position(r.task.trade)]
          /\ \A q \in Procs \ {p} : proc'[q] = proc[q]
      BY <1>d, <1>r, <2>1
    <3>6. proc'[p].task = NoTask /\ proc'[p].cursor = boot'.cursor /\ proc'[p].phase = r.phase
      BY <3>3, <3>5 DEF Workers
    <3>7. TaskInv(p)' /\ LeaseInv(p)'
      BY <1>p, <3>1, <3>3, <3>6 DEF TaskInv, LeaseInv, NoTask, ReplayAt
    <3>8. QED BY <1>0, <2>1, <3>0, <3>3, <3>4, <3>5, <3>7, HolderMoves
  <2>2. CASE proc' = [proc EXCEPT ![p] = ProcDown] /\ UNCHANGED boot
    BY <1>0, <1>6, <2>2, DownKept DEF CheckpointRow
  <2>3. QED BY <1>6, <1>r, <2>1, <2>2 DEF CheckpointRow
<1>4. CASE ReplayRow(p)
  <2>1. r.task.kind = "replay" /\ r.task.at = "commit"
        /\ UNCHANGED <<clock, trades, token, states, ticks, boot>>
    BY <1>4, <1>r DEF ReplayRow
  <2>2. PICK t \in Trades : t = r.task.trade
    BY <1>0, <1>r, <2>1, TaskTrade DEF NoTask
  <2>3. r.lease /\ t \in PageRows(r.cursor) BY <1>0, <1>r, <2>1, <2>2 DEF TaskInv, NoTask
  <2>4. /\ proc'[p] = [r EXCEPT !.task.at = IF metricEvents'[t].published THEN "checkpoint" ELSE "mark"]
        /\ \A q \in Procs \ {p} : proc'[q] = proc[q]
    BY <1>4, <1>d, <1>r, <2>2 DEF ReplayRow
  <2>5. PICK at \in {"checkpoint", "mark"} :
          /\ at = IF metricEvents'[t].published THEN "checkpoint" ELSE "mark"
          /\ proc'[p].task.at = at /\ proc'[p].task.trade = t /\ proc'[p].task.kind = "replay"
          /\ proc'[p].lease /\ proc'[p].cursor = r.cursor /\ proc'[p].phase = r.phase
    BY <1>d, <2>1, <2>2, <2>3, <2>4 DEF Workers, Tasks
  <2>6. PageRows(proc[p].cursor)' = PageRows(r.cursor) BY <2>1, <2>5 DEF PageRows
  <2>7. boot' = boot /\ r.phase = "boot" /\ boot.status # "pending"
        /\ (boot.status = "complete" => boot.holder # p)
        /\ (boot.holder = p => r.cursor = boot.cursor
             /\ \A u \in Trades : Owed(u) => u = t \/ After(Position(u), Position(t)))
    BY <1>0, <1>r, <2>1, <2>2, <2>3 DEF LeaseInv, ReplayAt
  <2>8. ASSUME Known(t)', metricEvents'[t].input = "row",
               \A u \in Trades \ {t} : Owed(u)' => Owed(u)
        PROVE  TaskInv(p)' /\ LeaseInv(p)'
    <3>1. TaskInv(p)' BY <2>3, <2>5, <2>6, <2>8 DEF TaskInv, ReplayAt
    <3>2. boot.holder = p =>
            \A u \in Trades : Owed(u)' => u = t \/ After(Position(u), Position(t))
      BY <2>7, <2>8
    <3>3. LeaseInv(p)' BY <2>5, <2>7, <3>2 DEF LeaseInv, After, Position
    <3>4. QED BY <3>1, <3>3
  <2>9. CASE Commit(t, "row", Cutoff, boot.holder = p)
    <3>1. Cutoff \in 0 .. LastTime /\ Cutoff <= clock /\ (boot.holder = p) \in BOOLEAN
      BY <1>0, MetricAssumption DEF MetricTypes
    <3>2. ~Settled BY <1>r, <2>3 DEF Settled
    <3>3. metricEvents'[t].input = "row" /\ Known(t)'
          /\ \A u \in Trades \ {t} : metricEvents'[u] = metricEvents[u]
      BY <1>0, <2>9 DEF Commit, MetricTypes, Known, NoEvent
    <3>4. TaskInv(p)' /\ LeaseInv(p)' BY <2>8, <3>3 DEF Owed
    <3>5. boot.holder = p => boot.status # "complete" /\ t \in PageRows(boot.cursor)
      BY <2>3, <2>7
    <3>6. QED BY <1>0, <1>r, <2>1, <2>3, <2>4, <2>9, <3>1, <3>2, <3>4, <3>5, WorkerCommits
  <2>10. CASE Duplicate(t, "row")
    <3>1. Known(t) /\ metricEvents[t].input = "row" /\ UNCHANGED <<rollup, metricEvents>>
      BY <2>10 DEF Duplicate
    <3>2. TaskInv(p)' /\ LeaseInv(p)' BY <2>8, <3>1 DEF Owed, Known
    <3>3. QED BY <1>0, <1>r, <1>t, <2>1, <2>3, <2>4, <3>1, <3>2, WorkerGoesOn
  <2>11. QED BY <1>4, <1>r, <2>2, <2>9, <2>10 DEF ReplayRow
<1>5. CASE MarkRow(p)
  <2>1. r.task.kind = "replay" /\ r.task.at = "mark"
        /\ UNCHANGED <<clock, trades, rollup, token, states, ticks, boot>>
    BY <1>5, <1>r DEF MarkRow
  <2>2. PICK t \in Trades : t = r.task.trade
    BY <1>0, <1>r, <2>1, TaskTrade DEF NoTask
  <2>3. r.lease /\ t \in PageRows(r.cursor) /\ Known(t) /\ metricEvents[t].input = "row"
    BY <1>0, <1>r, <2>1, <2>2 DEF TaskInv, NoTask
  <2>4. MarkPublished(t) /\ proc'[p] = [r EXCEPT !.task.at = "checkpoint"]
        /\ \A q \in Procs \ {p} : proc'[q] = proc[q]
    BY <1>5, <1>d, <1>r, <2>2 DEF MarkRow
  <2>5. /\ proc'[p].task.at = "checkpoint" /\ proc'[p].task.trade = t
        /\ proc'[p].task.kind = "replay"
        /\ proc'[p].lease /\ proc'[p].cursor = r.cursor /\ proc'[p].phase = r.phase
    BY <1>d, <2>1, <2>2, <2>3, <2>4 DEF Workers, Tasks
  <2>6. PageRows(proc[p].cursor)' = PageRows(r.cursor) BY <2>1, <2>5 DEF PageRows
  <2>7. boot' = boot /\ r.phase = "boot" /\ boot.status # "pending"
        /\ (boot.status = "complete" => boot.holder # p)
        /\ (boot.holder = p => r.cursor = boot.cursor
             /\ \A u \in Trades : Owed(u) => u = t \/ After(Position(u), Position(t)))
    BY <1>0, <1>r, <2>1, <2>2, <2>3 DEF LeaseInv, ReplayAt
  <2>8. /\ metricEvents'[t].input = "row" /\ metricEvents'[t].published /\ Known(t)'
        /\ \A u \in Trades : Owed(u)' => Owed(u)
    <3>1. PICK e \in MetricEvents : e = metricEvents[t] BY <1>0 DEF MetricTypes
    <3>2. metricEvents'[t] = [e EXCEPT !.published = TRUE]
          /\ \A u \in Trades \ {t} : metricEvents'[u] = metricEvents[u]
      BY <1>0, <2>4, <3>1 DEF MarkPublished, MetricTypes
    <3>3. metricEvents'[t].published /\ metricEvents'[t].input = e.input
      BY <3>2 DEF MetricEvents
    <3>4. Known(t)' BY <3>3 DEF Known, NoEvent
    <3>5. \A u \in Trades : Owed(u)' => Owed(u) BY <3>2, <3>3 DEF Owed
    <3>6. QED BY <2>3, <3>1, <3>3, <3>4, <3>5
  <2>9. TaskInv(p)' BY <2>3, <2>5, <2>6, <2>8 DEF TaskInv, ReplayAt
  <2>10. LeaseInv(p)' BY <2>5, <2>7, <2>8 DEF LeaseInv, After, Position
  <2>11. QED BY <1>0, <1>r, <2>1, <2>3, <2>4, <2>9, <2>10, WorkerMarks
<1>8. QED BY <1>1, <1>2, <1>3, <1>4, <1>5, <1>6, <1>7 DEF BootStep

\* The steps after the commit, and their failure.
LEMMA DeliverKept ==
  ASSUME MetricInv, NEW p \in Procs, DeliverStep(p) \/ Mishap(p)
  PROVE  MetricInv'
<1>0. MetricTypes /\ MetricTypes' /\ TaskInv(p) /\ LeaseInv(p) BY DeliverTyped DEF MetricInv
<1>r. PICK r \in Workers : r = proc[p] BY <1>0, WorkerTyped
<1>d. proc \in [Procs -> Workers] /\ r.task \in Tasks BY <1>0, <1>r DEF MetricTypes, Workers
<1>t. token.at <= token.at /\ (token.last = NoTrade => token.at = 0)
  BY TimesAreInts DEF MetricInv
\* What a worker that delivers knows of its task.
<1>l. ASSUME r.task.at \in {"persist", "state", "tick", "ack"} \/ r.task.kind \in {"live", "redrive"}
      PROVE  /\ r.task.kind \in {"live", "redrive"} /\ r.phase = "live" /\ ~r.lease
             /\ boot.status = "complete"
             /\ r.task.trade \in Trades /\ ~metricEvents[r.task.trade].gated
             /\ r.task.at \in DeliverAt \/ (r.task.kind = "live" /\ r.task.at = "ack")
             /\ Known(r.task.trade) \/ (Settled /\ At[r.task.trade] <= clock - Day)
             /\ r.task.at \in {"state", "tick", "mark"} /\ Known(r.task.trade) =>
                  token.at >= At[metricEvents[r.task.trade].last]
             /\ r.task.at \in {"tick", "mark"} => r.task.trade \in states
             /\ r.task.at = "mark" => r.task.trade \in ticks
  BY <1>0, <1>l, <1>r DEF TaskInv, LeaseInv, NoTask, ReplayAt
\* What is then needed of the next one.
<1>n. ASSUME NEW at \in DeliverAt, proc'[p] = [r EXCEPT !.task.at = at],
             r.task.kind \in {"live", "redrive"},
             UNCHANGED <<clock, trades, rollup, metricEvents, boot>>,
             \A q \in Procs \ {p} : proc'[q] = proc[q],
             at \in {"state", "tick", "mark"} /\ Known(r.task.trade) =>
               token'.at >= At[metricEvents[r.task.trade].last],
             at \in {"tick", "mark"} => r.task.trade \in states',
             at = "mark" => r.task.trade \in ticks'
      PROVE  ~proc'[p].lease /\ TaskInv(p)' /\ LeaseInv(p)'
  <2>1. /\ proc'[p].task.at = at /\ proc'[p].task.trade = r.task.trade
        /\ proc'[p].task.kind = r.task.kind /\ proc'[p].phase = "live" /\ ~proc'[p].lease
    BY <1>d, <1>l, <1>n DEF Workers, Tasks
  <2>2. ~metricEvents'[r.task.trade].gated BY <1>l, <1>n
  <2>3. Settled => Settled' BY <1>l, <1>n, <2>1 DEF Settled
  <2>4. Known(r.task.trade)' \/ (Settled' /\ At[r.task.trade] <= clock' - Day)
    BY <1>l, <1>n, <2>3 DEF Known
  <2>5. Known(r.task.trade)' <=> Known(r.task.trade) BY <1>n DEF Known
  <2>6. TaskInv(p)' BY <1>l, <1>n, <2>1, <2>2, <2>4, <2>5 DEF TaskInv
  <2>7. LeaseInv(p)' BY <1>l, <1>n, <2>1 DEF LeaseInv
  <2>8. QED BY <2>1, <2>6, <2>7
\* A worker that has done its task.
<1>i. ASSUME proc' = [proc EXCEPT ![p].task = NoTask], r.task.kind \in {"live", "redrive"},
             UNCHANGED boot
      PROVE  /\ ~proc'[p].lease /\ TaskInv(p)' /\ LeaseInv(p)'
             /\ \A q \in Procs \ {p} : proc'[q] = proc[q]
  <2>1. /\ ~proc'[p].lease /\ proc'[p].phase = "live" /\ proc'[p].task = NoTask
        /\ \A q \in Procs \ {p} : proc'[q] = proc[q]
    BY <1>d, <1>i, <1>l, <1>r DEF Workers
  <2>2. QED BY <1>i, <1>l, <2>1 DEF TaskInv, LeaseInv
<1>1. CASE PersistState(p)
  <2>1. r.task.at = "persist" /\ Known(r.task.trade)
        /\ UNCHANGED <<clock, trades, rollup, metricEvents, states, ticks, boot>>
    BY <1>1, <1>r DEF PersistState
  <2>2. PICK last \in Trades : last = metricEvents[r.task.trade].last
    BY <1>l, <2>1, LastIsTrade
  <2>3. token' = IF Newer(last) THEN [last |-> last, at |-> At[last]] ELSE token
    BY <1>1, <1>r, <2>2 DEF PersistState
  <2>4. At[last] \in Int /\ At[last] >= 0 /\ token.at \in Int /\ token.at >= 0 /\ last # NoTrade
    BY <1>0, TimesAreInts, MetricAssumption DEF NoTrade
  <2>5. token.at <= token'.at /\ token'.at >= At[last] /\ (token'.last = NoTrade => token'.at = 0)
    <3>1. CASE Newer(last)
      <4>1. token'.last = last /\ token'.at = At[last] BY <2>3, <3>1
      <4>2. QED BY <1>t, <2>4, <3>1, <4>1 DEF Newer
    <3>2. CASE ~Newer(last)
      BY <1>t, <2>3, <2>4, <3>2 DEF Newer
    <3>3. QED BY <3>1, <3>2
  <2>6. proc'[p] = [r EXCEPT !.task.at = "state"] /\ \A q \in Procs \ {p} : proc'[q] = proc[q]
    BY <1>1, <1>d, <1>r DEF PersistState
  <2>7. ~proc'[p].lease /\ TaskInv(p)' /\ LeaseInv(p)'
    BY <1>l, <1>n, <2>1, <2>2, <2>5, <2>6 DEF DeliverAt
  <2>8. QED BY <1>0, <2>1, <2>5, <2>6, <2>7, WorkerGoesOn
<1>2. CASE PublishState(p)
  <2>1. r.task.at = "state" /\ states' = states \cup {r.task.trade}
        /\ UNCHANGED <<clock, trades, rollup, metricEvents, token, ticks, boot>>
    BY <1>2, <1>r DEF PublishState
  <2>2. proc'[p] = [r EXCEPT !.task.at = "tick"] /\ \A q \in Procs \ {p} : proc'[q] = proc[q]
    BY <1>2, <1>d, <1>r DEF PublishState
  <2>3. ~proc'[p].lease /\ TaskInv(p)' /\ LeaseInv(p)'
    BY <1>l, <1>n, <2>1, <2>2 DEF DeliverAt
  <2>4. QED BY <1>0, <1>t, <2>1, <2>2, <2>3, WorkerGoesOn
<1>3. CASE PublishTick(p)
  <2>1. r.task.at = "tick" /\ ticks' = ticks \cup {r.task.trade}
        /\ UNCHANGED <<clock, trades, rollup, metricEvents, token, states, boot>>
    BY <1>3, <1>r DEF PublishTick
  <2>2. proc'[p] = [r EXCEPT !.task.at = "mark"] /\ \A q \in Procs \ {p} : proc'[q] = proc[q]
    BY <1>3, <1>d, <1>r DEF PublishTick
  <2>3. ~proc'[p].lease /\ TaskInv(p)' /\ LeaseInv(p)'
    BY <1>l, <1>n, <2>1, <2>2 DEF DeliverAt
  <2>4. QED BY <1>0, <1>l, <1>t, <2>1, <2>2, <2>3, WorkerGoesOn
<1>4. CASE MarkDelivered(p)
  <2>1. r.task.kind \in {"live", "redrive"} /\ r.task.at = "mark"
        /\ UNCHANGED <<clock, trades, rollup, token, states, ticks, boot>>
    BY <1>4, <1>r DEF MarkDelivered
  <2>2. PICK t \in Trades : t = r.task.trade BY <1>l, <2>1
  <2>3. Known(t) /\ MarkPublished(t) BY <1>4, <1>r, <2>2 DEF MarkDelivered
  <2>4. t \in states /\ t \in ticks /\ token.at >= At[metricEvents[t].last]
    BY <1>l, <2>1, <2>2, <2>3
  <2>5. ~proc'[p].lease /\ TaskInv(p)' /\ LeaseInv(p)' /\ \A q \in Procs \ {p} : proc'[q] = proc[q]
    <3>1. CASE r.task.kind = "redrive"
      BY <1>4, <1>i, <1>r, <2>1, <3>1 DEF MarkDelivered
    <3>2. CASE r.task.kind = "live"
      <4>1. proc'[p] = [r EXCEPT !.task = [r.task EXCEPT !.at = "ack"]]
            /\ \A q \in Procs \ {p} : proc'[q] = proc[q]
        BY <1>4, <1>d, <1>r, <3>2 DEF MarkDelivered
      <4>2. /\ proc'[p].task.at = "ack" /\ proc'[p].task.trade = t
            /\ proc'[p].task.kind = "live" /\ proc'[p].phase = "live" /\ ~proc'[p].lease
        BY <1>d, <1>l, <2>1, <2>2, <3>2, <4>1 DEF Workers, Tasks
      <4>3. Known(t)' /\ ~metricEvents'[t].gated
        <5>1. PICK e \in MetricEvents : e = metricEvents[t] BY <1>0 DEF MetricTypes
        <5>2. metricEvents'[t] = [e EXCEPT !.published = TRUE]
          BY <1>0, <2>3, <5>1 DEF MarkPublished, MetricTypes
        <5>3. metricEvents'[t].published /\ metricEvents'[t].gated = e.gated
          BY <5>2 DEF MetricEvents
        <5>4. QED BY <1>l, <2>1, <2>2, <5>1, <5>3 DEF Known, NoEvent
      <4>4. TaskInv(p)' BY <4>2, <4>3 DEF TaskInv
      <4>5. LeaseInv(p)' BY <1>l, <2>1, <4>2 DEF LeaseInv
      <4>6. QED BY <4>1, <4>2, <4>4, <4>5
    <3>3. QED BY <2>1, <3>1, <3>2
  <2>6. QED BY <1>0, <2>1, <2>3, <2>4, <2>5, WorkerMarks
<1>5. CASE AckEntry(p)
  <2>1. r.task.kind = "live" /\ proc' = [proc EXCEPT ![p].task = NoTask]
        /\ UNCHANGED <<clock, trades, rollup, metricEvents, token, states, ticks, boot>>
    BY <1>5, <1>r DEF AckEntry
  <2>2. QED BY <1>0, <1>i, <1>t, <2>1, WorkerGoesOn
<1>6. CASE CrashProc(p) BY <1>0, <1>6, DownKept DEF CrashProc
<1>7. CASE FailDelivery(p)
  <2>1. UNCHANGED <<clock, trades, rollup, metricEvents, token, states, ticks, boot>>
    BY <1>7 DEF FailDelivery
  <2>2. CASE r.task.kind = "live" /\ proc' = [proc EXCEPT ![p].task = NoTask]
    BY <1>0, <1>i, <1>t, <2>1, <2>2, WorkerGoesOn
  <2>3. CASE proc' = [proc EXCEPT ![p] = ProcDown] BY <1>0, <2>1, <2>3, DownKept
  <2>4. QED BY <1>7, <1>r, <2>2, <2>3 DEF FailDelivery
<1>8. QED BY <1>1, <1>2, <1>3, <1>4, <1>5, <1>6, <1>7 DEF DeliverStep, Mishap

\* The transaction of an entry of the stream, and its refusal.
LEMMA EntryKept ==
  ASSUME MetricInv, NEW p \in Procs, NEW t \in Trades,
         ProjectEntry(p, t) \/ RefuseEntry(p, t) \/ Redrive(p, t) \/ PruneEvent(p, t)
  PROVE  MetricInv'
<1>0. MetricTypes /\ MetricTypes' /\ TaskInv(p) /\ LeaseInv(p) BY EntryTyped DEF MetricInv
<1>r. PICK r \in Workers : r = proc[p] BY <1>0, WorkerTyped
<1>d. proc \in [Procs -> Workers] BY <1>0 DEF MetricTypes
<1>t. token.at <= token.at /\ (token.last = NoTrade => token.at = 0) /\ clock \in Int
  BY TimesAreInts DEF MetricInv
<1>n. ASSUME NEW kind \in {"live", "redrive"}, NEW at \in {"persist", "ack"},
             at = "ack" => kind = "live",
             proc' = [proc EXCEPT ![p].task = [kind |-> kind, trade |-> t, at |-> at]],
             Free(p), UNCHANGED boot, Known(t)', ~metricEvents'[t].gated
      PROVE  /\ ~proc'[p].lease /\ TaskInv(p)' /\ LeaseInv(p)'
             /\ \A q \in Procs \ {p} : proc'[q] = proc[q]
  <2>1. r.phase = "live" /\ boot.status = "complete" /\ ~r.lease
    BY <1>0, <1>n, <1>r DEF Free, LeaseInv
  <2>2. /\ proc'[p].task = [kind |-> kind, trade |-> t, at |-> at]
        /\ proc'[p].phase = "live" /\ ~proc'[p].lease
        /\ \A q \in Procs \ {p} : proc'[q] = proc[q]
    BY <1>d, <1>n, <1>r, <2>1 DEF Workers
  <2>3. TaskInv(p)' BY <1>n, <2>2 DEF TaskInv, DeliverAt
  <2>4. LeaseInv(p)' BY <1>n, <2>1, <2>2 DEF LeaseInv
  <2>5. QED BY <2>2, <2>3, <2>4
<1>1. CASE ProjectEntry(p, t)
  <2>1. PICK at \in {"persist", "ack"} :
          /\ at = IF metricEvents'[t].published THEN "ack" ELSE "persist"
          /\ proc' = [proc EXCEPT ![p].task = [kind |-> "live", trade |-> t, at |-> at]]
    BY <1>1 DEF ProjectEntry
  <2>2. Free(p) /\ UNCHANGED <<clock, trades, token, states, ticks, boot>>
    BY <1>1 DEF ProjectEntry
  <2>3. CASE Commit(t, "stream", clock, FALSE)
    <3>1. clock \in 0 .. LastTime /\ clock <= clock
      BY <1>0, MetricAssumption DEF MetricTypes
    <3>2. Known(t)' /\ ~metricEvents'[t].gated
      BY <1>0, <2>3 DEF Commit, MetricTypes, Known, NoEvent
    <3>3. ~(At[t] <= clock - Day) BY <1>t, <2>3, TimesAreInts DEF Commit, InHorizon
    <3>4. ~proc'[p].lease /\ TaskInv(p)' /\ LeaseInv(p)' /\ \A q \in Procs \ {p} : proc'[q] = proc[q]
      BY <1>n, <2>1, <2>2, <3>2
    <3>5. QED BY <1>0, <2>2, <2>3, <3>1, <3>3, <3>4, WorkerCommits
  <2>4. CASE Duplicate(t, "stream")
    <3>1. Known(t) /\ metricEvents[t].input = "stream" /\ UNCHANGED <<rollup, metricEvents>>
      BY <2>4 DEF Duplicate
    <3>2. ~metricEvents[t].gated BY <3>1 DEF MetricInv, EventInv
    <3>3. Known(t)' /\ ~metricEvents'[t].gated BY <3>1, <3>2 DEF Known
    <3>4. ~proc'[p].lease /\ TaskInv(p)' /\ LeaseInv(p)' /\ \A q \in Procs \ {p} : proc'[q] = proc[q]
      BY <1>n, <2>1, <2>2, <3>3
    <3>5. QED BY <1>0, <1>t, <2>2, <3>1, <3>4, WorkerGoesOn
  <2>5. QED BY <1>1, <2>3, <2>4 DEF ProjectEntry
<1>2. CASE RefuseEntry(p, t)
  <2>1. clock <= clock BY <1>t
  <2>2. QED BY <1>0, <1>2, <2>1, QuietStep DEF RefuseEntry, LeaseStays
<1>3. CASE Redrive(p, t)
  <2>1. /\ Free(p) /\ Known(t) /\ ~metricEvents[t].published
        /\ proc' = [proc EXCEPT ![p].task = [kind |-> "redrive", trade |-> t, at |-> "persist"]]
        /\ UNCHANGED <<clock, trades, rollup, metricEvents, token, states, ticks, boot>>
    BY <1>3 DEF Redrive
  <2>2. boot.status = "complete" BY <1>0, <2>1 DEF Free, LeaseInv
  <2>3. ~metricEvents[t].gated BY <2>1, <2>2 DEF MetricInv, OwedInv, Owed
  <2>4. Known(t)' /\ ~metricEvents'[t].gated BY <2>1, <2>3 DEF Known
  <2>5. ~proc'[p].lease /\ TaskInv(p)' /\ LeaseInv(p)' /\ \A q \in Procs \ {p} : proc'[q] = proc[q]
    BY <1>n, <2>1, <2>4
  <2>6. QED BY <1>0, <1>t, <2>1, <2>5, WorkerGoesOn
<1>4. CASE PruneEvent(p, t) BY <1>0, <1>4, WorkerPrunes
<1>5. QED BY <1>1, <1>2, <1>3, <1>4

\* A step of the metrics keeps the invariant.
LEMMA MetricKept == MetricInv /\ [MetricNext]_MetricVars => MetricInv'
<1> SUFFICES ASSUME MetricInv, [MetricNext]_MetricVars PROVE MetricInv' OBVIOUS
<1>1. CASE Tick \/ ExpireBoot \/ \E t \in Trades : IntakeStep(t) BY <1>1, OutsideKept
<1>2. ASSUME NEW p \in Procs, BootStep(p) PROVE MetricInv' BY <1>2, BootKept
<1>3. ASSUME NEW p \in Procs, DeliverStep(p) \/ Mishap(p) PROVE MetricInv' BY <1>3, DeliverKept
<1>4. ASSUME NEW p \in Procs, NEW t \in Trades,
             ProjectEntry(p, t) \/ RefuseEntry(p, t) \/ Redrive(p, t) \/ PruneEvent(p, t)
      PROVE  MetricInv'
  BY <1>4, EntryKept
<1>5. CASE UNCHANGED MetricVars
  <2>1. clock <= clock BY TimesAreInts DEF MetricInv
  <2>2. MetricTypes' BY <1>5 DEF MetricVars, MetricInv, MetricTypes
  <2>3. QED BY <1>5, <2>1, <2>2, QuietStep DEF MetricVars, LeaseStays
<1>6. QED BY <1>1, <1>2, <1>3, <1>4, <1>5 DEF MetricNext, WorkerStep

\* The inductive invariant of the metrics: no event of the replay is forgotten behind
\* the cursor, no delivery is out of order (marketMetricService.ts).
THEOREM MetricsInvariance == MetricSpec => []MetricInv
BY MetricStart, MetricKept, PTL DEF MetricSpec

\* The rollup is its trades, whatever was redelivered, replayed, pruned or came late:
\* in a window that has not ended a trade is counted once if it has its event and not
\* at all if it could still be counted (marketMetricRepository.ts, rollingMetricBook.ts).
THEOREM RollupTrue == MetricSpec => []RollupIsTrades
<1>1. ASSUME MetricInv, NEW t \in Trades
      PROVE  /\ \A w \in DOMAIN Windows :
                  /\ ~Ended(w, t, rollup.asOf) /\ Known(t) => rollup.book[w][t] = 1
                  /\ ~Known(t) /\ InHorizon(t, clock) => rollup.book[w][t] = 0
             /\ Known(t) => t = rollup.last \/ Later(rollup.last, t)
  <2>1. BookInv(t) BY <1>1 DEF MetricInv
  <2>2. InHorizon(t, clock) => ~(At[t] <= clock - Day)
    BY <1>1, TimesAreInts DEF InHorizon, MetricInv
  <2>3. QED BY <2>1, <2>2 DEF BookInv
<1>2. MetricInv => RollupIsTrades BY <1>1 DEF RollupIsTrades
<1>3. QED BY <1>2, MetricsInvariance, PTL

\* What is said to be delivered is on its streams and in the token's row, and what a
\* holder of the lease counted from the store has no tick, whichever worker dies,
\* stalls or is overtaken (marketMetricService.ts).
THEOREM MetricEventsTrue == MetricSpec => []MetricEventsAreTrue
<1>1. MetricInv => MetricTypeOK
  BY MetricAssumption
     DEF MetricInv, MetricTypes, MetricTypeOK, Rollups, MetricEvents, Tokens, Boots, Workers, Tasks
<1>2. MetricInv => HistoryIsSilent
  BY DEF MetricInv, MetricTypes, EventInv, HistoryIsSilent
<1>3. MetricInv => DeliveredIsThere
  BY DEF MetricInv, EventInv, DeliveredIsThere
<1>4. MetricInv => MetricEventsAreTrue BY <1>1, <1>2, <1>3 DEF MetricEventsAreTrue
<1>5. QED BY <1>4, MetricsInvariance, PTL

(***************************************************************************)
(* An alert fires at most once for each generation, and as its owner       *)
(* defined it.                                                             *)
(*                                                                         *)
(* The property is not inductive by itself.  The writer compares the       *)
(* candidate with the row, so nothing needs to be known about the          *)
(* definitions in the index or in candidates; what has to be known is that *)
(* a candidate's tick satisfies its definition, that the row's definition  *)
(* is the one recorded for its generation, and that no event is of a later *)
(* generation than the row's.                                              *)
(***************************************************************************)
\* What is known of the tick being handled and of candidates.
MatchesHold ==
  /\ matcher.job.at # "none" => matcher.job.tick \in TickNumbers
  /\ matcher.job.at \in {"matched", "sent"} /\ matcher.job.hit # NotIndexed =>
       matcher.job.hit.def \in Hits[matcher.job.tick]
  /\ \A c \in candidates : c.def \in Hits[c.tick]

\* What is known of the row and of events.
RowHolds ==
  /\ alert.def # NoDef => alert.def = defs[alert.gen]
  /\ alert.exists => alert.def # NoDef
  /\ alert.def = NoDef => events = {}
  /\ \A e \in events : e.gen <= alert.gen

AlertInv == AlertTypeOK /\ MatchesHold /\ RowHolds /\ FiresOnceAsDefined

\* The fixed values have their types.
LEMMA FixedTyped ==
  /\ NotIndexed \in Index /\ 1 \in Gens /\ 1 \in TickNumbers /\ NoDef \notin Defs
  /\ NoJob \in Jobs /\ MatcherDown \in Matchers
<1> USE AlertAssumption
<1>1. NotIndexed \in Index /\ 1 \in Gens /\ NoDef \notin Defs
  BY DEF Index, Gens, NoDef
<1>2. 1 \in TickNumbers
  <2>1. Len(Hits) # 0 /\ Len(Hits) \in Nat
    BY DEF NoDef
  <2> QED BY <2>1 DEF TickNumbers
<1>3. NoJob \in Jobs
  BY <1>1, <1>2 DEF NoJob, Jobs
<1>4. MatcherDown \in Matchers
  BY <1>1, <1>3 DEF MatcherDown, Matchers
<1> QED BY <1>1, <1>2, <1>3, <1>4

\* What a query returns is an entry, or that there is none.
LEMMA LoadedTyped ==
  ASSUME RowTypes, RowHolds
  PROVE  Loaded \in Index /\ LoadedShard \in Index
BY FixedTyped DEF RowTypes, RowHolds, Rows, Loaded, LoadedShard, Armed, Index, Entries

\* A job that hit has all that makes a candidate.
LEMMA HitTyped ==
  ASSUME AlertInv, matcher.job.hit # NotIndexed, NEW no
  PROVE  /\ CandidateOf(matcher.job, no).no = no
         /\ CandidateOf(matcher.job, no).gen = matcher.job.hit.gen
         /\ CandidateOf(matcher.job, no).def = matcher.job.hit.def
         /\ CandidateOf(matcher.job, no).user = matcher.job.hit.user
         /\ CandidateOf(matcher.job, no).tick = matcher.job.tick
         /\ matcher.job.hit.gen \in Gens /\ matcher.job.hit.def \in Defs
         /\ matcher.job.hit.user \in Users /\ matcher.job.tick \in TickNumbers
         /\ matcher.job.hit \in Index
<1>1. matcher.job \in Jobs
  BY DEF AlertInv, AlertTypeOK, Matchers
<1>2. matcher.job.hit \in Index /\ matcher.job.tick \in TickNumbers
  BY <1>1 DEF Jobs
<1>3. matcher.job.hit \in Entries
  BY <1>2 DEF Index
<1> QED BY <1>2, <1>3 DEF Entries, CandidateOf

\* A firing keeps the types of the row and of events, and what is known of them.
LEMMA FireKeeps ==
  ASSUME AlertInv, NEW c, Fire(c), UNCHANGED defs,
         c.gen \in Gens, c.def \in Defs, c.user \in Users, c.tick \in TickNumbers,
         c.def \in Hits[c.tick]
  PROVE  alert' \in Rows /\ events' \subseteq Events /\ RowHolds' /\ FiresOnceAsDefined'
<1> DEFINE e == [gen |-> c.gen, def |-> c.def, user |-> c.user, owner |-> alert.user,
                 tick |-> c.tick]
<1>1. /\ alert \in Rows /\ alert.gen = c.gen /\ alert.def = c.def /\ alert.user = c.user
      /\ alert.exists /\ Armed
  BY DEF AlertInv, AlertTypeOK, RowTypes, Fire, Holds, Agrees, Armed
<1>2. /\ alert' \in Rows /\ alert'.gen = alert.gen /\ alert'.def = alert.def
      /\ alert'.user = alert.user /\ alert'.exists = alert.exists
      /\ alert'.active = FALSE
  BY <1>1 DEF Fire, Rows
<1>3. events' = events \cup {e} /\ e \in Events
  BY <1>1 DEF Fire, Events, Rows
<1>4. /\ e.gen = alert.gen /\ e.def = alert.def /\ e.user = alert.user /\ e.owner = alert.user
      /\ e.tick = c.tick
  BY <1>1
<1>5. e.def = defs[e.gen] /\ e.def \in Hits[e.tick]
  BY <1>1, <1>4, FixedTyped DEF AlertInv, RowHolds
<1>6. \A f \in events : f.gen # alert.gen /\ f.gen <= alert.gen
  BY <1>1 DEF AlertInv, FiresOnceAsDefined, RowHolds
<1>7. events \subseteq Events
  BY DEF AlertInv, AlertTypeOK, FlowTypes
<1>8. ~Armed'
  BY <1>2 DEF Armed
<1> HIDE DEF e
<1>9. RowHolds'
  <2>1. alert'.def # NoDef /\ alert'.def = defs'[alert'.gen]
    BY <1>1, <1>2, FixedTyped DEF AlertInv, RowHolds
  <2>2. \A f \in events' : f.gen <= alert'.gen
    BY <1>1, <1>2, <1>3, <1>4, <1>6 DEF Rows, Gens
  <2> QED BY <2>1, <2>2 DEF RowHolds
<1>10. FiresOnceAsDefined'
  <2>1. \A f \in events' : f.def = defs'[f.gen] /\ f.user = f.owner /\ f.def \in Hits[f.tick]
    BY <1>3, <1>4, <1>5 DEF AlertInv, FiresOnceAsDefined
  <2>2. \A f, g \in events' : f.gen = g.gen => f = g
    BY <1>3, <1>4, <1>6 DEF AlertInv, FiresOnceAsDefined
  <2> QED BY <2>1, <2>2, <1>8 DEF FiresOnceAsDefined
<1> QED BY <1>2, <1>3, <1>7, <1>9, <1>10

\* Every step keeps the types of the row.
LEMMA RowTypesKept ==
  ASSUME AlertInv, [AlertNext]_AlertVars
  PROVE  RowTypes'
<1> USE AlertAssumption DEF AlertInv, AlertTypeOK
<1>1. ASSUME NEW h \in Handlers, NEW d \in Defs, NEW u \in Users, CreateAlert(h, d, u)
      PROVE  RowTypes'
  BY <1>1, FixedTyped DEF CreateAlert, RowTypes, Rows
<1>2. ASSUME NEW h \in Handlers, NEW d \in Defs \cup {NoDef}, NEW change \in {"keep", "on", "off"}, UpdateAlert(h, d, change)
      PROVE  RowTypes'
  <2> DEFINE gen == IF Fences(change, d) THEN alert.gen + 1 ELSE alert.gen
  <2> DEFINE def == IF d = NoDef THEN alert.def ELSE d
  <2>1. gen \in Gens
    BY <1>2 DEF UpdateAlert, RowTypes, Rows, Gens
  <2>2. def \in Defs \cup {NoDef}
    BY DEF RowTypes, Rows
  <2> HIDE DEF gen, def
  <2>3. alert' \in Rows
    BY <2>1, <2>2, <1>2 DEF UpdateAlert, RowTypes, Rows, gen, def
  <2>4. defs' \in [Gens -> Defs \cup {NoDef}]
    BY <2>1, <2>2, <1>2 DEF UpdateAlert, RowTypes, gen, def
  <2> QED BY <2>3, <2>4, <1>2 DEF UpdateAlert, RowTypes
<1>3. ASSUME NEW h \in Handlers, DeleteAlert(h)
      PROVE  RowTypes'
  BY <1>3 DEF DeleteAlert, RowTypes, Rows, Gens, Users, NoDef
<1>4. ASSUME NEW h \in Handlers, SyncToken(h)
      PROVE  RowTypes'
  BY <1>4 DEF SyncToken, RowTypes, Rows, Gens, Users, NoDef
<1>5. ASSUME NEW h \in Handlers, EmitIndexUpdate(h)
      PROVE  RowTypes'
  BY <1>5 DEF EmitIndexUpdate, Posted, RowTypes, Rows, Gens, Users, NoDef
<1>6. ASSUME NEW h \in Handlers, ForgetUpdate(h)
      PROVE  RowTypes'
  BY <1>6 DEF ForgetUpdate, RowTypes, Rows, Gens, Users, NoDef
<1>7. CASE MergeAccount
  BY <1>7 DEF MergeAccount, RowTypes, Rows, Gens, Users, NoDef
<1>8. CASE DeleteAccount
  BY <1>8 DEF DeleteAccount, RowTypes, Rows, Gens, Users, NoDef
<1>9. ASSUME NEW c \in candidates, WriteCandidate(c)
      PROVE  RowTypes'
  <2>1. c.gen \in Gens /\ c.def \in Defs /\ c.user \in Users /\ c.tick \in TickNumbers
    BY <1>9 DEF FlowTypes, Candidates
  <2>2. c.def \in Hits[c.tick]
    BY <1>9 DEF WriteCandidate, MatchesHold
  <2>3. CASE Fire(c)
    BY <2>1, <2>2, <2>3, <1>9, FireKeeps DEF WriteCandidate, RowTypes
  <2>4. CASE NotFired
    BY <2>4, <1>9 DEF WriteCandidate, NotFired, RowTypes
  <2> QED BY <2>3, <2>4, <1>9 DEF WriteCandidate
<1>10. CASE PublishOwed
  BY <1>10 DEF PublishOwed, Posted, RowTypes, Rows, Gens, Users, NoDef
<1>11. CASE StartMatcher
  BY <1>11 DEF StartMatcher, RowTypes, Rows, Gens, Users, NoDef
<1>12. CASE StopMatcher
  BY <1>12 DEF StopMatcher, RowTypes, Rows, Gens, Users, NoDef
<1>13. CASE ReadUpdates
  BY <1>13 DEF ReadUpdates, RowTypes, Rows, Gens, Users, NoDef
<1>14. CASE LoadToken
  BY <1>14 DEF LoadToken, RowTypes, Rows, Gens, Users, NoDef
<1>15. CASE Resync
  BY <1>15 DEF Resync, RowTypes, Rows, Gens, Users, NoDef
<1>16. CASE SwapIndex
  BY <1>16 DEF SwapIndex, RowTypes, Rows, Gens, Users, NoDef
<1>17. CASE TakeTick
  BY <1>17 DEF TakeTick, RowTypes, Rows, Gens, Users, NoDef
<1>18. ASSUME NEW t \in pending, ReclaimTick(t)
      PROVE  RowTypes'
  BY <1>18 DEF ReclaimTick, RowTypes, Rows, Gens, Users, NoDef
<1>19. CASE MatchTick
  BY <1>19 DEF MatchTick, RowTypes, Rows, Gens, Users, NoDef
<1>20. CASE PublishCandidate
  BY <1>20 DEF PublishCandidate, RowTypes, Rows, Gens, Users, NoDef
<1>21. CASE FireMatch
  <2>1. matcher.job.at = "matched" /\ matcher.job.hit # NotIndexed
    BY <1>21 DEF FireMatch
  <2>2. matcher.job.hit.def \in Hits[matcher.job.tick]
    BY <2>1 DEF MatchesHold
  <2>3. CASE Fire(CandidateOf(matcher.job, 1))
    BY <2>1, <2>2, <2>3, <1>21, HitTyped, FireKeeps DEF FireMatch, RowTypes
  <2>4. CASE NotFired
    BY <2>4, <1>21 DEF FireMatch, NotFired, RowTypes
  <2> QED BY <2>3, <2>4, <1>21 DEF FireMatch
<1>22. CASE AckTick
  BY <1>22 DEF AckTick, RowTypes, Rows, Gens, Users, NoDef
<1>23. CASE UNCHANGED AlertVars
  BY <1>23 DEF AlertVars, RowTypes, Rows, Gens, Users, NoDef
<1> QED
  BY <1>1, <1>2, <1>3, <1>4, <1>5, <1>6, <1>7, <1>8, <1>9, <1>10, <1>11, <1>12, <1>13, <1>14, <1>15, <1>16, <1>17, <1>18, <1>19, <1>20, <1>21, <1>22, <1>23
     DEF AlertNext, ApiStep, MatcherStep

\* Every step keeps the type of the matcher.
LEMMA MatcherTypesKept ==
  ASSUME AlertInv, [AlertNext]_AlertVars
  PROVE  (matcher \in Matchers)'
<1> USE AlertAssumption DEF AlertInv, AlertTypeOK
<1>1. ASSUME NEW h \in Handlers, NEW d \in Defs, NEW u \in Users, CreateAlert(h, d, u)
      PROVE  (matcher \in Matchers)'
  BY <1>1 DEF CreateAlert
<1>2. ASSUME NEW h \in Handlers, NEW d \in Defs \cup {NoDef}, NEW change \in {"keep", "on", "off"}, UpdateAlert(h, d, change)
      PROVE  (matcher \in Matchers)'
  BY <1>2 DEF UpdateAlert, Fences
<1>3. ASSUME NEW h \in Handlers, DeleteAlert(h)
      PROVE  (matcher \in Matchers)'
  BY <1>3 DEF DeleteAlert
<1>4. ASSUME NEW h \in Handlers, SyncToken(h)
      PROVE  (matcher \in Matchers)'
  BY <1>4 DEF SyncToken
<1>5. ASSUME NEW h \in Handlers, EmitIndexUpdate(h)
      PROVE  (matcher \in Matchers)'
  BY <1>5 DEF EmitIndexUpdate, Posted
<1>6. ASSUME NEW h \in Handlers, ForgetUpdate(h)
      PROVE  (matcher \in Matchers)'
  BY <1>6 DEF ForgetUpdate
<1>7. CASE MergeAccount
  BY <1>7 DEF MergeAccount
<1>8. CASE DeleteAccount
  BY <1>8 DEF DeleteAccount
<1>9. ASSUME NEW c \in candidates, WriteCandidate(c)
      PROVE  (matcher \in Matchers)'
  BY <1>9 DEF WriteCandidate, Fire, NotFired
<1>10. CASE PublishOwed
  BY <1>10 DEF PublishOwed, Posted
<1>11. CASE StartMatcher
  BY <1>11, FixedTyped, LoadedTyped DEF StartMatcher, Matchers, MatcherDown
<1>12. CASE StopMatcher
  BY <1>12, FixedTyped DEF StopMatcher
<1>13. CASE ReadUpdates
  BY <1>13, FixedTyped, LoadedTyped DEF ReadUpdates, Matchers, Jobs
<1>14. CASE LoadToken
  BY <1>14, FixedTyped, LoadedTyped DEF LoadToken, Matchers, Jobs
<1>15. CASE Resync
  BY <1>15, FixedTyped, LoadedTyped DEF Resync, Matchers, Jobs
<1>16. CASE SwapIndex
  BY <1>16, FixedTyped, LoadedTyped DEF SwapIndex, Matchers, Jobs
<1>17. CASE TakeTick
  <2>1. [NoJob EXCEPT !.at = "taken", !.tick = next] \in Jobs
    BY <1>17, FixedTyped DEF TakeTick, Jobs
  <2> QED BY <2>1, <1>17 DEF TakeTick, Matchers
<1>18. ASSUME NEW t \in pending, ReclaimTick(t)
      PROVE  (matcher \in Matchers)'
  <2>1. [NoJob EXCEPT !.at = "taken", !.tick = t] \in Jobs
    BY <1>18, FixedTyped DEF FlowTypes, Jobs
  <2> QED BY <2>1, <1>18 DEF ReclaimTick, Matchers
<1>19. CASE MatchTick
  <2>1. PICK hit \in Index : matcher' = [matcher EXCEPT !.job.at = "matched", !.job.hit = hit]
    BY <1>19, FixedTyped DEF MatchTick, Matchers
  <2> QED BY <2>1 DEF Matchers, Jobs
<1>20. CASE PublishCandidate
  BY <1>20, FixedTyped, LoadedTyped DEF PublishCandidate, Matchers, Jobs
<1>21. CASE FireMatch
  BY <1>21, FixedTyped DEF FireMatch, Matchers, Jobs
<1>22. CASE AckTick
  BY <1>22, FixedTyped, LoadedTyped DEF AckTick, Matchers, Jobs
<1>23. CASE UNCHANGED AlertVars
  BY <1>23 DEF AlertVars
<1> QED
  BY <1>1, <1>2, <1>3, <1>4, <1>5, <1>6, <1>7, <1>8, <1>9, <1>10, <1>11, <1>12, <1>13, <1>14, <1>15, <1>16, <1>17, <1>18, <1>19, <1>20, <1>21, <1>22, <1>23
     DEF AlertNext, ApiStep, MatcherStep

\* Every step keeps the types of what flows.
LEMMA FlowTypesKept ==
  ASSUME AlertInv, [AlertNext]_AlertVars
  PROVE  FlowTypes'
<1> USE AlertAssumption DEF AlertInv, AlertTypeOK
<1>1. ASSUME NEW h \in Handlers, NEW d \in Defs, NEW u \in Users, CreateAlert(h, d, u)
      PROVE  FlowTypes'
  BY <1>1 DEF CreateAlert, FlowTypes
<1>2. ASSUME NEW h \in Handlers, NEW d \in Defs \cup {NoDef}, NEW change \in {"keep", "on", "off"}, UpdateAlert(h, d, change)
      PROVE  FlowTypes'
  BY <1>2 DEF UpdateAlert, Fences, FlowTypes
<1>3. ASSUME NEW h \in Handlers, DeleteAlert(h)
      PROVE  FlowTypes'
  BY <1>3 DEF DeleteAlert, FlowTypes
<1>4. ASSUME NEW h \in Handlers, SyncToken(h)
      PROVE  FlowTypes'
  BY <1>4 DEF SyncToken, FlowTypes
<1>5. ASSUME NEW h \in Handlers, EmitIndexUpdate(h)
      PROVE  FlowTypes'
  BY <1>5 DEF EmitIndexUpdate, Posted, FlowTypes
<1>6. ASSUME NEW h \in Handlers, ForgetUpdate(h)
      PROVE  FlowTypes'
  BY <1>6 DEF ForgetUpdate, FlowTypes
<1>7. CASE MergeAccount
  BY <1>7 DEF MergeAccount, FlowTypes
<1>8. CASE DeleteAccount
  BY <1>8 DEF DeleteAccount, FlowTypes
<1>9. ASSUME NEW c \in candidates, WriteCandidate(c)
      PROVE  FlowTypes'
  <2>1. c.gen \in Gens /\ c.def \in Defs /\ c.user \in Users /\ c.tick \in TickNumbers
    BY <1>9 DEF FlowTypes, Candidates
  <2>2. c.def \in Hits[c.tick]
    BY <1>9 DEF WriteCandidate, MatchesHold
  <2>3. CASE Fire(c)
    <3>1. owed' \in Nat
      BY <2>3, <1>9 DEF Fire, FlowTypes
    <3>2. events' \subseteq Events
      BY <2>1, <2>2, <2>3, <1>9, FireKeeps DEF WriteCandidate
    <3> QED BY <3>1, <3>2, <1>9 DEF WriteCandidate, FlowTypes
  <2>4. CASE NotFired
    BY <2>4, <1>9 DEF WriteCandidate, NotFired, FlowTypes
  <2> QED BY <2>3, <2>4, <1>9 DEF WriteCandidate
<1>10. CASE PublishOwed
  <2>1. owed' \in Nat
    BY <1>10 DEF PublishOwed, FlowTypes
  <2>2. unread' \in BOOLEAN
    BY <1>10 DEF PublishOwed, Posted, FlowTypes
  <2> QED BY <2>1, <2>2, <1>10 DEF PublishOwed, FlowTypes
<1>11. CASE StartMatcher
  BY <1>11 DEF StartMatcher, FlowTypes
<1>12. CASE StopMatcher
  BY <1>12 DEF StopMatcher, FlowTypes, Matchers, Jobs
<1>13. CASE ReadUpdates
  BY <1>13 DEF ReadUpdates, FlowTypes
<1>14. CASE LoadToken
  BY <1>14 DEF LoadToken, FlowTypes
<1>15. CASE Resync
  BY <1>15 DEF Resync, FlowTypes
<1>16. CASE SwapIndex
  BY <1>16 DEF SwapIndex, FlowTypes
<1>17. CASE TakeTick
  BY <1>17 DEF TakeTick, FlowTypes
<1>18. ASSUME NEW t \in pending, ReclaimTick(t)
      PROVE  FlowTypes'
  BY <1>18 DEF ReclaimTick, FlowTypes
<1>19. CASE MatchTick
  BY <1>19 DEF MatchTick, FlowTypes
<1>20. CASE PublishCandidate
  <2>1. matcher.job.hit # NotIndexed /\ sent + 1 \in 1 .. MaxSent
    BY <1>20 DEF PublishCandidate, FlowTypes
  <2>2. CandidateOf(matcher.job, sent + 1) \in Candidates
    BY <2>1, HitTyped DEF CandidateOf, Candidates
  <2> QED BY <2>1, <2>2, <1>20 DEF PublishCandidate, FlowTypes
<1>21. CASE FireMatch
  <2>1. matcher.job.at = "matched" /\ matcher.job.hit # NotIndexed
    BY <1>21 DEF FireMatch
  <2>2. matcher.job.hit.def \in Hits[matcher.job.tick]
    BY <2>1 DEF MatchesHold
  <2>3. pending' \subseteq TickNumbers
    BY <2>1, <1>21, HitTyped DEF FireMatch, FlowTypes
  <2>4. CASE Fire(CandidateOf(matcher.job, 1))
    <3>1. owed' \in Nat
      BY <2>4, <1>21 DEF Fire, FlowTypes
    <3>2. events' \subseteq Events
      BY <2>1, <2>2, <2>4, <1>21, HitTyped, FireKeeps DEF FireMatch
    <3> QED BY <3>1, <3>2, <2>3, <1>21 DEF FireMatch, FlowTypes
  <2>5. CASE NotFired
    BY <2>3, <2>5, <1>21 DEF FireMatch, NotFired, FlowTypes
  <2> QED BY <2>4, <2>5, <1>21 DEF FireMatch
<1>22. CASE AckTick
  BY <1>22 DEF AckTick, FlowTypes
<1>23. CASE UNCHANGED AlertVars
  BY <1>23 DEF AlertVars, FlowTypes
<1> QED
  BY <1>1, <1>2, <1>3, <1>4, <1>5, <1>6, <1>7, <1>8, <1>9, <1>10, <1>11, <1>12, <1>13, <1>14, <1>15, <1>16, <1>17, <1>18, <1>19, <1>20, <1>21, <1>22, <1>23
     DEF AlertNext, ApiStep, MatcherStep

\* Every step keeps what is known of matches.
LEMMA MatchesKept ==
  ASSUME AlertInv, [AlertNext]_AlertVars
  PROVE  MatchesHold'
<1> USE AlertAssumption DEF AlertInv, AlertTypeOK
<1>1. ASSUME NEW h \in Handlers, NEW d \in Defs, NEW u \in Users, CreateAlert(h, d, u)
      PROVE  MatchesHold'
  BY <1>1 DEF CreateAlert, MatchesHold
<1>2. ASSUME NEW h \in Handlers, NEW d \in Defs \cup {NoDef}, NEW change \in {"keep", "on", "off"}, UpdateAlert(h, d, change)
      PROVE  MatchesHold'
  BY <1>2 DEF UpdateAlert, Fences, MatchesHold
<1>3. ASSUME NEW h \in Handlers, DeleteAlert(h)
      PROVE  MatchesHold'
  BY <1>3 DEF DeleteAlert, MatchesHold
<1>4. ASSUME NEW h \in Handlers, SyncToken(h)
      PROVE  MatchesHold'
  BY <1>4 DEF SyncToken, MatchesHold
<1>5. ASSUME NEW h \in Handlers, EmitIndexUpdate(h)
      PROVE  MatchesHold'
  BY <1>5 DEF EmitIndexUpdate, Posted, MatchesHold
<1>6. ASSUME NEW h \in Handlers, ForgetUpdate(h)
      PROVE  MatchesHold'
  BY <1>6 DEF ForgetUpdate, MatchesHold
<1>7. CASE MergeAccount
  BY <1>7 DEF MergeAccount, MatchesHold
<1>8. CASE DeleteAccount
  BY <1>8 DEF DeleteAccount, MatchesHold
<1>9. ASSUME NEW c \in candidates, WriteCandidate(c)
      PROVE  MatchesHold'
  BY <1>9 DEF WriteCandidate, MatchesHold
<1>10. CASE PublishOwed
  BY <1>10 DEF PublishOwed, Posted, MatchesHold
<1>11. CASE StartMatcher
  BY <1>11 DEF StartMatcher, MatcherDown, NoJob, MatchesHold
<1>12. CASE StopMatcher
  BY <1>12 DEF StopMatcher, MatcherDown, NoJob, MatchesHold
<1>13. CASE ReadUpdates
  BY <1>13 DEF ReadUpdates, MatchesHold, Matchers, Jobs
<1>14. CASE LoadToken
  BY <1>14 DEF LoadToken, MatchesHold, Matchers, Jobs
<1>15. CASE Resync
  BY <1>15 DEF Resync, MatchesHold, Matchers, Jobs
<1>16. CASE SwapIndex
  BY <1>16 DEF SwapIndex, MatchesHold, Matchers, Jobs
<1>17. CASE TakeTick
  BY <1>17 DEF TakeTick, MatchesHold, Matchers, Jobs, NoJob
<1>18. ASSUME NEW t \in pending, ReclaimTick(t)
      PROVE  MatchesHold'
  BY <1>18 DEF ReclaimTick, FlowTypes, MatchesHold, Matchers, Jobs, NoJob
<1>19. CASE MatchTick
  <2> DEFINE hit == IF matcher.index # NotIndexed /\ matcher.index.def \in Hits[matcher.job.tick]
                    THEN matcher.index ELSE NotIndexed
  <2>1. hit # NotIndexed => hit.def \in Hits[matcher.job.tick]
    OBVIOUS
  <2>2. matcher' = [matcher EXCEPT !.job.at = "matched", !.job.hit = hit] /\ matcher.job.at = "taken"
    BY <1>19 DEF MatchTick
  <2> HIDE DEF hit
  <2>3. matcher'.job.at = "matched" /\ matcher'.job.hit = hit /\ matcher'.job.tick = matcher.job.tick
    BY <2>2 DEF Matchers, Jobs
  <2> QED BY <2>1, <2>2, <2>3, <1>19 DEF MatchTick, MatchesHold
<1>20. CASE PublishCandidate
  <2>1. matcher.job.at = "matched" /\ matcher.job.hit # NotIndexed
    BY <1>20 DEF PublishCandidate
  <2>2. /\ matcher'.job.at = "sent" /\ matcher'.job.hit = matcher.job.hit
        /\ matcher'.job.tick = matcher.job.tick
    BY <1>20 DEF PublishCandidate, Matchers, Jobs
  <2>3. /\ matcher.job.hit.def \in Hits[matcher.job.tick]
        /\ matcher.job.tick \in TickNumbers
    BY <2>1 DEF MatchesHold, Matchers, Jobs
  <2>4. \A c \in candidates' : c.def \in Hits[c.tick]
    BY <2>1, <2>3, <1>20, HitTyped DEF PublishCandidate, MatchesHold
  <2> QED BY <2>2, <2>3, <2>4 DEF MatchesHold
<1>21. CASE FireMatch
  <2>1. matcher'.job.at = "none" \/ matcher'.job = [matcher.job EXCEPT !.at = "sent"]
    BY <1>21 DEF FireMatch, Matchers, Jobs, NoJob
  <2>2. /\ matcher.job.hit.def \in Hits[matcher.job.tick]
        /\ matcher.job.tick \in TickNumbers /\ matcher.job \in Jobs
    BY <1>21 DEF FireMatch, MatchesHold, Matchers, Jobs
  <2> QED BY <2>1, <2>2, <1>21 DEF FireMatch, MatchesHold, Jobs
<1>22. CASE AckTick
  BY <1>22 DEF AckTick, MatchesHold, Matchers, Jobs, NoJob
<1>23. CASE UNCHANGED AlertVars
  BY <1>23 DEF AlertVars, MatchesHold
<1> QED
  BY <1>1, <1>2, <1>3, <1>4, <1>5, <1>6, <1>7, <1>8, <1>9, <1>10, <1>11, <1>12, <1>13, <1>14, <1>15, <1>16, <1>17, <1>18, <1>19, <1>20, <1>21, <1>22, <1>23
     DEF AlertNext, ApiStep, MatcherStep

\* Every step keeps what is known of the row.
LEMMA RowKept ==
  ASSUME AlertInv, [AlertNext]_AlertVars
  PROVE  RowHolds'
<1> USE AlertAssumption DEF AlertInv, AlertTypeOK
<1>1. ASSUME NEW h \in Handlers, NEW d \in Defs, NEW u \in Users, CreateAlert(h, d, u)
      PROVE  RowHolds'
  <2>1. alert'.def = d /\ alert'.gen = 1 /\ alert'.exists /\ defs'[1] = d /\ events' = {}
    BY <1>1, FixedTyped DEF CreateAlert, RowTypes, RowHolds
  <2> QED BY <2>1, FixedTyped DEF RowHolds
<1>2. ASSUME NEW h \in Handlers, NEW d \in Defs \cup {NoDef}, NEW change \in {"keep", "on", "off"}, UpdateAlert(h, d, change)
      PROVE  RowHolds'
  <2> DEFINE gen == IF Fences(change, d) THEN alert.gen + 1 ELSE alert.gen
  <2> DEFINE def == IF d = NoDef THEN alert.def ELSE d
  <2>1. /\ alert'.gen = gen /\ alert'.def = def /\ alert'.exists = alert.exists
        /\ alert.exists /\ gen <= MaxGen /\ defs' = [defs EXCEPT ![gen] = def]
        /\ events' = events
    BY <1>2 DEF UpdateAlert, RowTypes, Rows
  <2>2. gen \in Gens /\ alert.gen <= gen /\ alert.gen \in Gens
    BY <2>1 DEF RowTypes, Rows, Gens
  <2>3. defs'[gen] = def
    BY <2>1, <2>2 DEF RowTypes
  <2>4. def # NoDef
    BY <2>1 DEF RowHolds
  <2>5. \A e \in events' : e.gen <= alert'.gen
    BY <2>1, <2>2 DEF RowHolds, FlowTypes, Events, Gens
  <2> QED BY <2>1, <2>3, <2>4, <2>5 DEF RowHolds
<1>3. ASSUME NEW h \in Handlers, DeleteAlert(h)
      PROVE  RowHolds'
  BY <1>3 DEF DeleteAlert, RowHolds, RowTypes, Rows
<1>4. ASSUME NEW h \in Handlers, SyncToken(h)
      PROVE  RowHolds'
  BY <1>4 DEF SyncToken, RowHolds
<1>5. ASSUME NEW h \in Handlers, EmitIndexUpdate(h)
      PROVE  RowHolds'
  BY <1>5 DEF EmitIndexUpdate, Posted, RowHolds
<1>6. ASSUME NEW h \in Handlers, ForgetUpdate(h)
      PROVE  RowHolds'
  BY <1>6 DEF ForgetUpdate, RowHolds
<1>7. CASE MergeAccount
  BY <1>7 DEF MergeAccount, RowHolds, RowTypes, Rows
<1>8. CASE DeleteAccount
  BY <1>8 DEF DeleteAccount, RowHolds
<1>9. ASSUME NEW c \in candidates, WriteCandidate(c)
      PROVE  RowHolds'
  <2>1. c.gen \in Gens /\ c.def \in Defs /\ c.user \in Users /\ c.tick \in TickNumbers
    BY <1>9 DEF FlowTypes, Candidates
  <2>2. c.def \in Hits[c.tick]
    BY <1>9 DEF WriteCandidate, MatchesHold
  <2>3. CASE Fire(c)
    BY <2>1, <2>2, <2>3, <1>9, FireKeeps DEF WriteCandidate, RowHolds
  <2>4. CASE NotFired
    BY <2>4, <1>9 DEF WriteCandidate, NotFired, RowHolds
  <2> QED BY <2>3, <2>4, <1>9 DEF WriteCandidate
<1>10. CASE PublishOwed
  BY <1>10 DEF PublishOwed, Posted, RowHolds
<1>11. CASE StartMatcher
  BY <1>11 DEF StartMatcher, RowHolds
<1>12. CASE StopMatcher
  BY <1>12 DEF StopMatcher, RowHolds
<1>13. CASE ReadUpdates
  BY <1>13 DEF ReadUpdates, RowHolds
<1>14. CASE LoadToken
  BY <1>14 DEF LoadToken, RowHolds
<1>15. CASE Resync
  BY <1>15 DEF Resync, RowHolds
<1>16. CASE SwapIndex
  BY <1>16 DEF SwapIndex, RowHolds
<1>17. CASE TakeTick
  BY <1>17 DEF TakeTick, RowHolds
<1>18. ASSUME NEW t \in pending, ReclaimTick(t)
      PROVE  RowHolds'
  BY <1>18 DEF ReclaimTick, RowHolds
<1>19. CASE MatchTick
  BY <1>19 DEF MatchTick, RowHolds
<1>20. CASE PublishCandidate
  BY <1>20 DEF PublishCandidate, RowHolds
<1>21. CASE FireMatch
  <2>1. matcher.job.at = "matched" /\ matcher.job.hit # NotIndexed
    BY <1>21 DEF FireMatch
  <2>2. matcher.job.hit.def \in Hits[matcher.job.tick]
    BY <2>1 DEF MatchesHold
  <2>3. CASE Fire(CandidateOf(matcher.job, 1))
    BY <2>1, <2>2, <2>3, <1>21, HitTyped, FireKeeps DEF FireMatch, RowHolds
  <2>4. CASE NotFired
    BY <2>4, <1>21 DEF FireMatch, NotFired, RowHolds
  <2> QED BY <2>3, <2>4, <1>21 DEF FireMatch
<1>22. CASE AckTick
  BY <1>22 DEF AckTick, RowHolds
<1>23. CASE UNCHANGED AlertVars
  BY <1>23 DEF AlertVars, RowHolds
<1> QED
  BY <1>1, <1>2, <1>3, <1>4, <1>5, <1>6, <1>7, <1>8, <1>9, <1>10, <1>11, <1>12, <1>13, <1>14, <1>15, <1>16, <1>17, <1>18, <1>19, <1>20, <1>21, <1>22, <1>23
     DEF AlertNext, ApiStep, MatcherStep

\* Every step keeps the property itself.
LEMMA FiringKept ==
  ASSUME AlertInv, [AlertNext]_AlertVars
  PROVE  FiresOnceAsDefined'
<1> USE AlertAssumption DEF AlertInv, AlertTypeOK
<1>1. ASSUME NEW h \in Handlers, NEW d \in Defs, NEW u \in Users, CreateAlert(h, d, u)
      PROVE  FiresOnceAsDefined'
  <2>1. events' = {}
    BY <1>1 DEF CreateAlert, RowHolds
  <2> QED BY <2>1 DEF FiresOnceAsDefined
<1>2. ASSUME NEW h \in Handlers, NEW d \in Defs \cup {NoDef}, NEW change \in {"keep", "on", "off"}, UpdateAlert(h, d, change)
      PROVE  FiresOnceAsDefined'
  <2> DEFINE gen == IF Fences(change, d) THEN alert.gen + 1 ELSE alert.gen
  <2>1. /\ alert'.gen = gen /\ gen <= MaxGen /\ events' = events /\ alert.exists
        /\ alert'.active = (IF change = "keep" THEN alert.active ELSE change = "on")
        /\ alert'.triggered = (IF change = "on" THEN FALSE ELSE alert.triggered)
        /\ defs' = [defs EXCEPT ![gen] = IF d = NoDef THEN alert.def ELSE d]
        /\ alert'.exists = alert.exists
    BY <1>2 DEF UpdateAlert, RowTypes, Rows
  <2>2. alert.gen \in Gens /\ gen \in Gens /\ \A e \in events : e.gen \in Gens /\ e.gen <= alert.gen
    BY <2>1 DEF RowTypes, Rows, Gens, RowHolds, FlowTypes, Events
  <2>3. CASE Fences(change, d)
    <3>1. \A e \in events : e.gen # gen
      BY <2>2, <2>3 DEF Gens
    <3>2. \A e \in events : defs'[e.gen] = defs[e.gen]
      BY <2>1, <2>2, <3>1 DEF RowTypes
    <3> QED BY <2>1, <3>1, <3>2 DEF FiresOnceAsDefined
  <2>4. CASE ~Fences(change, d)
    <3>1. defs'[alert.gen] = alert.def /\ alert.def = defs[alert.gen]
      BY <2>1, <2>2, <2>4 DEF Fences, RowTypes, RowHolds
    <3>2. \A e \in events : defs'[e.gen] = defs[e.gen]
      BY <2>1, <2>2, <2>4, <3>1 DEF RowTypes
    <3>3. Armed' => Armed
      BY <2>1, <2>4 DEF Fences, Armed
    <3> QED BY <2>1, <2>4, <3>2, <3>3 DEF FiresOnceAsDefined
  <2> QED BY <2>3, <2>4
<1>3. ASSUME NEW h \in Handlers, DeleteAlert(h)
      PROVE  FiresOnceAsDefined'
  <2>1. events' = {}
    BY <1>3 DEF DeleteAlert
  <2> QED BY <2>1 DEF FiresOnceAsDefined
<1>4. ASSUME NEW h \in Handlers, SyncToken(h)
      PROVE  FiresOnceAsDefined'
  BY <1>4 DEF SyncToken, FiresOnceAsDefined, Armed
<1>5. ASSUME NEW h \in Handlers, EmitIndexUpdate(h)
      PROVE  FiresOnceAsDefined'
  BY <1>5 DEF EmitIndexUpdate, Posted, FiresOnceAsDefined, Armed
<1>6. ASSUME NEW h \in Handlers, ForgetUpdate(h)
      PROVE  FiresOnceAsDefined'
  BY <1>6 DEF ForgetUpdate, FiresOnceAsDefined, Armed
<1>7. CASE MergeAccount
  BY <1>7 DEF MergeAccount, FiresOnceAsDefined, Armed, RowTypes, Rows
<1>8. CASE DeleteAccount
  BY <1>8 DEF DeleteAccount, FiresOnceAsDefined, Armed
<1>9. ASSUME NEW c \in candidates, WriteCandidate(c)
      PROVE  FiresOnceAsDefined'
  <2>1. c.gen \in Gens /\ c.def \in Defs /\ c.user \in Users /\ c.tick \in TickNumbers
    BY <1>9 DEF FlowTypes, Candidates
  <2>2. c.def \in Hits[c.tick]
    BY <1>9 DEF WriteCandidate, MatchesHold
  <2>3. CASE Fire(c)
    BY <2>1, <2>2, <2>3, <1>9, FireKeeps DEF WriteCandidate, FiresOnceAsDefined, Armed
  <2>4. CASE NotFired
    BY <2>4, <1>9 DEF WriteCandidate, NotFired, FiresOnceAsDefined, Armed
  <2> QED BY <2>3, <2>4, <1>9 DEF WriteCandidate
<1>10. CASE PublishOwed
  BY <1>10 DEF PublishOwed, Posted, FiresOnceAsDefined, Armed
<1>11. CASE StartMatcher
  BY <1>11 DEF StartMatcher, FiresOnceAsDefined, Armed
<1>12. CASE StopMatcher
  BY <1>12 DEF StopMatcher, FiresOnceAsDefined, Armed
<1>13. CASE ReadUpdates
  BY <1>13 DEF ReadUpdates, FiresOnceAsDefined, Armed
<1>14. CASE LoadToken
  BY <1>14 DEF LoadToken, FiresOnceAsDefined, Armed
<1>15. CASE Resync
  BY <1>15 DEF Resync, FiresOnceAsDefined, Armed
<1>16. CASE SwapIndex
  BY <1>16 DEF SwapIndex, FiresOnceAsDefined, Armed
<1>17. CASE TakeTick
  BY <1>17 DEF TakeTick, FiresOnceAsDefined, Armed
<1>18. ASSUME NEW t \in pending, ReclaimTick(t)
      PROVE  FiresOnceAsDefined'
  BY <1>18 DEF ReclaimTick, FiresOnceAsDefined, Armed
<1>19. CASE MatchTick
  BY <1>19 DEF MatchTick, FiresOnceAsDefined, Armed
<1>20. CASE PublishCandidate
  BY <1>20 DEF PublishCandidate, FiresOnceAsDefined, Armed
<1>21. CASE FireMatch
  <2>1. matcher.job.at = "matched" /\ matcher.job.hit # NotIndexed
    BY <1>21 DEF FireMatch
  <2>2. matcher.job.hit.def \in Hits[matcher.job.tick]
    BY <2>1 DEF MatchesHold
  <2>3. CASE Fire(CandidateOf(matcher.job, 1))
    BY <2>1, <2>2, <2>3, <1>21, HitTyped, FireKeeps DEF FireMatch, FiresOnceAsDefined, Armed
  <2>4. CASE NotFired
    BY <2>4, <1>21 DEF FireMatch, NotFired, FiresOnceAsDefined, Armed
  <2> QED BY <2>3, <2>4, <1>21 DEF FireMatch
<1>22. CASE AckTick
  BY <1>22 DEF AckTick, FiresOnceAsDefined, Armed
<1>23. CASE UNCHANGED AlertVars
  BY <1>23 DEF AlertVars, FiresOnceAsDefined, Armed
<1> QED
  BY <1>1, <1>2, <1>3, <1>4, <1>5, <1>6, <1>7, <1>8, <1>9, <1>10, <1>11, <1>12, <1>13, <1>14, <1>15, <1>16, <1>17, <1>18, <1>19, <1>20, <1>21, <1>22, <1>23
     DEF AlertNext, ApiStep, MatcherStep

\* The invariant holds at first.
LEMMA AlertStarts == AlertInit => AlertInv
<1> SUFFICES ASSUME AlertInit PROVE AlertInv
  OBVIOUS
<1> USE AlertAssumption
<1>1. RowTypes
  BY FixedTyped DEF AlertInit, RowTypes, Rows, Users
<1>2. matcher \in Matchers
  BY FixedTyped DEF AlertInit
<1>3. FlowTypes
  <2>1. sent = 0 /\ owed = 0 /\ next = 1 /\ unread = FALSE
    BY DEF AlertInit
  <2>2. pending = {} /\ candidates = {} /\ events = {}
    BY DEF AlertInit
  <2>3. sent \in 0 .. MaxSent /\ owed \in Nat /\ next \in Nat \ {0}
    BY <2>1 DEF AlertAssumption
  <2> QED BY <2>1, <2>2, <2>3 DEF FlowTypes
<1>4. MatchesHold /\ RowHolds /\ FiresOnceAsDefined
  BY DEF AlertInit, MatchesHold, RowHolds, FiresOnceAsDefined, MatcherDown, NoJob
<1> QED BY <1>1, <1>2, <1>3, <1>4 DEF AlertInv, AlertTypeOK

\* The inductive invariant.
LEMMA AlertInvHolds == AlertSpec => []AlertInv
<1>1. AlertInv /\ [AlertNext]_AlertVars => AlertInv'
  BY RowTypesKept, MatcherTypesKept, FlowTypesKept, MatchesKept, RowKept, FiringKept
     DEF AlertInv, AlertTypeOK
<1> QED BY <1>1, AlertStarts, PTL DEF AlertSpec

\* Every variable keeps its type (the matchers, the alert routes, the writer).
THEOREM AlertsTyped == AlertSpec => []AlertTypeOK
<1>1. AlertInv => AlertTypeOK
  BY DEF AlertInv
<1> QED BY <1>1, AlertInvHolds, PTL

\* For any ticks, definitions, handlers and bounds, an alert fires at most once
\* for each generation, and as its owner defined it (alertEventWriter.ts).
THEOREM AlertsFireOnce == AlertSpec => []FiresOnceAsDefined
<1>1. AlertInv => FiresOnceAsDefined
  BY DEF AlertInv
<1> QED BY <1>1, AlertInvHolds, PTL
=============================================================================

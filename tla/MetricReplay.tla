----------------------------- MODULE MetricReplay ------------------------------
(* The projection of an extracted replay (metricReplay.ts): a tape of trades,  *)
(* the points of the bonding curve and the phase it ended in are checked and   *)
(* become counts, windows, candles and prices, which are written to a new      *)
(* directory and published by renaming it.                                     *)
(*   A trade is one of a table: its place on the chain and its time.  Prices   *)
(* are told apart only by where they come from.  A writer may be killed at any *)
(* step, and two may write the same output.                                    *)
EXTENDS Naturals, Sequences, FiniteSets, SequencesExt, FiniteSetsExt

CONSTANTS
    Table,      \* trades: id -> [order, time]
    FxTimes,    \* times at which the FX tape knows a price
    ChartTimes, \* times at which it knows one for the chart
    Points,     \* curve points: id -> [order, trade, complete]
    MaxTrades, MaxPoints,
    Day, Bucket,
    Writers, Files, None

VARIABLES
    input,      \* trades, curve, phase, and the manifest's count of trades
    writer,     \* of a writer: stage and files written
    out         \* the published directory

vars == <<input, writer, out>>

Phases == {"curve", "complete", "migrated"}

Inputs == [trades : UNION {[1..n -> DOMAIN Table] : n \in 1..MaxTrades},
           curve : UNION {[1..n -> DOMAIN Points] : n \in 1..MaxPoints},
           phase : Phases, count : 1..MaxTrades]

-------------------------------------------------------------------------------
(* The projection.                                                             *)

\* Trusting the order of the file.
InChainOrder_AsRead(trades) == trades
\* Trades are sorted by their place on the chain.
InChainOrder(trades) == SortSeq(trades, LAMBDA a, b : Table[a].order < Table[b].order)

Regresses(seq) == \E i \in 1..(Len(seq) - 1) : Table[seq[i + 1]].time < Table[seq[i]].time

\* Asking only that the last point completes the curve.
Lifecycle_LastOnly(points) == TRUE
\* Points come in strict chain order and nothing follows the one that completes.
\* (Their ids are not compared: Set.add always answers the set.)
Lifecycle(points) ==
    \A i \in 1..(Len(points) - 1) :
        /\ Points[points[i]].order < Points[points[i + 1]].order
        /\ ~Points[points[i]].complete

PhaseFits(in) == Points[Last(in.curve)].complete <=> in.phase # "curve"

\* A priced point is found again by its trade: two of one trade are refused.
Priced(id) == Table[id].time \in FxTimes
PricedPoints(points) == SelectSeq(points, LAMBDA p : Priced(Points[p].trade))
Ambiguous(points) ==
    \E i, j \in DOMAIN PricedPoints(points) :
        i # j /\ Points[PricedPoints(points)[i]].trade = Points[PricedPoints(points)[j]].trade

Accepts(in) ==
    /\ Len(in.trades) = in.count
    /\ ~Regresses(InChainOrder(in.trades))
    /\ Lifecycle(in.curve) /\ PhaseFits(in) /\ ~Ambiguous(in.curve)

Coverage(part, whole) == IF whole = 0 THEN 0 ELSE (part * 10000) \div whole

\* The curve's price before the tape's, and the tape's before none.
ChartPrice(in, id) ==
    IF \E p \in Range(PricedPoints(in.curve)) : Points[p].trade = id THEN "curve"
    ELSE IF Table[id].time \in ChartTimes \cup FxTimes THEN "fx" ELSE None

\* Windows that count the trade on their edge.
Recent_Edge(id, final) == Table[id].time + Day >= final
Recent(id, final) == Table[id].time + Day > final

Projection(in) ==
    LET raw == InChainOrder(in.trades)
        priced == SelectSeq(raw, Priced)
        final == Table[Last(raw)].time
        recent == SelectSeq(raw, LAMBDA id : Recent(id, final))
        recentPriced == SelectSeq(recent, Priced)
    IN [trades |-> Len(raw), priced |-> Len(priced), coverage |-> Coverage(Len(priced), Len(raw)),
        asOf |-> final,
        last |-> IF priced = <<>> THEN None ELSE Last(priced),
        rolling |-> Len(recent), windowCoverage |-> Coverage(Len(recentPriced), Len(recent)),
        candles |-> [b \in {Table[id].time \div Bucket : id \in Range(priced)} |->
                        Len(SelectSeq(priced, LAMBDA id : Table[id].time \div Bucket = b))],
        chart |-> [id \in Range(raw) |-> ChartPrice(in, id)],
        liquidity |-> in.phase # "migrated" /\ Priced(Points[Last(in.curve)].trade)]

-------------------------------------------------------------------------------
(* Writing.                                                                    *)

Init ==
    /\ input \in Inputs
    /\ writer = [w \in Writers |-> [stage |-> "idle", files |-> 0]]
    /\ out = None

\* Hashes, counts and contents are checked before anything is written.
Build(w) ==
    /\ writer[w].stage = "idle"
    /\ writer' = [writer EXCEPT ![w].stage = IF Accepts(input) THEN "built" ELSE "refused"]
    /\ UNCHANGED <<input, out>>

\* The output must not exist, and then a stage of its own is made.
Stage(w) ==
    /\ writer[w].stage = "built"
    /\ writer' = [writer EXCEPT ![w].stage = IF out = None THEN "writing" ELSE "refused"]
    /\ UNCHANGED <<input, out>>

Write(w) ==
    /\ writer[w].stage = "writing" /\ writer[w].files < Files
    /\ writer' = [writer EXCEPT ![w].files = @ + 1]
    /\ UNCHANGED <<input, out>>

\* Publishing before the manifest, the last file, is written.
MayPublish_Early(w) == writer[w].files + 1 >= Files
MayPublish(w) == writer[w].files = Files

\* Renaming fails when another writer's output is there by now.
Publish(w) ==
    /\ writer[w].stage = "writing" /\ MayPublish(w)
    /\ IF out = None
       THEN /\ out' = [by |-> w, files |-> writer[w].files, state |-> Projection(input)]
            /\ writer' = [writer EXCEPT ![w].stage = "done"]
       ELSE writer' = [writer EXCEPT ![w].stage = "refused", ![w].files = 0] /\ UNCHANGED out
    /\ UNCHANGED input

\* Killed, or failed with its stage removed.
Stops(w) ==
    /\ writer[w].stage \in {"built", "writing"}
    /\ writer' = [writer EXCEPT ![w].stage = "refused"]
    /\ UNCHANGED <<input, out>>

Next == \E w \in Writers : Build(w) \/ Stage(w) \/ Write(w) \/ Publish(w) \/ Stops(w)

Spec == Init /\ [][Next]_vars

-------------------------------------------------------------------------------
(* Properties.                                                                 *)

Distinct == IsInjective(input.trades)

\* What is published says of a tape of distinct trades what the set of them
\* says, in whatever order the file has them.
StateIsExact ==
    (out # None /\ Distinct) =>
        LET ids == Range(input.trades)
            priced == {id \in ids : Priced(id)}
            final == Max({Table[id].time : id \in ids})
            recent == {id \in ids : final - Table[id].time < Day}
            s == out.state
        IN /\ s.trades = Cardinality(ids) /\ s.priced = Cardinality(priced) /\ s.asOf = final
           /\ s.coverage * Cardinality(ids) <= 10000 * s.priced
           /\ 10000 * s.priced < (s.coverage + 1) * Cardinality(ids)
           /\ s.rolling = Cardinality(recent)
           /\ s.windowCoverage = 10000 <=> recent \subseteq priced
           /\ s.last = None <=> priced = {}
           /\ s.last # None => \A id \in priced : Table[id].order <= Table[s.last].order
           /\ MapThenSumSet(LAMBDA b : s.candles[b], DOMAIN s.candles) = s.priced
           /\ \A id \in ids : Priced(id) => s.chart[id] # None

\* Only a curve that ends as the phase says is published, and it completes once.
CurveIsOne ==
    out # None =>
        LET done == {i \in DOMAIN input.curve : Points[input.curve[i]].complete}
        IN IF input.phase = "curve" THEN done = {} ELSE done = {Len(input.curve)}

\* What is published is whole and one writer's, whoever is killed and when.
OutputIsWhole ==
    /\ out # None => out.files = Files
    /\ Cardinality({w \in Writers : writer[w].stage = "done"}) <= 1

ReplayIsTrue == StateIsExact /\ CurveIsOne /\ OutputIsWhole
===============================================================================

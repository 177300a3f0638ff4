------------------------------- MODULE LivePage --------------------------------
(* The live side of a token's page (TradingTerminal.tsx): the event stream it  *)
(* keeps open, the queue that is painted at the frame rate, the candles it     *)
(* fetches for the interval on screen, and the tape and the chart it shows.    *)
(*   The server is MarketFanout as it promises to be: while a connection is    *)
(* open its trades and candles arrive in order, each once.  The first price of *)
(* the page and the state of the market are left out.                          *)
EXTENDS Naturals, Sequences, FiniteSets, SequencesExt

CONSTANTS
    Intervals,
    Buckets,     \* numbers, in the order of time
    FirstBucket, \* bound: the bucket of the first trade
    MaxEvents,   \* bound: trades that happen
    MaxQueue,    \* 4000, the events the queue keeps
    MaxTape,     \* 500, the trades the tape shows
    MaxChart,    \* 2000, the candles the chart shows
    MaxFetch,    \* 750, the candles asked for; not more than MaxChart
    MaxChanges,  \* bound: changes of the interval and requests for a refresh
    MaxBreaks,   \* bound: connections that end
    None

VARIABLES
    market,    \* trades so far
    candle,    \* of interval and bucket, the number of trades in it
    wire,      \* events sent on the open connection that have not arrived
    source,    \* "open" or "broken"
    interval,
    get,       \* the request for candles whose answer is still wanted
    queue,     \* events that wait to be painted
    timer,     \* a paint is due
    chart,     \* candles on screen
    tape,      \* the newest trades on screen, oldest first
    missed,    \* trades that no open connection carried, or the queue dropped
    newest,    \* of a bucket, the newest candle painted since the chart was fetched
    changes, breaks

vars == <<market, candle, wire, source, interval, get, queue, timer, chart, tape, missed, newest,
          changes, breaks>>

CandleKeys == Intervals \X Buckets

Init ==
    /\ market = 0 /\ candle = [k \in CandleKeys |-> 0] /\ wire = <<>> /\ source = "open"
    /\ interval \in Intervals
    /\ get = [stage |-> "asked", interval |-> interval, candles |-> {}]
    /\ queue = <<>> /\ timer = FALSE /\ chart = {} /\ tape = <<>> /\ missed = {}
    /\ newest = [b \in Buckets |-> 0] /\ changes = 0 /\ breaks = 0

Candle(i, b, n) == [kind |-> "candle", interval |-> i, bucket |-> b, trades |-> n]

\* A trade, and the candle of every interval it falls in.
Trade(b) ==
    /\ market < MaxEvents /\ market' = market + 1
    /\ market = 0 => b = FirstBucket
    /\ candle' = [k \in CandleKeys |-> IF k[2] = b THEN candle[k] + 1 ELSE candle[k]]
    /\ LET events == <<[kind |-> "trade", id |-> market + 1]>>
                     \o SetToSeq({Candle(i, b, candle[i, b] + 1) : i \in Intervals})
       IN IF source = "open" THEN wire' = wire \o events /\ UNCHANGED missed
          ELSE missed' = missed \cup {market + 1} /\ UNCHANGED wire
    /\ UNCHANGED <<source, interval, get, queue, timer, chart, tape, newest, changes, breaks>>

\* Keeping the first n.
Newest_First(events, n) == SubSeq(events, 1, IF Len(events) > n THEN n ELSE Len(events))
\* The last n of what came.
Newest(events, n) == SubSeq(events, IF Len(events) > n THEN Len(events) - n + 1 ELSE 1, Len(events))

\* The queue drops its oldest events past its limit; a paint is set up.
Kept(events) == Newest(events, MaxQueue)

TradesOf(events) == {e.id : e \in {f \in Range(events) : f.kind = "trade"}}

Arrive(n) ==
    /\ source = "open" /\ n \in 1..Len(wire)
    /\ LET events == queue \o SubSeq(wire, 1, n)
       IN /\ queue' = Kept(events)
          /\ missed' = missed \cup (TradesOf(events) \ TradesOf(Kept(events)))
    /\ wire' = SubSeq(wire, n + 1, Len(wire))
    /\ timer' = TRUE
    /\ UNCHANGED <<market, candle, source, interval, get, chart, tape, newest, changes, breaks>>

\* Painting candles of every interval.
Wanted_All(e) == e.kind = "candle"
\* Candles of another interval than the one on screen are skipped.
Wanted(e) == e.kind = "candle" /\ e.interval = interval

\* A candle replaces the one of its bucket; what came last counts.
Merged(shown, events) ==
    FoldLeft(LAMBDA acc, e : {c \in acc : c.bucket # e.bucket} \cup {e}, shown, events)

\* The candles of the n latest buckets.
Latest(candles, n) == {c \in candles : Cardinality({d \in candles : d.bucket > c.bucket}) < n}

\* The chart keeps its latest candles and the tape its newest trades; what is
\* past their limits is gone from the screen.
Flush ==
    /\ timer /\ timer' = FALSE
    /\ LET candles == SelectSeq(queue, Wanted)
       IN /\ chart' = Latest(Merged(chart, candles), MaxChart)
          /\ newest' = [b \in Buckets |->
                FoldLeft(LAMBDA acc, e : IF e.bucket = b THEN e.trades ELSE acc, newest[b], candles)]
    /\ tape' = Newest(tape \o SelectSeq(queue, LAMBDA e : e.kind = "trade"), MaxTape)
    /\ queue' = <<>>
    /\ UNCHANGED <<market, candle, wire, source, interval, get, missed, changes, breaks>>

-------------------------------------------------------------------------------
(* Candles are fetched for an interval, and again when the chart is refreshed. *)

GetServed ==
    /\ get # None /\ get.stage = "asked"
    /\ LET stored == {Candle(get.interval, b, candle[get.interval, b]) :
                      b \in {c \in Buckets : candle[get.interval, c] > 0}}
       IN get' = [get EXCEPT !.stage = "served", !.candles = Latest(stored, MaxFetch)]
    /\ UNCHANGED <<market, candle, wire, source, interval, queue, timer, chart, tape, missed, newest,
                   changes, breaks>>

\* The answer takes the place of what is on screen, newer or not.
GetArrives ==
    /\ get # None /\ get.stage = "served"
    /\ chart' = get.candles /\ get' = None
    /\ newest' = [b \in Buckets |-> 0]
    /\ UNCHANGED <<market, candle, wire, source, interval, queue, timer, tape, missed, changes, breaks>>

GetFails ==
    /\ get # None /\ get' = None
    /\ UNCHANGED <<market, candle, wire, source, interval, queue, timer, chart, tape, missed, newest,
                   changes, breaks>>

AskFor(i) == [stage |-> "asked", interval |-> i, candles |-> {}]

\* Leaving the request of the other interval its effect.
Abandoned_Not(i) == IF get # None THEN get ELSE AskFor(i)
\* A request whose interval was left has no effect; another is made.
Abandoned(i) == AskFor(i)

Refresh ==
    /\ changes < MaxChanges /\ changes' = changes + 1
    /\ get' = Abandoned(interval)
    /\ UNCHANGED <<market, candle, wire, source, interval, queue, timer, chart, tape, missed, newest,
                   breaks>>

\* Emptying the queue with the timer.
QueueLeft_Empty == <<>>
\* The queue stays for the paint the new stream sets up.
QueueLeft == queue

\* Another interval empties the chart; the paint and the stream are set up anew,
\* and what was on its way is lost with the old connection.
ChangeInterval(i) ==
    /\ i # interval /\ changes < MaxChanges /\ changes' = changes + 1
    /\ interval' = i /\ chart' = {} /\ newest' = [b \in Buckets |-> 0]
    /\ get' = Abandoned(i)
    /\ timer' = FALSE /\ queue' = QueueLeft
    /\ source' = "broken" /\ missed' = missed \cup TradesOf(wire) /\ wire' = <<>>
    /\ UNCHANGED <<market, candle, tape, breaks>>

\* The connection ends: overloaded, draining or lost.
Breaks ==
    /\ source = "open" /\ breaks < MaxBreaks /\ breaks' = breaks + 1
    /\ source' = "broken" /\ missed' = missed \cup TradesOf(wire) /\ wire' = <<>>
    /\ UNCHANGED <<market, candle, interval, get, queue, timer, chart, tape, newest, changes>>

\* The browser connects again; nothing is asked for from where it was.
Reconnects ==
    /\ source = "broken" /\ source' = "open"
    /\ UNCHANGED <<market, candle, wire, interval, get, queue, timer, chart, tape, missed, newest,
                   changes, breaks>>

Next ==
    \/ \E b \in Buckets : Trade(b)
    \/ \E n \in 1..Len(wire) : Arrive(n)
    \/ \E i \in Intervals : ChangeInterval(i)
    \/ Flush \/ GetServed \/ GetArrives \/ GetFails \/ Refresh \/ Breaks \/ Reconnects

Spec == Init /\ [][Next]_vars

-------------------------------------------------------------------------------
(* Properties.                                                                 *)

\* Every candle on screen is of the interval on screen, one for a bucket,
\* whatever was queued or asked for when the interval changed.
ChartIsOne ==
    /\ \A c \in chart : c.interval = interval
    /\ \A c, d \in chart : c.bucket = d.bucket => c = d

\* A candle painted after the chart was fetched stays until a newer one of its
\* bucket comes or a full chart of later ones leaves it no room, and none is
\* ahead of the market.
ChartIsNew ==
    /\ \A b \in Buckets :
        newest[b] > 0 =>
            \/ \E c \in chart : c.bucket = b /\ c.trades = newest[b]
            \/ Cardinality({c \in chart : c.bucket > b}) = MaxChart
    /\ \A c \in chart : c.trades <= candle[interval, c.bucket]

\* Trades that newer ones have pushed off the tape: those before a full one.
PushedOff == IF Len(tape) = MaxTape THEN 1 .. Head(tape).id - 1 ELSE {}

\* The tape has the newest trades in order, each once: after its first and up to
\* its last trade only those are missing that no open connection carried or that
\* the full queue dropped, and before its first none else unless it is full.
TapeIsWhole ==
    LET accounted == TradesOf(tape) \cup missed \cup PushedOff
    IN /\ \A m, n \in DOMAIN tape : m < n => tape[m].id < tape[n].id
       /\ tape # <<>> => 1..Last(tape).id \subseteq accounted
       /\ TradesOf(tape) \cap missed = {}
       /\ (queue = <<>> /\ wire = <<>>) => 1..market = accounted

PageIsTrue == ChartIsOne /\ ChartIsNew /\ TapeIsWhole
===============================================================================

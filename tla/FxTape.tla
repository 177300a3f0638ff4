------------------------------- MODULE FxTape -------------------------------
(* The SOL price tape: how the feed builds it from the swaps of reference   *)
(* pools (fervor-feed-rs fx.rs, build_fx_tape) and how the backend checks   *)
(* and reads it (marketData/fxTape.ts).  The two are written in different   *)
(* languages and each re-derives the other's numbers; a replay prices every *)
(* trade from what the second makes of the first's output.                  *)
(*                                                                          *)
(* An observation is [pool, at, sol, stable]: one approved swap.            *)
EXTENDS Integers, FiniteSets, FiniteSetsExt

CONSTANTS
    Observations,   \* the swaps that may be heard
    Bucket,         \* FX_BUCKET_MS
    MaxAge,         \* FX_MAX_AGE_MS
    MinStable,      \* MIN_STABLE_RAW
    Scale,          \* micro-dollars: what a whole SOL's lamports are to one
    MaxHeard,       \* bound: observations on one tape
    LastTime        \* bound: the moments a price is asked for

VARIABLE heard      \* the observations the tape is built from

Bps == 10000
MaxObservationBps == 500
MaxPoolBps == 200

MicroUsd(stable, sol) == (stable * Scale) \div sol
PriceOf(o) == MicroUsd(o.stable, o.sol)
Distance(a, b) == IF a > b THEN a - b ELSE b - a
WithinBps(value, center, max) == Distance(value, center) * Bps <= center * max

\* The median of a bag of prices, given as a function; the k-th smallest is
\* the price that fewer than k lie below and at least k do not exceed.
Ranked(price, k) ==
    CHOOSE v \in {price[x] : x \in DOMAIN price} :
        /\ Cardinality({x \in DOMAIN price : price[x] < v}) < k
        /\ Cardinality({x \in DOMAIN price : price[x] <= v}) >= k
Median(price) ==
    LET n == Cardinality(DOMAIN price)
    IN IF n % 2 = 1 THEN Ranked(price, (n + 1) \div 2)
       ELSE (Ranked(price, n \div 2) + Ranked(price, n \div 2 + 1)) \div 2


-----------------------------------------------------------------------------
(* build_fx_tape                                                             *)

BucketOf(o) == (o.at \div Bucket) * Bucket

\* The swaps of one pool in one bucket: those near their median, if together
\* they are of some size, priced by volume.
Near(S) == {o \in S : WithinBps(PriceOf(o), Median([p \in S |-> PriceOf(p)]), MaxObservationBps)}
Pool(S) ==
    LET near == Near(S)
        sol == MapThenSumSet(LAMBDA o : o.sol, near)
        stable == MapThenSumSet(LAMBDA o : o.stable, near)
    IN [accepted |-> near, enough |-> near # {} /\ stable >= MinStable, stable |-> stable,
        price |-> IF near = {} THEN 0 ELSE MicroUsd(stable, sol)]
Pools(S) ==
    {p \in {Pool({o \in S : o.pool = name}) : name \in {o.pool : o \in S}} : p.enough}

SpreadBps(pools, price) ==
    ((Max({p.price : p \in pools}) - Min({p.price : p \in pools})) * Bps) \div price
AcceptedBy(pools) == UNION {p.accepted : p \in pools}

Point(S, bucket) ==
    LET pools == Pools(S)
        price == Median([p \in pools |-> p.price])
        last == Max({o.at : o \in AcceptedBy(pools)})
    IN [bucket |-> bucket, pools |-> pools, price |-> price,
        spread |-> SpreadBps(pools, price), observedAt |-> last, validUntil |-> last + MaxAge]
\* A bucket whose pools disagree says nothing.
Says(S) ==
    LET pools == Pools(S)
    IN pools # {} /\ (Cardinality(pools) > 1 =>
                        SpreadBps(pools, Median([p \in pools |-> p.price])) <= MaxPoolBps)

InBucket(bucket) == {o \in heard : BucketOf(o) = bucket}
Tape == {Point(InBucket(b), b) : b \in {x \in {BucketOf(o) : o \in heard} : Says(InBucket(x))}}

-----------------------------------------------------------------------------
(* FxTapeSource                                                              *)

\* indexPoint: what the reader checks of a point before it serves any.
Readable(point) ==
    LET price == Median([p \in point.pools |-> p.price])
        of == AcceptedBy(point.pools)
    IN /\ point.price > 0 /\ point.price = price
       /\ point.spread = SpreadBps(point.pools, price)
       /\ point.bucket % Bucket = 0
       /\ \A o \in of : point.bucket <= o.at /\ o.at < point.bucket + Bucket
       /\ point.observedAt = Max({o.at : o \in of})
       /\ point.validUntil = point.observedAt + MaxAge
       /\ MapThenSumSet(LAMBDA p : Cardinality(p.accepted), point.pools) = Cardinality(of)

\* getUsd: the last point observed by then, if it still holds.  The tape is
\* ordered by bucket, so the binary search finds the last such point.
\* A plausible slip: a point is served from the start of its bucket.
KnownBy_Bucket(point, at) == point.bucket <= at
KnownBy(point, at) == point.observedAt <= at
Found(at) == {x \in Tape : KnownBy(x, at) /\ \A y \in Tape : KnownBy(y, at) => y.bucket <= x.bucket}
GetUsd(at) == {x \in Found(at) : at <= x.validUntil}

\* getChartUsd: a chart may show the whole bucket it is in.
GetChartUsd(at) ==
    IF GetUsd(at) # {} THEN GetUsd(at)
    ELSE {x \in Tape : x.bucket <= at /\ at < x.bucket + Bucket}

-----------------------------------------------------------------------------
FxInit == heard = {}
Hear == \E o \in Observations \ heard : Cardinality(heard) < MaxHeard /\ heard' = heard \union {o}
FxNext == Hear
FxSpec == FxInit /\ [][FxNext]_heard

Moments == 0 .. LastTime

\* Every tape that can be written can be read.
TapeIsReadable == \A point \in Tape : Readable(point)

\* A price asked for at a moment rests on swaps of that moment or earlier,
\* the last of them no older than the tape allows, and there is one answer.
NothingFromTheFuture ==
    \A at \in Moments : \A x \in GetUsd(at) :
        /\ GetUsd(at) = {x}
        /\ \A o \in AcceptedBy(x.pools) : o.at <= at
        /\ \E o \in AcceptedBy(x.pools) : o.at + MaxAge >= at

\* The price lies within the prices that were accepted, and what was accepted
\* of a pool spans no more than the tolerance on either side of its median.
PriceIsWithin ==
    \A x \in Tape :
        LET prices == {PriceOf(o) : o \in AcceptedBy(x.pools)}
        IN Min(prices) <= x.price /\ x.price <= Max(prices)

\* The tape is fit to replay from (fx.rs build_fx_tape, fxTape.ts getUsd).
TapeIsTrue == TapeIsReadable /\ NothingFromTheFuture /\ PriceIsWithin
=============================================================================

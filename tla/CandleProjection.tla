-------------------------- MODULE CandleProjection --------------------------
(***************************************************************************)
(* How trades become candles.  Workers of one group take batches of trade  *)
(* entries, new or left by another worker; one transaction inserts the     *)
(* trades it has not seen into candle_projection_events, folds them into   *)
(* one contribution and merges that into the row of the candle; then the   *)
(* rows are published, and the entries acknowledged one by one.            *)
(*                                                                         *)
(* One bucket of one token is modelled.  A trade is its event key.  Volume *)
(* and counts are sums and high and low are extremes of what was added, so *)
(* how often each trade was added stands for them; open and close are the  *)
(* trades they were taken from.  Every trade has its position on the       *)
(* chain, as all but fixtures have.                                        *)
(***************************************************************************)
EXTENDS Integers, FiniteSets

CONSTANTS
  SeenAt,           \* when each trade was observed; its domain are the trades
  ChainPos,         \* its position: slot, transaction, instruction, event
  Projectors,       \* candle workers
  BatchSize         \* REDIS_STREAM_BATCH_SIZE

CandleTrades == DOMAIN SeenAt

ASSUME CandleAssumption ==
  /\ CandleTrades \subseteq Nat \ {0} /\ IsFiniteSet(CandleTrades)
  /\ SeenAt \in [CandleTrades -> Nat] /\ ChainPos \in [CandleTrades -> Nat]
  /\ BatchSize \in Nat \ {0}

VARIABLES
  toProject,        \* entries of the stream that were not acknowledged
  projected,        \* candle_projection_events
  candle,           \* the row of the candle
  published,        \* the last candle on the stream of candles
  projector         \* the workers: their batch, and what they read of the row

CandleVars == <<toProject, projected, candle, published, projector>>

\* open and close are 0 in a row that is not there.
NoCandle == [open |-> 0, close |-> 0, added |-> [t \in CandleTrades |-> 0]]
Waiting == [at |-> "read", batch |-> {}, row |-> NoCandle]

CandleInit ==
  /\ toProject = CandleTrades /\ projected = {}
  /\ candle = NoCandle /\ published = NoCandle
  /\ projector = [p \in Projectors |-> Waiting]

\* Entries that are new, and entries another worker holds for too long: a worker
\* that is slow shares its batch.
ReadBatch(p, batch) ==
  /\ projector[p].at = "read"
  /\ batch # {} /\ Cardinality(batch) <= BatchSize
  /\ projector' = [projector EXCEPT ![p] = [Waiting EXCEPT !.at = "project", !.batch = batch]]
  /\ UNCHANGED <<toProject, projected, candle, published>>

\* tradeOrder: by the position on the chain, then by event key.
TradeOrder(t, u) == ChainPos[t] < ChainPos[u] \/ (ChainPos[t] = ChainPos[u] /\ t < u)

FirstTrade(ts) == CHOOSE t \in ts : \A u \in ts \ {t} : TradeOrder(t, u)
LastTrade(ts) == CHOOSE t \in ts : \A u \in ts \ {t} : TradeOrder(u, t)

\* The order of the row's merge: by time, then by event key.
RowOrder(t, u) == SeenAt[t] < SeenAt[u] \/ (SeenAt[t] = SeenAt[u] /\ t < u)

\* Fault: the trades are added whether or not they were seen.
Accepted_All(batch) == batch

\* ON CONFLICT (idempotency_key) DO NOTHING RETURNING idempotency_key
Accepted(batch) == batch \ projected

\* ON CONFLICT (token_mint, interval_name, bucket_start) DO UPDATE
Merged(row, ts) ==
  IF ts = {} THEN row
  ELSE [open  |-> IF row.open = 0 \/ RowOrder(FirstTrade(ts), row.open) THEN FirstTrade(ts) ELSE row.open,
        close |-> IF row.close = 0 \/ ~RowOrder(LastTrade(ts), row.close) THEN LastTrade(ts) ELSE row.close,
        added |-> [t \in CandleTrades |-> row.added[t] + IF t \in ts THEN 1 ELSE 0]]

\* The transaction; another worker's is before or after it.
Project(p) ==
  LET batch == projector[p].batch IN
  /\ projector[p].at = "project"
  /\ projected' = projected \cup batch
  /\ candle' = Merged(candle, Accepted(batch))
  /\ projector' = [projector EXCEPT ![p].at = "publish", ![p].row = candle']
  /\ UNCHANGED <<toProject, published>>

PublishCandle(p) ==
  /\ projector[p].at = "publish"
  /\ published' = projector[p].row
  /\ projector' = [projector EXCEPT ![p].at = "ack", ![p].row = NoCandle]
  /\ UNCHANGED <<toProject, projected, candle>>

\* One entry after the other.
AckCandle(p) ==
  /\ projector[p].at = "ack"
  /\ \E t \in projector[p].batch :
       /\ toProject' = toProject \ {t}
       /\ projector' = [projector EXCEPT ![p] =
            IF projector[p].batch = {t} THEN Waiting ELSE [projector[p] EXCEPT !.batch = @ \ {t}]]
  /\ UNCHANGED <<projected, candle, published>>

\* Fault: a batch that failed is dead-lettered and acknowledged.
FailBatch_Acks(p) ==
  /\ projector[p].at # "read"
  /\ projector' = [projector EXCEPT ![p] = Waiting]
  /\ toProject' = toProject \ projector[p].batch
  /\ UNCHANGED <<projected, candle, published>>

\* A step fails, and what is left of the batch is dead-lettered, but not
\* acknowledged; or the worker dies.
FailBatch(p) ==
  /\ projector[p].at # "read"
  /\ projector' = [projector EXCEPT ![p] = Waiting]
  /\ UNCHANGED <<toProject, projected, candle, published>>

CandleStep(p) ==
  \/ \E batch \in SUBSET toProject : ReadBatch(p, batch)
  \/ Project(p) \/ PublishCandle(p) \/ AckCandle(p)

CandleNext == \E p \in Projectors : CandleStep(p) \/ FailBatch(p)

CandleSpec == CandleInit /\ [][CandleNext]_CandleVars

CandleTypeOK ==
  /\ toProject \subseteq CandleTrades /\ projected \subseteq CandleTrades
  /\ {candle, published} \subseteq
       [open : CandleTrades \cup {0}, close : CandleTrades \cup {0},
        added : [CandleTrades -> Nat]]
  /\ \A p \in Projectors :
       /\ projector[p].at \in {"read", "project", "publish", "ack"}
       /\ projector[p].batch \subseteq CandleTrades

\* A trade is in the candle once if it was projected and not at all if it was not,
\* however often its entry is taken, shared or dead-lettered; and an entry that is
\* no longer pending is in the candle.
CandleIsTrades ==
  \A t \in CandleTrades :
    /\ candle.added[t] = IF t \in projected THEN 1 ELSE 0
    /\ t \notin toProject => t \in projected

\* A candle is its trades, whatever the batches (candleProjector.ts).
CandlesAreTrades == CandleTypeOK /\ CandleIsTrades

\* The close of a candle is its last trade in the canonical order of trades.
CloseIsCanonical ==
  projected = CandleTrades => candle.close = LastTrade(CandleTrades)
=============================================================================

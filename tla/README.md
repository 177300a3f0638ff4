# Fervor: specifications and proofs

This directory holds TLA+ modules that model Fervor, the TLC configurations that check
them on small instances, and theorems about them that TLAPS proves for every value of
the constants. The models are read from the code under `src/`; each definition is tied
to the lines it stands for in `PROJECT.json` ("map").

Fervor watches trades on Solana launch pads, keeps market state, alerts users, executes
their swaps and limit orders through Jupiter, and replays recorded sessions. Postgres is
the only place where processes meet, apart from Redis streams; almost every hard
question is about who may write a row, or paint a screen, after a call to the outside
world that took too long.

Contents: [Inventory](#inventory), [Modules](#modules), [Runs](#runs), [How the models
are written](#how-the-models-are-written), one section for each group of modules,
[Proofs](#proofs), [Disagreements](#disagreements), [Not modelled](#not-modelled).

## Inventory

| Component | State | Operations | Meets | What makes it hard |
|---|---|---|---|---|
| **Swap execution** `services/execution` | `trade_quotes`, `trade_executions`, `execution_tx_blobs`, `execution_settlements` | submit, broadcast, recoverOne, reconciler batch (claim, transition, settle, release, quarantine) | provider, Solana RPC, database triggers V059/V060 | provider call with an unknown outcome, lease lost while waiting, late answers, chain reorganisation, crash between two writes |
| **Order actions** `services/orders` | `order_intents`, `order_actions`, `action_attempts`, `action_egress`, epoch and circuit rows, order blobs | admit, claim, ready, start, respond, reconcile, defer; gate reserve/invoke/end/release; egress recovery; epoch cutover | provider, observation store | an effect that is possible but unproven; a database commit whose outcome is unknown; session locks; a detached transport |
| **Provider orders** `orderService.ts`, `jupiterTriggerProvider.ts`, `providerMoneySync.ts` | an order's row with its operation fact; the venue's order | activate, edit, cancel, withdraw, sync, claim money | provider, asset ledger | a request that may still take effect; a lapsed lease; syncs that read stale histories |
| **Asset ledger** `services/assets` | journals, evidence, bindings, obligations | post, promote, reverse, open, review, clear | chain evidence, provider money | row locks taken one by one; a check made before a lock |
| **Outbox and notifications** `eventOutbox.ts`, `services/notifications` | `event_outbox`, Redis streams, `notification_deliveries`, attempts | enqueue, claim, publish, mark; begin, claim, defer, apply result; republish | Redis, Telegram, Discord | at-least-once queue against a provider that must not be called twice; token fences; sweeper racing a worker |
| **Alerts** `alert*`, `alert_engine.rs`, `alert_matcher.rs` | `token_alerts`, `alert_events`, two in-memory indexes | edit, merge, load, resync, match, write, rearm | market stream, outbox | stale candidates after an edit; lost index updates; duplicates |
| **Market data** `services/marketData` | rollups, metric events, rolling book, candles | intake, count, bootstrap, deliver, prune; project candle | market stream, store | history counted beside the stream, late trades, restart, slow workers |
| **Metric replay** `metricReplay.ts`, **FX tape** `fx.rs`, `fxTape.ts` | offline artifacts | build, verify, publish; price at a moment | extract | order of files, look-ahead, killed writers |
| **Replay runtime** `services/replay` | run, epoch, cursor, checkpoints, paper wallet | play, pause, step, seek, save, resume, order, fill | recorded session, realtime gateway | a seek while a pull is awaited; failed saves; rival processes |
| **Realtime gateway** `services/realtime` | journal window, client queues, subscriptions | poll owner, seed, push, drain, resume, resync | replay owner, browser | slow clients, overflow, resume over a hole |
| **Market fanout** `marketFanout.ts`, `routes/streams.ts` | one reader, listeners and their queues | subscribe, read, hand out, replace, overflow, drain | Redis, browser | the loop ends as a listener comes; failed reads |
| **Wallets** `services/wallets` | source lease and cursors, events, fanout rows, position | poll live and history, rebuild, publish, redrive | wallet provider | two databases, pages out of order, lease lost in between |
| **Feed** `fervor-feed-rs`: indexer, Pump decoder | raw journal, checkpoint, trade stream, lifecycle of a token | session, accept, decode, publish, quarantine; reconstruct | RPC streams, Postgres, Redis | endpoints that differ, resume at an overlap, events on either side of their cause |
| **Archive** `archive.rs`, `old_faithful.rs`, `corpus`, `replay` | plan, extract, replay directories | inspect, plan, extract, verify, read blocks, publish | remote archive | an archive republished under the reader, broken downloads, damaged files |
| **Schema tools** `db/tools` | history, indexes, migration lock | migrate, inspect, recover | Postgres | killed builds, concurrent recoveries and deployments |
| **Accounts** `routes/auth.ts`, `profile.ts`, `authUserService.ts`, link commands of the bots | users, nonces, link tokens, preferences, two caches | sign in, link, merge, edit | Redis, Telegram, Discord | several queries without a transaction; caches filled from old reads |
| **Web client** `frontend/src` | session and store, trade ticket, live chart and tape, replay view | what a user clicks, what arrives | API, streams | answers of an old session, an old form or an old interval |

What makes each of them correct is stated by its properties, in its section. What is
hard to test in it is listed under "hazards" in `PROJECT.json`, each with the properties
that would catch it.

## Modules

Three kinds: modules of a component, which a reader should start with; modules that give
TLC instances (`MC*`); and modules of proofs (`*Proofs`).

| Module | Is about | Checked through |
|---|---|---|
| `SwapExecution`, refining `SwapPromise` | one swap from its admission to its settlement | `MCSwapExecution`, `MCSwapRace`, `MCEndings` |
| `OrderActions` | the ledger of order actions, the mutation gate, recovery and cutover | `MCOrderActions`, `MCOrderPairs` |
| `ProviderOrders` | an order kept by the provider, and what the row knows of it | `MCFrontDesk` |
| `AssetLedger` | journals, evidence and obligations of a vault | `MCBackOffice` |
| `EventOutbox` | publishers of the outbox | `MCEndings` |
| `NotificationDelivery` | one notification from job to recipient | `MCBackOffice`, `MCOrderActions` |
| `AlertTrigger` | an alert, its two matchers and the writer | `MCMarketFlow`, `MCEndings` |
| `MarketMetrics`, `CandleProjection` | from trades to metrics and candles | `MCMarketFlow`, `MCEndings` |
| `ReplayRun`, refining `ReplaySource` | the owner of a replay | `MCReplayDesk` |
| `ReplayFeed`, built on `ReplaySource` | the feed that reads an owner, and a client | `MCReplayDesk` |
| `MarketFanout` | the reader of the market streams and its listeners | `MCSwapRace` |
| `WalletIndexer` | pollers of a wallet and its position | `MCBackOffice` |
| `FeedIngest`, `PumpLifecycle`, `FxTape`, `MetricReplay` | from what the chain emits to what a replay is priced with | `MCBackOffice` |
| `ArchiveExtract`, `ArchiveBlocks` | taking history from the archive and reading it | `MCBackOffice` |
| `IndexRecovery` | migrations, their failure and its recovery | `MCBackOffice` |
| `Accounts`, `WebSession` | who a user is, on the server and in the browser | `MCFrontDesk`; `MCSwapRace` |
| `TradeTicket` | what the user clicks, and what becomes of it | `MCFrontDesk` |
| `LivePage`, `ReplayView` | what the user sees | `MCSwapRace` |
| `SwapExecutionProofs`, `OrderActionsProofs`, `EventOutboxProofs`, `NotificationDeliveryProofs` | proofs about the module of that name | - |
| `DeskProofs`, `BackOfficeProofs`, `MarketProofs`, `ReplayProofs` | proofs about `ProviderOrders`, `TradeTicket` and `Accounts`; `AssetLedger` and `IndexRecovery`; `AlertTrigger`, `MarketMetrics` and `CandleProjection`; `ReplayRun` and `ReplayFeed` | - |

How they compose. Swaps: the tables of `SwapExecution` implement `SwapPromise`. Replay:
`ReplayRun` implements `ReplaySource`, and `ReplayFeed` is built on `ReplaySource`
alone, so what is shown of the feed holds over the real owner (assume and guarantee);
`ReplayView` takes from the feed what `ReplayFeed` shows of it. Outbox:
`NotificationDelivery` and `AlertTrigger` take from the outbox what `EventOutbox` shows:
a row is appended, possibly more than once, or visibly failed. Streams: `LivePage` takes
from a connection what `MarketFanout` shows. Money: `ProviderOrders` claims movements in
the ledger, whose own rules are in `AssetLedger`. Files: `MetricReplay` reads what
`FxTape` and `ArchiveExtract` make.

## Runs

| Run | Instance | Shows |
|---|---|---|
| `SwapRow` | 1 key, 1 quote, a client, a recovery worker, a batch, 2 broadcasts, reorganisations, slow holders | `ReportsAreTrue`, `NeverTakenBack`; the tables refine `SwapPromise` (`KeepsPromise`) |
| `SwapRace` | parts *race* (2 keys, one sponsored quote, 2 clients, 2 batches, 1 broadcast), *session*, *fanout*, *page* and *view*, listed in `MCSwapRace` | `QuoteSpentOnce`, `NothingSentIsLost`; `PagesAreTrue` |
| `SwapRefusal` | a sponsored row, a client, a worker, 2 broadcasts | disagreement of code and comment |
| `OrderGate` | parts *gate* (one signed action, two gates, three epochs) and *notice* (a delivery, a worker, one attempt, one deferral), with fairness | `CallsAreSafe`, `CalledInEpoch`, `CutoverUnblocked`, `ReservationEnds`; `DeliveryEnds` |
| `OrderPairs` | a signed action and a write of one order with two gates; a chain check and a write that depends on it | `NoOvertaking`, `DivergenceBlocks`, `ChildNeedsSuccess` |
| `Endings` | parts *outbox* (an event, three publishers, three attempts), *metrics* (a trade, a worker that dies now and then), *alerts* (the alert and the matcher's index), *swap* (one row), with fairness | `StreamIsTrue`, `EventsSettle`; `CommittedIsDelivered`; `IndexFollows`; `FinalIsReported` |
| `MarketFlow` | parts *metrics* (two trades, two workers, four moments), *candles* (three trades, batches of two, two workers), *alerts* (two definitions, two generations, a tick), *twice* (one definition, two ticks, two candidates) | `RollupIsTrades`, `MetricEventsAreTrue`; `CandlesAreTrades`; `FiresOnceAsDefined` |
| `CandleClose` | as `MarketFlow` | disagreement of code and README |
| `ReplayDesk` | parts *run* (two trades, one paper order, two epochs, two saves, crashes, a rival), *calm* (the same without paper orders, fair), *feed* (three trades, two epochs, a journal of two frames, a queue of one, a client), *poll* (the feed alone, fair) | `RestIsSavable`, `SessionsAreOneHistory`, `RunKeepsPromise`, `CalmMutationsEnd`; `FeedIsWhole`, `PollCatchesUp` |
| `FeedEvict` | as *feed* | disagreement of code and README |
| `BackOffice` | ten parts, listed in `MCBackOffice` | `AtMostOnce`, `DeliveryIsTrue`, `AttemptsAreTrue`, `FinalStays`; `LedgerIsTrue`; `TapeIsTrue`; `CorpusIsTrue`; `RecoveryIsTrue` |
| `FrontDesk` | parts *accounts*, *ticket*, *orders* and *fills*, listed in `MCFrontDesk` | `AccountsAreTrue`; `TicketIsTrue`; `OrderIsTrue` |

A run may hold several *parts*: instances that share no state, of which every behaviour
picks one in its first state while the others rest. A property of a part begins with
`part = ...`. `BackOffice` and `SwapRace` keep the variables of most of their parts in
common slots `s1`, `s2`, ..., which are `Off` where a part has fewer. This is a matter of
running TLC only: nothing is synchronised by it, and every module can be run by itself.
A property of such a run is a conjunction of what its modules state under names of their
own.

Deadlock is checked in `OrderGate` and `OrderPairs`, where the world always goes on (a
notice at its end may stutter). Elsewhere the system may rest: rows are final, bounds
are used up, nobody clicks.

## How the models are written

- A database transaction or statement is one action; an `await` of anything else ends
  one. Actions never span a call to a provider, the RPC node or Redis.
- Where an operation takes row locks one after the other and the order matters
  (`AssetLedger`, `IndexRecovery`) each lock is a step.
- A fresh UUID is stood for by what it is unique to: the claimant's name, the number of
  the claim, the number of the click.
- Crashes, lost answers and errors before or after a commit are actions wherever the
  code would meet them; what a process had in memory is then gone.
- *External* definitions (providers, the chain, the archive) do anything that the code
  under `src/` does not exclude; what is assumed of them is said in the section.
- History variables and flags (`accepted`, `reached`, `missed`, `crossed`, `behind`,
  `blurred`, `mixed`, ...) are only written, never read by a guard. A flag marks a hole
  the code really has, so that a property can say precisely what holds outside it. Each
  is explained in its section.
- Next to some definitions stands a variant `Name_Slip` with a comment that calls it a
  plausible slip or a fault: the definition with a guard dropped or an order swapped.
  They are not part of any specification. Each was put in the place of its definition
  once, and the run of the property then finds the error; "mutants" in `PROJECT.json`
  lists which.
- Bounds are constants called `Max...` (`EpochBound`, `SaveBound`, `LastTime`) and are
  named in the guards they cap.

## SwapExecution

A swap is one row of `trade_executions`. Three kinds of claimant write it without
holding a lock across a call: client handlers (`ExecutionService.submit`), recovery
workers (`recoverOne`) and reconciler batches (`ExecutionReconciler.runBatch`). A claim
writes an operation token and a lease; every later UPDATE names the token, some also
require the lease to be live.

| Model | Code |
|---|---|
| `quote`, `exec`, `blob`, `evidence` | the four tables; `exec[k]` keeps the columns a guard reads |
| `proc[p]` | the locals of one `submit` or `recoverOne` call and where it stands |
| `batch[b][k]` | the task a batch holds for a row, with the columns read at claim time |
| `sent`, `chain`, `erred` | external: the provider forwarded the transaction; its place on chain; some fork failed it |
| `Prepare`, `AdmitExisting/New/Refused`, `ClaimSubmit` | `prepareBlob`, the admission transaction, the claim in `broadcast` |
| `ClaimRecovery`, `MarkRecovery` | `claim_execution_blob` (V059) and `markRecovery` |
| `StartBroadcast`, `Reply*` | `runClaimed`: the fenced count increment, then one action per class of answer |
| `BatchClaim`, `BatchStatuses`, `Row*`, `BatchFails` | `claim`, `getSignatureStatuses` and the tasks of `runBatch`; `RowRefused` is an evidence row the database rejects, which aborts the batch |
| `AmountGuard`, `SettlementGuard` | the triggers of V060 |
| `LeaseExpires`, `BlobLapses`, `QuoteExpires`, `Crash`, `BatchCrash` | time and failures |
| `Deliver`, `Land`, `Deepen`, `Reorg` | external: provider and cluster |

A claimant serves one claim at a time and forgets its token at the end, so the
claimant's name stands for the token. `provider_status` is kept up to what
`priorPossible`, the recovery predicate and the quarantine tell apart; amounts are kept
up to "equal to what the chain shows" or not.

`ReportsAreTrue`: a row with a signature is failed only if the chain executed it with an
error, and a settled row is on chain with the evidence and the verdict the chain gives.
`NeverTakenBack`: what was reported is not revised. `QuoteSpentOnce`: no race of keys
spends a quote twice. `NothingSentIsLost`: what reached the provider has somebody to
look after it.

Bounds. `MaxBroadcasts` caps `broadcast_count`; two are needed and enough for a "prior"
broadcast, since the row keeps only the last status and the count is tested against 0
and 1. One row is enough for everything but the quote, because rows interact only
through it and through a batch that aborts; two keys cover both. A client handler may be
reused, so one client and one worker still give any number of calls in sequence, and two
kinds of process running at once. `Reorgs` and `SlowHolders` are switches: both are on
wherever they can matter for safety.

Fairness in `Endings`: a running call ends, because `EXECUTION_TIMEOUT_MS` bounds every
provider call; leases run out; the reconciler polls every `EXECUTION_RECONCILE_MS` and
orders due rows by `updated_at`, so a row that stays due is claimed again (strong
fairness, since a claim by another batch disables it for a while); the RPC node answers
truthfully infinitely often. Slow holders are excluded because a lease outlives the
calls made under it unless the process stalls for ever. Nothing is assumed about
clients, recovery, the provider or crashes.

## OrderActions

Everything a limit order does to the outside is an `order_actions` row: admitted one at
a time per order, signed if its kind needs it, claimed by a worker under a lease in a
write epoch, started, and settled by evidence alone. Between the start and the evidence
stands one provider call, made by `MutationGate.run` under a durable reservation
(`action_egress`) and a shared session lock on the write scope. A region cutover inserts
the next epoch of the scope.

| Model | Code |
|---|---|
| `action`, `attempt`, `blob`, `facts`, `anomaly`, `order`, `epoch` | the tables; `attempt[a]` is the `action_attempts` row with its `action_egress` row, since an action has one attempt at most; `facts` is the set of current decisive facts |
| `gate[g]` | one `MutationGate.run` call: `pc` is its `GatePhase`, `session` its pinned connection |
| `Admit` ... `Defer` | `OrderActionStore` and `OrderTxStore`, one action per method, with the triggers of V019, V023 and V036-V039 in the guards |
| `Observe`, `ResolveAnomaly` | `ActionObservationStore.observe` with `reduce` and `recordTerminalConflict`; the anomaly trigger of V023 |
| `Reserve`, `GateStart`, `GateTooLate`, `GateNoBudget`, `GateCall`, `GateFinish` | the statements of `reserve` and `invoke`; `GateFinish` also stands for `finishDetached`, because a detached gate keeps its session and only its caller is told |
| `SessionLost`, `GateCrash` | the pinned connection breaks, the process dies |
| `RecoverEgress`, `PurgeBlob` | `recover_action_egress` (V035), `purge_expired_blobs` (V057) |
| `AdvanceEpoch` | the insert guard of `order_epochs` (V031, V033) |
| `BlobLapses`, `LeaseExpires`, `DeadlinePasses` | time; a lease outlives the deadline of a reserved attempt and a blob that of a started one, as the guards demand |
| `Land`, `Truthful`, `Oblige` | external: provider, evidence, asset ledger |

Workers have no names: the fence of an UPDATE names exactly the last claim, so a write
that passes it is one by the last claimant. The lease and epoch parts of the fence are
kept because time and cutovers change them.

`CallsAreSafe`: the provider is called at most once for an action, never after it was
closed unsent, never without its bytes. `CalledInEpoch` has an exception, stated in the
property: a gate whose session broke *and* whose process was held up between its start
fact and the call until the deadline passed may call in the next epoch. The gate
computes its budget before the call and the lost session does not stop the call; the
durable reservation holds a cutover back only until the deadline.

Bounds. The gate protocol is per attempt and attempts meet only in the scope's epoch, so
one action with two gates shows every race of gates; `MaxEpoch` = 3 lets a scope be
closed and opened again. Ordering is a relation of two actions, and evidence a set of
facts, so two actions are enough for it; epochs are left out of `OrderPairs` because
`OrderGate` has them.

Fairness: deadlines pass, `egress-recovery` runs its loop for ever, and a gate with a
reservation goes on; `forward` returns since it is aborted at the deadline. Nothing is
assumed about workers, evidence or operators. Evidence is assumed to be true of writes
(`Truthful`): `NoOvertaking` would fail if a provider confirmed a call it never got.
`ReservationEnds` stops at a recorded response: recovery looks only at attempts without
one, so a reservation whose caller records a timeout first stays open. It harms nothing
once its deadline has passed.

Seen on the way and not covered: the child of a parent that was settled absent can never
be claimed (`orderActionStore.ts:607`); an action in `dispatching` whose worker died
moves only by evidence (`:257`); an action claimed while `queued` can no longer be given
its transaction (`orderTxStore.ts:161`); a swap row whose handler died before its first
broadcast is not claimed by recovery (`V059:199`).

## ProviderOrders

The older, synchronous API keeps the order at the provider and one *operation fact* on
the row: leased, reserved, started, or unknown. A request that was started and whose
caller gave up may still be applied (`late`); only the fact keeps the next one away. A
sync reads the provider's history, proves an unknown fact by it and claims the money it
reports in the ledger.

| Model | Code |
|---|---|
| `row` | the `order_intents` row with its fact |
| `call[u]` | what a request of the owner remembers: `acquireLease`, `reserve`, `start`, the provider call, `recordFailure` |
| `sync[s]` | a run of `sync`: rows read, history read, applied, proved |
| `venue`, `late` | external: the provider's order; a deposit is one signed transaction, so it makes at most one order |
| `claimed` | `providerMoneySync.ts:243`, the only caller of `AssetLedger.claim` |

`OrderIsTrue` says: a request that may still make or end an order is the one the started
fact names; a row without a started fact is right about the venue's order, its price and
the cancellation it awaits; money the row calls filled is in the ledger. An edit is exempt
from the fence: an order that already showed the wanted price proves it.

A sync believes a closed order only when the history shows that what it holds came back
(`TotalsAgree`, `providerMoneySync.ts:181`), so a row becomes `filled` after the venue has
filled *and* returned. One run checks the module in two parts, since all of it at once is
too much. *orders*: the owner is busy. Two requests at a time and a sync cover a lapsed
lease taken over while its first holder still calls; three leases allow an activation, an
edit and a cancel; the venue moves twice by itself. *fills*: the venue is busy. One
request at a time and one lease, two syncs, and four changes at the venue, which are the
least that let it execute an order, fill both units and return them; fewer do for an order
that expires or fails. `PreviousStates` is the code's whole table.

Assumed of the venue: it does not apply a request after a later one of the same order.
The code needs that. An edit that timed out is proved as soon as the order shows the
wanted price, which it may have shown all along, and the next edit may then be made
while the first is still under way; applied after it, the first would leave the row with
a price the venue no longer has. Three leases are too few to show it (it takes five), so
it was found in proving `OrderTrue`, not by a run; the requests carry the token of their
lease to say it.

Not covered: two syncs that prove one fact with different histories (`753-763` updates
without comparing); a sync that throws on one order skips those after it
(`providerMoneySync.ts:140,185`), and it throws for ever on an order that failed before
its deposit landed; a partly filled order can never become expired or cancelled
(`1046-1047`); an outcome nothing proves stays unknown (`827`); a fact whose
process died between start and record stays `started`; a malformed address counts as a
certain failure (`jupiterTriggerProvider.ts:339`).

## AssetLedger

The custody ledger of a vault. A journal is claimed, then promoted by chain evidence,
and may be reversed by another journal; an obligation stays open until a journal or its
evidence clears it. Every operation is a transaction that locks rows one at a time;
`tx[t].locks` are the locks held, and a circle of waiting transactions ends with one
aborted (`Abort`).

`LedgerIsTrue`: a cleared obligation stays proved (`ClearedStands`), a
journal is reversed exactly when its reversal is confirmed (`ReversedInPairs`), the
vault is never overdrawn by confirmed journals (`VaultIsCovered`), and a movement on
chain confirms one journal (`OneEventOneMovement`). What makes them hold is which row is
locked before which check: `clear` locks the journal it relies on (`V006:280`),
`promote` takes the vault after the journal. `reverse` takes accounts before the journal
and `promote` the journal before accounts, so the two can deadlock; the model has it,
and the victim changes nothing.

The instance: a deposit of 2, a withdrawal of 2, the reversal of the deposit, one
obligation a provider claims and two chain events, two transactions at a time: enough
for a withdrawal against a deposit that is being reversed, and for a clearing against a
reversal. `MaxCommits` = 3 commits of more than one lock. The provider's claim is
assumed to name a real event, and a journal has at most one reversal
(`LedgerAssumption`; `asset_journals_reversal_idx`, `V003:52`). The same journal may clear two obligations by different
means (`journal`, `evidence`), as the code allows.

## EventOutbox

Whoever changes the database and must tell another process inserts an `event_outbox` row
in the same transaction. Publishers (`outbox-worker` processes) claim due rows under a
lease, append each to its Redis stream with `publishOnce` and mark it.

| Model | Code |
|---|---|
| `row` | `event_outbox`, keyed by (stream, event_key); `expired` is `lease_until <= NOW()` |
| `seen`, `entries` | the marker `stream:seen:...` and how many stream entries carry the event |
| `task[p][k]` | the `mapConcurrent` callback of `flushDue` for a claimed row, with the attempts the claim returned |
| `Enqueue`, `Claim`, `Prune` | `enqueue`, `claim`, `prune` |
| `Publish`, `PublishErrs` | `publishOnce`; an error may come after the script ran |
| `MarkPublished`, `MarkErrs`, `MarkFailed`, `MarkFailedErrs` | the two UPDATEs and their errors, before or after the commit |
| `Crash`, `LeaseExpires`, `Forget` | a publisher dies; time |

The part *outbox* of `Endings` has one event, three publishers, three attempts and a
marker that expires twice. Rows share nothing but the batch they are claimed in and the
poll order, so one row is enough; three publishers let a first one be late while a
second and a third take over; three attempts let the late one be neither the first nor
the last. `StreamIsTrue`: a published row is on the stream, readers see an event once
for each life of its marker, and a row is called failed only with its attempts spent.
`EventsSettle`: every row settles unless its last allowed attempt was lost: such a row
stays `publishing` for ever, because `claim` asks for `attempts < max` and nothing else
looks at it. A row marked `failed` may be on the stream: when the commit of
`markPublished` fails, the catch block marks the row failed, and at the last attempt
that is final. So `failed` means "not known to be published".

Fairness: leases run out, callbacks return or their process dies (database and Redis
calls time out), and a publisher polls for ever, oldest due rows first, so that a row
that stays due is claimed (strong fairness, since a claim by another publisher disables
this one's).

## NotificationDelivery

A job names an alert event and a channel. `notification-worker` processes read jobs from
the stream as one consumer group; a job not acknowledged for long is handed to another
worker. `handle` finds or creates the delivery row, claims it under a lease, reserves a
rate, calls the provider and applies the answer. The sweep `republishDue` ends lost
leases and gives due retries a new job through the outbox.

| Model | Code |
|---|---|
| `event`, `delivery`, `journal` | `alert_events`, `notification_deliveries`, `notification_attempts` by `claim_seq` |
| `job[d][s]` | the job of a delivery with `retry_seq` s, from its outbox row to its acknowledgement, and its counter `stream:retry:...` |
| `dead` | jobs copied to the dead letter stream |
| `worker[w]` | one slot of `mapConcurrent` in a worker process |
| `received`, `nonce` | external: what the recipient got; whether Discord remembers the nonce |
| `Publish`, `GiveUp` | what `EventOutbox` does with the job: append it, perhaps again once the marker has expired, or fail it |
| `Read`, `Load` ... `ApplyProviderResult`, `Fails` | `readGroup`/`claimStaleGroup`, then the calls of `handle`; a database call may also fail after its commit |
| `Retry`, `Bury`, `ClearRetry`, `Ack`, `Crash` | `processMessage`; a Redis error outside `handle` ends the process |
| `Republish` | `republishDue`, one transaction |
| `LeaseExpires`, `RetryFallsDue`, `NonceForgotten`, `DeleteAlert` | time, and the cascade of `DELETE /alerts/:id` |

A lease token is a fresh UUID made with each `claim_seq` of a row, which stands for it.

Safety is checked in `BackOffice` (one delivery on either channel, two workers, two
attempts, one forgotten nonce), the end of a delivery in `OrderGate` (one worker, one
attempt, one deferral). Deliveries share only the sweep, which treats each by itself, so
one is enough. Two workers give every race of a redelivered job, a late answer and a
fresh claim; the sweep is a third actor. Two attempts give a retry and its exhaustion;
the deferral has a run of its own because it multiplies claims. `AttemptsAreTrue` says
that the attempts of a row are the claims in its journal that were not deferred; the run
checks it without deferrals, and the theorem `AttemptsTrue` covers both together.

What holds on Discord is weaker: a time-out is reported as "no effect" and the message
is sent again, held back by the nonce, which Discord remembers for some minutes.
`AtMostOnce` therefore counts one message more for each time the nonce is forgotten, and
`DeliveryIsTrue` speaks of Telegram where it says that a received message is never shown
as failed. `DeliveryEnds` and `DeliveryIsTrue` allow a delivery to be stranded: its job
ran out of tries on database errors (copied to the dead letters) or out of outbox
attempts (failed row) while the delivery is still pending. Nothing under `src/` picks it
up again, but the record is there for an operator.

Fairness: calls time out, so a worker in `handle` gets on; workers do not crash for
ever; leases run out and retries fall due; every loop of a worker process sweeps before
it reads, so what stays to be swept is swept; stale jobs are taken in order from the
start of the pending list, and fresh ones in stream order, so a job that is again and
again readable is read (strong fairness). Nothing is assumed about the provider.

## AlertTrigger

An alert's row is edited over HTTP and carries a *generation*. A matcher keeps an index
in memory: the Rust one reads updates from a stream from `"$"` on, loads tokens when
they first tick, reloads everything now and then and publishes candidates; the Node one
fires by itself and never reloads. The writer checks a candidate against the row once
more (`alertEventWriter.ts:66`), inserts the event and the notification and disarms the
alert, in one transaction.

| Model | Code |
|---|---|
| `alert`, `defs` | the `token_alerts` row; history: the definition of each generation |
| `requests`, `owed`, `unread` | handlers between commit and `syncAndEmit`; index updates in the outbox; the update stream |
| `matcher`, `pending` | the index, what a resync has read, ticks not matched yet |
| `candidates`, `sent` | candidate stream entries |
| `account`, `MergeAccount`, `DeleteAccount` | `auth.ts:121`: a placeholder account is merged with its alerts, then deleted |

`FiresOnceAsDefined`: whatever was edited, merged, redelivered or published twice
between match and write, an event is of the definition its generation had, by a tick
that satisfies it, and there is one for a generation. `IndexFollows`: with the Rust
matcher the index comes to hold what the row says once the row rests, however many
updates were lost (handler dead after its commit, matcher dead between updates), unless
the handler that created the alert died before the token was monitored. Two
parts of `MarketFlow` check the first. *alerts*: two definitions are enough because a
definition is only "this tick satisfies it", and two generations give an edit or a
re-arming behind a candidate's back; one tick and one candidate. *twice*: one user and
one definition, two ticks that satisfy it and two candidates, so a generation may be
matched twice, a candidate redelivered or published twice, and the writer must see from
the row that it fired (`alertEventWriter.ts:66`).

Fairness (`MatcherFair`): the process is restarted, finishes the loads it began, and its
resync timer fires again and again (strong, as ticks and updates come between). Left out
of the property because the code does not give it: merging accounts moves alerts without
a new generation or an index update; the Node matcher never resyncs.

## MarketMetrics and CandleProjection

Trades are priced, stored, published once on a stream, counted by metric workers in a
rollup and then delivered as a state and a tick. The trades of the last day are first
replayed from the store, under a lease, beside the stream. A trade is a number; what it
adds to volumes, counts and makers is that number, so a bucket of a rolling window is
how often each trade was added to it: doubles, losses and leftovers all show.

| Model | Code |
|---|---|
| `intake`, `trades`, `unacked`, `tries`, `buried` | decoder, tick store, group entries, retries, dead letters |
| `rollup` | `token_metric_rollups`: revision, last trade, and `RollingMetricBook` |
| `metricEvents` | `market_metric_events`, with the input hash (of the stored row or of the stream entry) |
| `boot`, `proc[p]` | the bootstrap lease; a worker: replaying, live, or delivering again |
| `token`, `states`, `ticks` | what was delivered |

`RollupIsTrades`: each trade is in each open window once if it has its event and not at
all if it could still be counted, and the price is the last trade's.
`MetricEventsAreTrue`: history counted by the holder of the lease never becomes a tick,
and what is marked published is there to be read. `CommittedIsDelivered`: a committed
event is delivered or pruned, and an entry is counted or buried. Two trades a unit apart
and windows of one and two units over four moments make a trade enter late, slide out of
the short window and be pruned; one worker may be slow for ever, the other may die.
Candles: batches of two out of three trades, two workers, so batches overlap, are
redelivered and fail half way; `CandlesAreTrades` says that the row contains each
projected trade once. The order of `close` is a disagreement (below).

Fairness: a worker gets on; its deliveries fail and it dies only finitely often; an
abandoned bootstrap lease lapses.

## ReplaySource, ReplayRun, ReplayFeed

`ReplaySource` is the abstract specification: a reader of a replay is served revisions
(epoch, cursor, facts), none comes back within a life of the owner, and nothing is
served while a mutation is active. `ReplayRun` is the owner: coordinator, scheduler,
projection, paper broker and session files. `ReplayFeed` is the API process that polls
an owner.

| Model | Code |
|---|---|
| `owner` | `HistoricalReplayRuntime` with `ReplayCoordinator`, `ReplayScheduler` and `PaperBroker`; `task` is the mutation under way and `via` who asked for it |
| `sessions`, `replays` | the files of `checkpointStore.ts` |
| `shown` | what a reader was last served, the refinement's image |
| `feed` | `ReplayFeed`: base, heads, journal, and where the pull stands |
| `link` | a connection: its `FrameQueue`, the frame on the wire, what the client will resume from |

`RestIsSavable`: whenever the owner rests (and was not stopped by an error), projection
and broker stand at one cut, and what would be saved would be read back.
`SessionsAreOneHistory`: whatever rivals and half-failed writers did, the session files
are one history. `RunKeepsPromise` is the refinement. `CalmMutationsEnd`: a mutation
ends. `FeedIsWhole`: a fresh subscription can always be seeded from the journal, and a
client never misses or sees again a trade without a resync signal before.
`PollCatchesUp`: the feed comes to the owner's revision, *unless* it used up its window
before it found the owner at rest: then `replayFeed.ts:281-284,360` asks for no trades
until the epoch changes.

Two trades are enough for an order to be filled in part and to wait over a latency; two
epochs for a seek to leave something behind; a journal of two frames and a queue of one
for eviction, overflow and resume over a hole. The client subscribes to trades only
(`Streams = {"trade"}`), which are the frames that must not go missing. Fairness: the
owner's own timers and file operations return; the poll loop goes on.

Failures of the owner modelled with their real effect: a seek or step over HTTP that
rejects outside its `try` ends the owner (`replayApi.ts:690-695`); SIGTERM during a seek
leaves no session (`replay-lab.ts:260`); a link that succeeded is reported as failed
(`checkpointStore.ts:150`). An epoch may be used again after a crash, which the module
allows as its README does (`replay/README.md:39`). Not covered: the fact key of a paper
order lacks the epoch (`paperBroker.ts:385`); states whose hash recurs
(`replayFeed.ts:501`).

## MarketFanout

One `XREAD` loop of an API process serves all listeners; it starts with the first and
ends with the last. `PagesAreTrue` (fanout part): while a connection is open there is a
loop for it, whoever left or came as the loop was ending (`SomeoneReads`); from the
first entry of a stream that a listener is handed, none is left out across failed reads
(`NothingSkipped`); a connection takes what it was handed in order and ends rather than
skips, except states, which replace one another (`InOrder`). `NothingSkipped` begins at
the first entry because until then the id is `$`, which Redis resolves anew at each
`XREAD` (`marketFanout.ts:164`): entries added between two reads of a stream that has
been silent are lost. Two listeners, two streams, three entries and a queue of two.

## WalletIndexer

A poller leases a wallet in the core database and walks its history in both directions,
writing events and a position to the market database. No transaction spans the two; a
fenced heartbeat inside the market transaction stands in for one.

| Model | Code |
|---|---|
| `row`, `poll[w]` | `wallet_sources` with lease and cursors; the locals of `poll` |
| `stored`, `fanned`, `stream` | `wallet_events`, `wallet_event_fanout`, the stream |
| `applied` | the events behind the projection since it was emptied; the tables hold `Position(applied)`: lots first in first out, costs, unpriced and transferred amounts |

`WalletIsTrue` (in `TapeIsTrue`): a complete wallet's position is that of all stored events
in canonical order (`PositionIsHistory`), no event the cursors have passed is missing or
unannounced (`NothingSkipped`), and lots, cost and consumption add up to what was paid
(`TablesAddUp`). Four events, two of one slot that a page cuts in two, pages of two, two
pollers of which one may be held up past its lease, three polls. Not covered: a token
whose decimals change stops its wallet (`walletProjectionRepository.ts:334`).

## FeedIngest, PumpLifecycle, FxTape, MetricReplay

The way from the chain to the numbers a replay is priced with.

- `FeedIngest`: sessions over rotating endpoints, the raw journal with its checkpoint,
  decoders, the trade stream and dead letters. Every transaction that a resumed
  subscription will not send again is published or dead-lettered, and nothing is told
  that is not journaled, although endpoints may serve other bytes. The source delivers
  at most two slots out of order (`ReplaySlots`), which is an assumption: one that is
  later is lost. Losses the module has and does not hide: what comes between the first
  subscription and the first accepted event; changed bytes end the session until the
  endpoint rotates. Not covered: several indexers with one checkpoint, trimming by
  MAXLEN, the backoff that is never reset.
- `PumpLifecycle`: `PumpProjection::reconstruct` over any five events of a mint, all
  orders. An accepted history completes once, beside the trade of the same instruction
  that emptied the curve, and comes out the same on whichever side of it the completion
  is read.
- `FxTape`: `build_fx_tape` over any subset of eight swaps of two pools (thin,
  simultaneous, at a boundary, stale) and the reader that checks it again in another
  language. What is written can be read, a price at a moment rests on nothing later, and
  lies within what was accepted.
- `MetricReplay`: the offline projection of an extract. For tapes of distinct trades in
  any order the counts, windows, candles and coverage are those of the set; a published
  curve ends as its phase says; an output is whole and one writer's, whoever is killed.
  (A tape that repeats a trade: see Disagreements.)

`TapeIsTrue` is their conjunction, with `WalletIsTrue`.

## ArchiveExtract and ArchiveBlocks

`ArchiveExtract`: `fervor-corpus` inspects the archive's slot index, writes a plan,
takes the header and the ranges of the selected slots, resuming a broken download, and
publishes a directory by rename; `fervor-replay` verifies it and builds a replay. The
archive may be published anew at any moment (three editions: other offsets, other
length), its answers stop early or come from another place, the disk rots, a run is
killed. `CorpusIsTrue`: a published extract is the header and the selected blocks, each
byte once, of the plan's edition; the download ceiling holds; a replay is of exactly the
selected blocks. A byte is its edition and place. Assumed: an archive that is published
anew has another length; the same length in mid-extract would not be noticed
(`archive.rs:368`). Not covered: `inspect` shares one meter with its retry (`226`),
check-then-rename of the plan (`668`), stage names that differ by pid only
(`replay.rs:124`).

`ArchiveBlocks`: `old_faithful.rs` over a file of two blocks with a chained frame,
changed twice by any loss, insertion or damage. It is read as what was written or not at
all: every transaction of a file that is read comes out once, in place, with its own
bytes. The module has a recursive operator and is used by TLC only.

## IndexRecovery

Migrations that build indexes without a transaction, and `recover-indexes.mjs`. Every
Flyway command takes the advisory lock when it connects (`core.conf:18`) and frees it at
its end, so between two commands of one recovery anything may happen; a killed run
leaves no history row and a session that may still be building. `RecoveryIsTrue`: an
index that a migration on record has built stays whole until a later migration takes it
in hand (`BuiltStands`), the history has no gap and one failure at most, and what was
called recovered is on record. It rests on the second reading of the history under the
lock (`recover-indexes.mjs:529`). Three migrations, of which two share an index as V008
and V009 do; two processes, each an operator or a deployment.

## Accounts and WebSession

`Accounts` has sign-in, links to Telegram and Discord and the two caches, each request a
sequence of queries that may end after any of them. `AccountsAreTrue`: a merge of the
placeholder of a Discord account loses no alert and deletes no other row, however many
requests do it and wherever they stop; a chat or Discord account is on one row and a
nonce signs in once; and a cache is right except in the windows the property names.
These windows (`blurred`) are real: a load that races an invalidation puts the old row
back (`authUserService.ts:59-66`), and a Telegram link invalidates preferences only
(`telegramBotService.ts:132`). Also seen: two overlapping `getNonce` leave two valid
nonces; alerts and the link of one Discord account can end at different wallets when two
link it at once (`auth.ts:119-149`); two Telegram tokens of one wallet overwrite each
other.

`WebSession` is the browser: each tab's user and token, what its requests carry, and the
store all tabs share. Answers are applied to the page as it is when they arrive. Shown:
a page sends the token it shows and shows that token's user, the store agrees, a tab
loaded after a sign-out stays signed out, and a linked profile is shown in the end -
outside two real holes, which set `crossed`: a 401 to a request of an old session clears
the current one (`api.ts:465-472`), and a late `getCurrentUser` puts the old user beside
the new token (`AuthContext.tsx:164-167`). Two tabs, two users, four requests, one
reload. `PagesAreTrue` (session part) states it (`SessionIsTrue`).

## TradeTicket

The ticket's handlers run over several awaits with the values captured at the click
while form and wallet stay live. `TicketIsTrue`: a quote leaves the page under one key
and as one set of bytes, its own (`OneSubmission`); what is kept is about the quote on
screen and the quote about the form, unless the form was edited while it was fetched
(`TradeTicket.tsx:448`; `late`); the provider token is the connected account's, unless
the wallet was switched while it was fetched (`:415`; `crossed`); an order the user was
told of exists and is on screen (`ToldIsShown`). Also in the model, and worth
noting: switching the wallet drops the token but not the quote, so the new
wallet signs the old taker's swap; an order whose answer was lost is created a second
time by a retry, under a new client id (`:503`).

Assumed: capabilities are loaded before the first click; provider authentication and
signatures are required. Two forms, two accounts, three clicks and one change: a
preview, a submit and a retry or a cancel, with one edit or switch anywhere between.

## LivePage and ReplayView

`LivePage`: the event stream of a token's page, its paint queue, and the candles fetched
for the interval on screen. The chart is of one interval, one candle for a bucket, never
ahead of the market, and never behind a candle painted since the fetch unless a full chart
of later buckets left it no room; the tape is in order, each trade once. After its first
trade it lacks only trades in `missed`: those no open connection carried (changing the
interval reconnects, and a reconnect fetches nothing) or that the full queue dropped.
Before its first trade it lacks nothing else either unless it is full (`PushedOff`).

The caps of the page are constants: `MaxTape` (500, `TradingTerminal.tsx:582`), `MaxChart`
(2000, `:586`), `MaxQueue` (4000, `:596`), and `MaxFetch` for the candles of one answer
(750, `:534`). The instance has a tape of two, a chart of two and an answer of one candle
before three buckets, three trades and a queue of four events, so each of them cuts
something off. `FirstBucket` only fixes the bucket of the first trade, the middle one;
later trades fall before it and after it.

`ReplayView`: frames over a socket, batched by a worker, pages of history, and the
answers of the controls put together one view. The participants shown are what the
server would say of the same cut; the candles count the tape; nothing is shown before
the run has played it in the epoch on screen - except for a batch that holds trades of
an old epoch before a snapshot (`TradingTerminal.tsx:779-803`; `mixed`). Receiving and
handling a batch is one step.

## Proofs

Eight modules hold the theorems. Each states its assumptions by name, has an inductive
invariant, a lemma for each action and part that it can disturb, and closes with PTL.
The constants are arbitrary: any number of actors, rows, trades and epochs, any bounds.
What a run shows on its instance and a theorem shows always:

| Property | Theorem | Property | Theorem |
|---|---|---|---|
| `ReportsAreTrue` | `ReportsTrue` | `AtMostOnce` | `SentAtMostOnce` |
| `QuoteSpentOnce` | `QuotesAreSpentOnce` | `DeliveryIsTrue` | `DeliveryTrue` |
| `NothingSentIsLost` | `SentIsKept` | `AttemptsAreTrue` | `AttemptsTrue` |
| `NeverTakenBack` | `AnswersStand` | `FinalStays` | `FinalForever` |
| `KeepsPromise` | `PromiseKept` | `StreamIsTrue` | `RowsTellTheStream` |
| `CallsAreSafe` | `SafeCalls` | `FiresOnceAsDefined` | `AlertsFireOnce` |
| `CalledInEpoch` | `CallsInEpoch` | `RollupIsTrades` | `RollupTrue` |
| `NoOvertaking` | `NothingOvertakes` | `MetricEventsAreTrue` | `MetricEventsTrue` |
| `DivergenceBlocks` | `DivergenceIsBlocking` | `CandlesAreTrades` | `CandlesTrue` |
| `ChildNeedsSuccess` | `ChildrenWait` | `SessionsAreOneHistory` | `SessionsOneHistory` |
| `OrderIsTrue` | `OrderTrue` | `LedgerIsTrue` | `TrueLedger` |
| `TicketIsTrue` | `TrueTicket` | `RecoveryIsTrue` | `TrueRecovery` |
| `AccountsAreTrue` | `TrueAccounts` | | |

`SwapExecutionProofs` (the kinds of actors are disjoint and none is `Nobody`; `NoRow` is
no row or quote). `Invariance` is the invariant. A row is failed or settled on what a
claimant learnt before, so `Inv` adds what claimants know. `ProcInv`: a call in progress
is about a row that was broadcast, and while its token is on the row the row is `signed`
with the signature read when the call began. `TaskInv`: a task's row has a signature,
and an error it is about to report happened on chain. `RowInv`: what each row state
presupposes. `SettledInv`: the settlement is stored as evidence, visible on chain, and
carries the verdict for the row's amounts. For what a step may do (`AnswersStand`,
`PromiseKept`) it is first shown once, as `Tells`, that every step either leaves answers
and chain alone, or moves or admits one row as its status allows, or only changes the
chain; both the action property and the refinement then follow from `Tells` without
looking at the actions again.

`OrderActionsProofs` (`KindAssumption`, `ParentAssumption`, `EpochAssumption` are what
the schema demands). `ActionsInvariance` is the invariant; beside the type it has four
parts. `CallInv`: until the call starts the row's phase is in `Unsent` and nothing was
called; only a call has an effect; an attempt exists only where the parent had
succeeded. `TurnInv`: versions number the actions of an order, and when one is started
those before it are done. `ProofInv`: evidence of a write is true, so a write is done
only after its call (which ties the order of *records* to the order of *calls*), and a
divergence has its anomaly. `GateInv` and `Apart`: a gate that may still call is the
only one for its action, its reservation is where it left it or was closed by recovery,
its bytes are not purged, and its session or the authorization keeps the epoch in place.
A purge shows how they need each other: it needs a done action, which by `ProofInv` was
called, which by `GateInv` and `CallInv` no gate before its call is about.

`DeskProofs`, the provider's order (prices, units and bounds as the module assumes).
`OrderInvariance` is the invariant. `TokenInv` and `OwnerInv`: tokens are unique and
grow, and a call that may reach the venue is the holder of the started fact. `RowInv`:
the row is right about the venue, except for the one thing a started operation of that
kind may have changed. `EffectInv`: the request the venue answered to is
still the one it holds when the caller writes it down (the order may have gone on since,
or failed), and until a call is applied nothing that is late changes
anything. `LateInv`: late requests are those the fact names, or edits, and among edits
none to an old price comes after one to the price that is wanted. `SyncInv`: what a sync
saw stays true of the venue, and of an edit it may prove as long as the fact is the one
it read. `MoneyInv`: what is claimed happened, and a row says filled when all of it is
claimed. None of them stands without the others: a sync ends an unknown operation
because of `LateInv`, and `LateInv` survives the next request because of `OwnerInv`.

`DeskProofs`, the ticket (`TicketAssumption`: `None` is no other value). `TicketInv`
relates the page to what the handler under way, `busy`, captured at its click. What left
for the quote on screen left as the ticket keeps it (`SentAsKept`), and clicks number
quotes and keys, so a new one meets no old one (`ClicksCount`). A submit holds the quote
that is on screen, or the screen was cleared, and from its signature on both hold the
same bytes (`SubmitHolds`): this is why a retry repeats them. Form and account are those captured
unless they were changed since (`CapturedHolds`). An order the user was told of is on the
list on screen once the list asked for after it has come, and on the list a mount still
waits for unless that was overtaken (`ListsHold`).

`DeskProofs`, the accounts (`AccountAssumption`: a wallet, a placeholder and a chat are
different things, and `Absent` is none of them). `AccountInv` follows what a request
knows between two queries. Whom it is made for is there, but for a first sign-in
(`AskerKnown`), and stays there, because only the placeholder is ever deleted; it is
deleted when no alert is left to it, and nothing gives it one again (`StageKnown`). A row
it holds for a cache is the row there is, or the cache is marked as in doubt
(`HeldIsTrue`): every change marks what others hold at that moment. Numbers are given
once, so a nonce still to be stored, or stored and not used, was never accepted
(`NumbersAreFresh`). Nothing is cached of the placeholder, and a view is cached only of
preferences that have their defaults, which is why filling these in changes no view
(`CachedIsThere`). Most actions change no row or change the rows of one user: `RowsStay`
and `ChangeKeeps` are shown once, and an action has to show what its request knows next.

`EventOutboxProofs` (`OutboxAssumption`). `OutboxInvariance` adds what the fence by
worker id amounts to: a row is locked exactly while it is `publishing`, and a callback
whose publisher still holds the row read the attempts the row has (a publisher claims
again only when its batch is done).

`NotificationDeliveryProofs`. `DeliveryInvariance` adds, for a row: its sequence numbers
follow its status (`SeqInv`); the journal has the claim under way, nothing after it, and
as many counted claims as the row has attempts (`JournalInv`, by cardinality); what the
recipient has received is bounded by what is remembered of it (`ReceiptInv`); and a job
is there for whatever still waits (`JobInv`). For a worker: while it has a claim the row
is leased to it, or another has called the claim ambiguous; and one that is done with
its job leaves nothing waiting for it (`WorkerInv`). Two workers never have a claim of
one delivery (`OneBusy`): a lease that is lost, to the sweep or to another worker, leaves
the row `ambiguous`, which nothing claims again, so whoever may still send is alone.

`BackOfficeProofs`, the ledger (`LedgerAssumption`). `LedgerInv` says of each open
transaction which rows it has locked at each of its steps and what it found there
(`Promoting`, `Reversing`, `Clearing`), and that two of them never hold one row
(`LocksExclude`); so what was found under a lock is still so at the commit. This is all
that `LedgerIsTrue` needs of a step but for two facts about the rows themselves:
evidence is for the journal its movement is bound to (`EvidenceIsBound`) and a cleared
obligation names a journal (`ClearedByJournal`). The sum that a commit leaves
was checked under the vault's lock, and only the holder of that lock changes what
counts; so no induction over the sum is needed, only that it is zero at first.

`BackOfficeProofs`, the recovery (`RecoveryAssumption`: versions and the indexes of each
are numbered). `RecoveryInv`: a process that builds, records, rereads or drops has the
migration lock, and no other does (`LockIsHeld`); what it decided by is still the end of
the history (`Knows`), since only the holder writes there. A migration it is building
has built the indexes before the one it is at, and one it records has built them all; a
recovery that drops indexes has the failure it names on record.

`MarketProofs`, alerts. The invariant adds that indexes, resyncs and candidates carry
the definition their generation had, that generations of all of them are no later than
the row's, and that the row is armed only while its generation has no event.

`MarketProofs`, candles and metrics. The candle needs that the first and last of some trades are among them:
a finite set has extremes by a smallest member (`SmallestMember`, with the well-founded
order of subsets), since no induction over data is at hand. `MetricsInvariance` adds to
the metrics: a trade that could still be counted and has no event is in no bucket
(`BookInv`); a committed event was in the horizon, and history has no tick (`EventInv`);
what was counted under the lease and is not marked yet lies ahead of the lease's cursor
(`OwedInv`), and a worker that holds the lease goes through it in order (`LeaseInv`);
the steps of a delivery are done in order (`TaskInv`). Pruning is safe because it waits
until the replay is over and the trade is out of the horizon.

`ReplayProofs`. What the broker's folds compute is out of reach and not needed: whatever
they do to orders and facts, the cut stays (`Reckoned`). `HistoryInvariance` adds that a
save neither plays nor moves, that the paper state a session is linked with is the one
that was checked against the last session or the number is taken, and that the files are
sessions. `ShownMoves`: within one life of the owner what is shown never goes back,
because it is never ahead of the owner. It is the first half of `RunKeepsPromise`.

Only model-checked, and why:

- Liveness (`EventsSettle`, `CommittedIsDelivered`, `IndexFollows`, `FinalIsReported`,
  `CutoverUnblocked`, `ReservationEnds`, `DeliveryEnds`, `CalmMutationsEnd`,
  `PollCatchesUp`): out of the prover's reach, as is ENABLED.
- `RestIsSavable`, `FeedIsWhole`, the facts of `RunKeepsPromise`: they speak of what
  folds over orders and journals compute, which needs induction over data.
- `TapeIsTrue`, `CorpusIsTrue`: what they say of a decoder, a reader or a position is
  what a fold over the data computes; `ArchiveBlocks` has a recursive operator besides.
- `PagesAreTrue`: a conjunction over four modules, for which no inductive invariant has
  been written; the pages rest on folds over the tape as well.

## Disagreements

Shown by a run, with the quoted lines under "findings":

- `SwapRefusal`: a sponsored swap has no signature until the provider gives one. Its
  first broadcast times out (`ambiguous`); the key service is then unavailable and
  `markRecovery` overwrites the status; the next refusal no longer sees that an earlier
  broadcast may have landed and fails the row, against `executionService.ts:626` and
  `:711`.
- `FeedEvict`: a full queue drops the snapshot a subscription starts again from, after a
  resync or a rebase, and keeps the trades after it, against `realtime/README.md:5`.
- `CandleClose`: two batches of a bucket are merged by time and event key, not by the
  canonical chain order of `marketData/README.md:18`.

Seen while reading, without a run of their own: the duplicate checks of
`metricReplay.ts:261,283` and `fxTape.ts:132` test `!set.add(...)`, which is never true
(`Set.add` returns the set), so a tape that lists a trade twice counts it twice; and the
holes named in the sections above.

## Not modelled

- Swaps: quoting (`createQuote`, rate limits, provider choice), the quote-only mode,
  retention of blobs, renewal of the lease of later chunks of a batch (a chunk is a
  batch), the settlement status `unsupported`, which nothing returns.
- Orders: legs, fills and schedules of V015, reads of sealed transactions (`withTx`),
  the pool that bounds gates, `parked` actions, which nothing makes; preparing a deposit
  and authenticating with the provider.
- Notifications: rate windows as data, trimming by MAXLEN, jobs that do not parse,
  `defer` and `suppressed`, which nothing uses.
- Alerts: which values a definition is about; alerts on other events. Market: prices as
  numbers, the price bridge, listings.
- Replay: loading a tape, the projection of each trade, HTTP parsing. Realtime: socket
  authentication and limits per address.
- Wallets: the queries of `walletService`, following. Ledger: creating accounts.
- Feed: transaction bytes, CBOR, varints, instructions and balances: formats, which
  tests cover better.
- Schema adoption, which compares catalogues. Rate limits, JWTs and signatures as data.
- Web client: other pages, watchlists, panels and the drawing of charts
  (`LightweightTokenChart`): rendering of state that is modelled.
- HTTP wiring, configuration, observability and cached lookups of third parties: no
  protocol of their own; what depends on a lookup takes any answer.

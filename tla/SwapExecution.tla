---------------------------- MODULE SwapExecution ----------------------------
(***************************************************************************)
(* The life of a managed swap: one row of trade_executions, from the       *)
(* signed submission to finalized settlement, and everybody who writes it: *)
(*                                                                         *)
(*   - client handlers   ExecutionService.submit -> broadcast -> runClaimed*)
(*   - recovery workers  ExecutionService.recoverOne -> runClaimed         *)
(*   - reconciler batches  ExecutionReconciler.runBatch                    *)
(*                                                                         *)
(* They share the row through an operation token and a lease.  Nobody      *)
(* holds a lock while talking to the provider or to the Solana RPC node,   *)
(* so every write is fenced by the token it was claimed with.              *)
(*                                                                         *)
(* A token in the code is a fresh UUID per claim.  A handler, a worker     *)
(* call and a batch serve one claim at a time and forget its token when it *)
(* ends, so the name of the claimant stands for the token.                 *)
(*                                                                         *)
(* The provider and the chain are external.  The provider's contract is    *)
(* that a definite refusal (rejected, retryable) means that call was not   *)
(* forwarded; every other answer, a timeout and a crash leave it open.     *)
(***************************************************************************)
EXTENDS Naturals, FiniteSets

CONSTANTS
  Keys,           \* idempotency keys of one user: at most one row for each
  Quotes,         \* provider quotes; the signed transaction is the quote's
  Sponsored,      \* quotes whose fee payer is the provider: the row starts
                  \*   without a transaction signature
  Clients,        \* concurrent POST /executions handlers
  Workers,        \* concurrent recoverOne calls
  Batches,        \* concurrent (or abandoned) reconciler batches
  MaxBroadcasts,  \* bound on broadcast_count
  Reorgs,         \* may a processed slot be dropped by the cluster?
  SlowHolders,    \* may a lease run out under a claimant that still runs?
  NoRow,
  Nobody

ASSUME MaxBroadcastsAssumption == MaxBroadcasts \in Nat
ASSUME SponsoredAssumption == Sponsored \subseteq Quotes
ASSUME ActorsAssumption ==
  /\ Clients \cap Workers = {}
  /\ (Clients \cup Workers) \cap Batches = {}
  /\ Nobody \notin Clients \cup Workers \cup Batches
ASSUME SwitchAssumption == Reorgs \in BOOLEAN /\ SlowHolders \in BOOLEAN

VARIABLES
  quote,     \* trade_quotes: quoted, expired or consumed
  exec,      \* trade_executions: a row for each key, or NoRow
  blob,      \* execution_tx_blobs: none, live, or lapsed (a fresh lease would
             \*   outlive expires_at)
  evidence,  \* execution_settlements: the evidence appended for each key
  proc,      \* local state of the handlers and recovery calls
  batch,     \* local state of the reconciler batches
  sent,      \* external: the provider has forwarded the transaction
  chain,     \* external: where the transaction is on chain, and its outcome
  erred      \* external: some fork executed the transaction with an error

db   == <<quote, exec, blob, evidence>>
net  == <<sent, chain, erred>>
vars == <<quote, exec, blob, evidence, proc, batch, sent, chain, erred>>

-----------------------------------------------------------------------------
Procs       == Clients \cup Workers
Claimants   == Procs \cup Batches
Commitments == {"confirmed", "finalized"}
States      == {"signed", "submitted", "processed", "confirmed", "finalized",
                "failed"}
Leases      == {"none", "live", "over"}
\* provider_status, up to what a guard reads of it
Statuses    == {"none", "ambiguous", "retryable", "recovery", "manual",
                "provider", "malformed", "rpc", "chain"}
\* the provider's acknowledged amounts: absent, equal to the wallet's balance
\* change on chain, or different from it
Amounts     == {"none", "match", "differ"}
Verdicts    == {"verified", "mismatch"}
Settlements == {"none"} \cup Commitments

Rows == [quote: Quotes, state: States, sig: BOOLEAN, op: Claimants \cup {Nobody},
         lease: Leases, status: Statuses, count: Nat,
         amounts: Amounts, settled: Settlements,
         verdict: {"pending"} \cup Verdicts]

ASSUME NoRowAssumption == NoRow \notin Rows /\ NoRow \notin Quotes

Evidence == [commitment: Commitments, verdict: Verdicts, amounts: Amounts]

\* The row submit inserts.  transactionSignature is absent when the fee
\* payer's slot is still zero, which only a sponsored transaction allows.
SignedRow(q) ==
  [quote |-> q, state |-> "signed", sig |-> q \notin Sponsored, op |-> Nobody,
   lease |-> "none", status |-> "none", count |-> 0, amounts |-> "none",
   settled |-> "none", verdict |-> "pending"]

Pcs == {"idle", "prepared", "admitted", "claimed", "unavailable", "invalid",
        "calling", "delivered"}

IdleProc == [pc |-> "idle", key |-> NoRow, quote |-> NoRow, sealed |-> FALSE,
             prior |-> FALSE, sig |-> FALSE]

ProcStates == [pc: Pcs, key: Keys \cup {NoRow}, quote: Quotes \cup {NoRow},
               sealed: BOOLEAN, prior: BOOLEAN, sig: BOOLEAN]

\* What a batch still has to do for a row it claimed, and the columns it read
\* with the claim.
Work == {"none", "claimed", "release", "quarantine", "processed", "failed"}
          \cup Commitments

Tasks == [work: Work, amounts: Amounts, settled: Settlements]
NoTask == [work |-> "none", amounts |-> "none", settled |-> "none"]
IdleBatch == [k \in Keys |-> NoTask]

ChainStates == [at: {"absent", "processed", "confirmed", "finalized"},
                outcome: {"none", "ok", "short", "err"}]

Init ==
  /\ quote = [q \in Quotes |-> "quoted"]
  /\ exec = [k \in Keys |-> NoRow]
  /\ blob = [k \in Keys |-> "none"]
  /\ evidence = [k \in Keys |-> {}]
  /\ proc = [p \in Procs |-> IdleProc]
  /\ batch = [b \in Batches |-> IdleBatch]
  /\ sent = [k \in Keys |-> FALSE]
  /\ chain = [k \in Keys |-> [at |-> "absent", outcome |-> "none"]]
  /\ erred = [k \in Keys |-> FALSE]

-----------------------------------------------------------------------------
(* The row, its lease, and the database guards.                            *)

HasRow(k) == exec[k] # NoRow
InState(k, states) == HasRow(k) /\ exec[k].state \in states
\* Fault: the claims forget that a lease runs out.
LeaseFree_NoExpiry(k) == exec[k].lease = "none"

LeaseFree(k) == exec[k].lease # "live"
Holds(p, k) == HasRow(k) /\ exec[k].op = p
HoldsLive(p, k) == Holds(p, k) /\ exec[k].lease = "live"

\* UPDATE trade_executions SET ... for key k.
Write(k, row) == exec' = [exec EXCEPT ![k] = row]

Claim(k, p) == [exec[k] EXCEPT !.op = p, !.lease = "live"]
Unclaimed(row) == [row EXCEPT !.op = Nobody, !.lease = "none"]

\* execution_amount_guard (V060): amounts are written once and never after
\* evidence exists; a row that has evidence is not taken back to an earlier
\* state and its evidence is only promoted; a confirmed or finalized row
\* carries evidence of that commitment.
AmountGuard(k, row) ==
  /\ row.amounts # exec[k].amounts =>
       exec[k].amounts = "none" /\ evidence[k] = {}
  /\ exec[k].verdict # "pending" /\ row.state # exec[k].state =>
       row.state \in Commitments
  /\ exec[k].verdict # "pending" /\ row.settled # exec[k].settled =>
       /\ row.verdict = exec[k].verdict
       /\ exec[k].settled = "confirmed" /\ row.settled = "finalized"
  /\ row.state \in Commitments =>
       row.verdict \in Verdicts /\ row.settled = row.state

\* execution_settlement_guard (V060) and the primary key of
\* execution_settlements, for evidence e about the row of key k.
SettlementGuard(k, e) ==
  /\ e.amounts = exec[k].amounts
  /\ \A old \in evidence[k] : old.commitment # e.commitment
  /\ e.commitment = "confirmed" =>
       \A old \in evidence[k] : old.commitment # "finalized"
  /\ e.commitment = "finalized" =>
       \A old \in evidence[k] :
         old.verdict = e.verdict /\ old.amounts = e.amounts

\* Time passing.  A lease lasts longer than the calls made under it, so it
\* runs out under a running claimant only when that process stalls.
Serving(p, k) ==
  \/ /\ p \in Procs /\ proc[p].key = k
     /\ proc[p].pc \in {"claimed", "unavailable", "invalid", "calling", "delivered"}
  \/ p \in Batches /\ batch[p][k].work # "none"

LeaseExpires(k) ==
  /\ HasRow(k) /\ exec[k].lease = "live"
  /\ SlowHolders \/ ~ Serving(exec[k].op, k)
  /\ Write(k, [exec[k] EXCEPT !.lease = "over"])
  /\ UNCHANGED <<quote, blob, evidence, proc, batch, net>>

BlobLapses(k) ==
  /\ blob[k] = "live"
  /\ blob' = [blob EXCEPT ![k] = "lapsed"]
  /\ UNCHANGED <<quote, exec, evidence, proc, batch, net>>

QuoteExpires(q) ==
  /\ quote[q] = "quoted"
  /\ quote' = [quote EXCEPT ![q] = "expired"]
  /\ UNCHANGED <<exec, blob, evidence, proc, batch, net>>

-----------------------------------------------------------------------------
(* Submission: prepareBlob, then one admission transaction.                *)

Finish(p) == proc' = [proc EXCEPT ![p] = IdleProc]

\* prepareBlob reads outside any transaction: a retry of a stored submission
\* seals nothing, a new one seals only for a live quote.  The requests it
\* refuses change nothing.
Prepare(c, k, q) ==
  /\ proc[c].pc = "idle"
  /\ IF HasRow(k) THEN exec[k].quote = q ELSE quote[q] = "quoted"
  /\ proc' = [proc EXCEPT ![c] = [IdleProc EXCEPT
                !.pc = "prepared", !.key = k, !.quote = q,
                !.sealed = ~ HasRow(k)]]
  /\ UNCHANGED <<db, batch, net>>

\* The stored row wins; otherwise the quote is consumed and the row and its
\* sealed transaction are inserted together.  A row that is past 'signed' is
\* returned as it is.
AdmitExisting(c) ==
  LET k == proc[c].key IN
  /\ proc[c].pc = "prepared" /\ HasRow(k)
  /\ IF exec[k].quote = proc[c].quote /\ exec[k].state = "signed"
       THEN proc' = [proc EXCEPT ![c].pc = "admitted"]
       ELSE Finish(c)
  /\ UNCHANGED <<db, batch, net>>

\* The conditional UPDATE of the quote, and UNIQUE (quote_id).
CanConsume(c) ==
  /\ quote[proc[c].quote] = "quoted"
  /\ \A k \in Keys : HasRow(k) => exec[k].quote # proc[c].quote

\* Fault: the row is inserted but the quote is left open.
AdmitNew_QuoteLeftOpen(c) ==
  LET k == proc[c].key  q == proc[c].quote IN
  /\ proc[c].pc = "prepared" /\ ~ HasRow(k)
  /\ CanConsume(c) /\ proc[c].sealed
  /\ Write(k, SignedRow(q))
  /\ blob' = [blob EXCEPT ![k] = "live"]
  /\ proc' = [proc EXCEPT ![c].pc = "admitted"]
  /\ UNCHANGED <<quote, evidence, batch, net>>

AdmitNew(c) ==
  LET k == proc[c].key  q == proc[c].quote IN
  /\ proc[c].pc = "prepared" /\ ~ HasRow(k)
  /\ CanConsume(c) /\ proc[c].sealed
  /\ quote' = [quote EXCEPT ![q] = "consumed"]
  /\ Write(k, SignedRow(q))
  /\ blob' = [blob EXCEPT ![k] = "live"]
  /\ proc' = [proc EXCEPT ![c].pc = "admitted"]
  /\ UNCHANGED <<evidence, batch, net>>

AdmitRefused(c) ==
  /\ proc[c].pc = "prepared" /\ ~ HasRow(proc[c].key)
  /\ ~ (CanConsume(c) /\ proc[c].sealed)
  /\ Finish(c)
  /\ UNCHANGED <<db, batch, net>>

\* broadcast: claim the row, or answer that somebody else is at work.
ClaimSubmit(c) ==
  LET k == proc[c].key IN
  /\ proc[c].pc = "admitted"
  /\ IF exec[k].state = "signed" /\ LeaseFree(k) /\ exec[k].count < MaxBroadcasts
       THEN /\ Write(k, Claim(k, c))
            /\ proc' = [proc EXCEPT ![c].pc = "claimed"]
       ELSE Finish(c) /\ UNCHANGED exec
  /\ UNCHANGED <<quote, blob, evidence, batch, net>>

-----------------------------------------------------------------------------
(* Recovery: claim_execution_blob (V059) and withRecovery.                 *)

Recoverable(k) ==
  /\ InState(k, {"signed"})
  /\ exec[k].count > 0
  /\ exec[k].status # "manual"
  /\ blob[k] # "none"

\* What opening the sealed transaction comes to.  A blob that would not
\* outlive the lease is not handed out at all (replay_expired).
Opened(k) == IF blob[k] = "live" THEN {"claimed", "unavailable", "invalid"}
                                 ELSE {"invalid"}

ClaimRecovery(w, k) ==
  /\ proc[w].pc = "idle"
  /\ Recoverable(k) /\ LeaseFree(k) /\ exec[k].count < MaxBroadcasts
  /\ Write(k, Claim(k, w))
  /\ \E found \in Opened(k) :
       proc' = [proc EXCEPT ![w] = [IdleProc EXCEPT !.pc = found, !.key = k]]
  /\ UNCHANGED <<quote, blob, evidence, batch, net>>

\* markRecovery: back off on a key outage, leave the rest to an operator.
MarkRecovery(w) ==
  LET k == proc[w].key
      outage == proc[w].pc = "unavailable"
  IN
  /\ proc[w].pc \in {"unavailable", "invalid"}
  /\ Finish(w)
  /\ IF Holds(w, k) /\ exec[k].state = "signed"
       THEN Write(k, [exec[k] EXCEPT
              !.status = IF outage THEN "recovery" ELSE "manual",
              !.op = Nobody,
              !.lease = IF outage THEN "live" ELSE "none"])
       ELSE UNCHANGED exec
  /\ UNCHANGED <<quote, blob, evidence, batch, net>>

-----------------------------------------------------------------------------
(* runClaimed: the provider call, shared by submission and recovery.       *)

\* Did an earlier broadcast possibly land, as far as the row remembers?
PriorPossible(row, count) ==
  row.status = "ambiguous" \/ (row.status = "none" /\ count > 1)

StartBroadcast(p) ==
  LET k == proc[p].key  n == exec[k].count + 1 IN
  /\ proc[p].pc = "claimed"
  /\ IF HoldsLive(p, k) /\ exec[k].state = "signed" /\ blob[k] = "live"
       THEN /\ Write(k, [exec[k] EXCEPT !.count = n])
            /\ proc' = [proc EXCEPT ![p].pc = "calling",
                                    ![p].prior = PriorPossible(exec[k], n),
                                    ![p].sig = exec[k].sig]
       ELSE Finish(p) /\ UNCHANGED exec
  /\ UNCHANGED <<quote, blob, evidence, batch, net>>

\* External: the provider takes the call and forwards the transaction.
Deliver(p) ==
  /\ proc[p].pc = "calling"
  /\ proc' = [proc EXCEPT ![p].pc = "delivered"]
  /\ sent' = [sent EXCEPT ![proc[p].key] = TRUE]
  /\ UNCHANGED <<db, batch, chain, erred>>

\* A recovery replay that leaves the row without a signature keeps an unowned
\* lease on it as the backoff; a client's does not.
Backoff(p) == IF p \in Workers THEN "live" ELSE "none"

\* Fault: an ambiguous broadcast counts as submitted, signature or not.
MarkAmbiguous_AlwaysSubmitted(p, known) ==
  LET k == proc[p].key IN
  IF Holds(p, k) /\ exec[k].state = "signed"
    THEN Write(k, Unclaimed([exec[k] EXCEPT
           !.state = "submitted", !.sig = @ \/ known, !.status = "ambiguous"]))
    ELSE UNCHANGED exec

\* markAmbiguous: with a signature in hand the row is the reconciler's.
MarkAmbiguous(p, known) ==
  LET k == proc[p].key IN
  IF Holds(p, k) /\ exec[k].state = "signed"
    THEN Write(k, [exec[k] EXCEPT
           !.state = IF known THEN "submitted" ELSE @,
           !.sig = @ \/ known,
           !.status = "ambiguous",
           !.op = Nobody,
           !.lease = IF known THEN "none" ELSE Backoff(p)])
    ELSE UNCHANGED exec

\* markRetryable: nothing was sent; the row stays as it was.
MarkRetryable(p) ==
  LET k == proc[p].key IN
  IF Holds(p, k) /\ exec[k].state = "signed"
    THEN Write(k, [exec[k] EXCEPT
           !.status = "retryable", !.op = Nobody, !.lease = Backoff(p)])
    ELSE UNCHANGED exec

\* Fault: the last UPDATE is not fenced by the token.
Persist_Unfenced(p, row) ==
  LET k == proc[p].key IN
  IF AmountGuard(k, row) THEN Write(k, Unclaimed(row)) ELSE UNCHANGED exec

\* The last UPDATE of runClaimed: fenced by the token alone, and subject to
\* the database guard.
Persist(p, row) ==
  LET k == proc[p].key IN
  IF Holds(p, k) /\ AmountGuard(k, row)
    THEN Write(k, Unclaimed(row))
    ELSE UNCHANGED exec

\* Success: the acknowledgement carries the signature and both amounts.
ReplySuccess(p) ==
  LET k == proc[p].key IN
  /\ proc[p].pc = "delivered"
  /\ \E a \in Amounts \ {"none"} :
       Persist(p, [exec[k] EXCEPT !.state = "submitted", !.sig = TRUE,
                                  !.amounts = a, !.status = "provider"])
  /\ Finish(p)
  /\ UNCHANGED <<quote, blob, evidence, batch, net>>

\* Fault: a refusal fails the row although its signature may be on chain.
ReplyRejected_IgnoresSignature(p) ==
  LET k == proc[p].key IN
  /\ proc[p].pc = "calling"
  /\ IF proc[p].prior
       THEN MarkAmbiguous(p, proc[p].sig)
       ELSE Persist(p, [exec[k] EXCEPT !.state = "failed",
                                       !.status = "provider"])
  /\ Finish(p)
  /\ UNCHANGED <<quote, blob, evidence, batch, net>>

\* A definite refusal without a signature: HTTP 4xx or a terminal code.  It
\* fails the row only when no broadcast can have landed.
ReplyRejected(p) ==
  LET k == proc[p].key IN
  /\ proc[p].pc = "calling"
  /\ IF proc[p].prior \/ proc[p].sig
       THEN MarkAmbiguous(p, proc[p].sig)
       ELSE Persist(p, [exec[k] EXCEPT !.state = "failed",
                                       !.status = "provider"])
  /\ Finish(p)
  /\ UNCHANGED <<quote, blob, evidence, batch, net>>

\* Rate limited before anything was sent.
ReplyRetryable(p) ==
  /\ proc[p].pc = "calling"
  /\ IF proc[p].prior THEN MarkAmbiguous(p, proc[p].sig) ELSE MarkRetryable(p)
  /\ Finish(p)
  /\ UNCHANGED <<quote, blob, evidence, batch, net>>

\* An answer that settles nothing but names the right signature: a success
\* with bad amounts, a failure after broadcast, a server error.
ReplyAcked(p) ==
  /\ proc[p].pc \in {"calling", "delivered"}
  /\ MarkAmbiguous(p, TRUE)
  /\ Finish(p)
  /\ UNCHANGED <<quote, blob, evidence, batch, net>>

\* A timeout, a transport error, an unreadable answer or the signature of
\* another transaction.  The request may still reach the provider.
MayArrive(p) ==
  \/ UNCHANGED sent
  \/ proc[p].pc = "calling" /\ sent' = [sent EXCEPT ![proc[p].key] = TRUE]

ReplyUncertain(p) ==
  /\ proc[p].pc \in {"calling", "delivered"}
  /\ MarkAmbiguous(p, proc[p].sig)
  /\ MayArrive(p)
  /\ Finish(p)
  /\ UNCHANGED <<quote, blob, evidence, batch, chain, erred>>

\* The process dies, or a database call throws: the claim stays on the row.
Crash(p) ==
  /\ proc[p].pc # "idle"
  /\ MayArrive(p)
  /\ Finish(p)
  /\ UNCHANGED <<db, batch, chain, erred>>

-----------------------------------------------------------------------------
(* The reconciler.                                                         *)

Idle(b) == \A k \in Keys : batch[b][k].work = "none"
Asking(b) == \E k \in Keys : batch[b][k].work = "claimed"

ReconcilerSees(k) ==
  /\ HasRow(k) /\ exec[k].sig
  /\ exec[k].settled # "finalized"
  /\ \/ exec[k].state \in {"submitted", "processed", "confirmed"}
     \/ exec[k].state = "signed" /\ exec[k].count > 0

Due(k) == ReconcilerSees(k) /\ LeaseFree(k)

\* claim: SKIP LOCKED may leave any of the due rows to somebody else.
BatchClaim(b, S) ==
  /\ Idle(b) /\ S # {} /\ \A k \in S : Due(k)
  /\ exec' = [k \in Keys |-> IF k \in S THEN Claim(k, b) ELSE exec[k]]
  /\ batch' = [batch EXCEPT ![b] = [k \in Keys |-> IF k \in S
       THEN [work |-> "claimed", amounts |-> exec[k].amounts,
             settled |-> exec[k].settled]
       ELSE NoTask]]
  /\ UNCHANGED <<quote, blob, evidence, proc, net>>

\* External: what getSignatureStatuses may say of a transaction.  A node may
\* lag behind the cluster, and an answer may be malformed.
Truth(k) == IF chain[k].at # "absent" /\ chain[k].outcome = "err"
              THEN "failed" ELSE chain[k].at

RpcViews(k) ==
  {"absent", "malformed", Truth(k)} \cup
  CASE Truth(k) = "finalized" -> {"processed", "confirmed"}
    [] Truth(k) = "confirmed" -> {"processed"}
    [] OTHER -> {}

\* Fault: a signature the node does not know is handed to a task.
Plan_NoNullCheck(b, k, v) ==
  CASE v = batch[b][k].settled -> "release"
    [] v = "malformed" -> "quarantine"
    [] OTHER -> v

\* What runBatch does with a row on seeing view v of its transaction.
Plan(b, k, v) ==
  CASE v = "absent" \/ v = batch[b][k].settled -> "release"
    [] v = "malformed" -> "quarantine"
    [] OTHER -> v

BatchStatuses(b) ==
  /\ Asking(b)
  /\ \E views \in [Keys -> UNION {RpcViews(k) : k \in Keys}] :
       /\ \A k \in Keys :
            views[k] \in IF batch[b][k].work = "claimed" THEN RpcViews(k)
                                                         ELSE {"absent"}
       /\ batch' = [batch EXCEPT ![b] = [k \in Keys |->
            IF @[k].work = "claimed" THEN [@[k] EXCEPT !.work = Plan(b, k, views[k])]
                                     ELSE @[k]]]
  /\ UNCHANGED <<db, proc, net>>

\* Drop the claim if it is still ours and still live.
Released(b, k) == IF HoldsLive(b, k) THEN Unclaimed(exec[k]) ELSE exec[k]

Done(b, k) == batch' = [batch EXCEPT ![b][k] = NoTask]

RowRelease(b, k) ==
  /\ batch[b][k].work \in {"release"} \cup Commitments
  /\ Write(k, Released(b, k))
  /\ Done(b, k)
  /\ UNCHANGED <<quote, blob, evidence, proc, net>>

\* Unsafe slot, malformed transaction, or evidence that does not decode.
RowQuarantine(b, k) ==
  /\ batch[b][k].work \in {"quarantine"} \cup Commitments
  /\ IF HoldsLive(b, k)
       THEN Write(k, [exec[k] EXCEPT !.status = "malformed", !.op = Nobody])
       ELSE UNCHANGED exec
  /\ Done(b, k)
  /\ UNCHANGED <<quote, blob, evidence, proc, net>>

Rank(state) == CASE state = "submitted" -> 1
                 [] state = "processed" -> 2
                 [] state = "confirmed" -> 3
                 [] OTHER -> 0

Unresolved(row) ==
  \/ row.state \in {"submitted", "processed", "confirmed"}
  \/ row.state = "signed" /\ row.count > 0

\* transition: processed, or failed on chain.
RowTransition(b, k) ==
  LET to == batch[b][k].work
      allowed == /\ HoldsLive(b, k)
                 /\ exec[k].verdict = "pending"
                 /\ Unresolved(exec[k])
                 /\ to = "failed" \/ Rank(exec[k].state) < Rank(to)
  IN
  /\ to \in {"processed", "failed"}
  /\ Write(k, IF allowed
                THEN Unclaimed([exec[k] EXCEPT !.state = to, !.status = "rpc"])
                ELSE Released(b, k))
  /\ Done(b, k)
  /\ UNCHANGED <<quote, blob, evidence, proc, net>>

\* decodeSettlement, up to its verdict: the swap delivered what was promised
\* and the provider's amounts, when there are any, agree.
Verdict(k, amounts) ==
  IF chain[k].outcome = "ok" /\ amounts # "differ" THEN "verified"
                                                   ELSE "mismatch"

\* Fault: a transaction found at any commitment is taken for final.
Decoded_AlwaysFinal(b, k) ==
  [commitment |-> "finalized",
   verdict    |-> Verdict(k, batch[b][k].amounts),
   amounts    |-> batch[b][k].amounts]

Decoded(b, k) ==
  [commitment |-> batch[b][k].work,
   verdict    |-> Verdict(k, batch[b][k].amounts),
   amounts    |-> batch[b][k].amounts]

\* getTransaction answers at the wanted commitment.
Visible(k, commitment) ==
  /\ chain[k].outcome # "err"
  /\ chain[k].at \in IF commitment = "finalized" THEN {"finalized"} ELSE Commitments

SettledRow(b, k) ==
  LET e == Decoded(b, k) IN
  [exec[k] EXCEPT !.state = e.commitment, !.settled = e.commitment,
                  !.verdict = e.verdict, !.status = "chain"]

Accepted(b, k) ==
  /\ SettlementGuard(k, Decoded(b, k))
  /\ HoldsLive(b, k) /\ Unresolved(exec[k]) => AmountGuard(k, SettledRow(b, k))

HasTransaction(b, k) ==
  batch[b][k].work \in Commitments /\ Visible(k, batch[b][k].work)

\* Fault: the row is settled without storing the evidence.
RowSettle_NoEvidence(b, k) ==
  /\ HasTransaction(b, k) /\ Accepted(b, k)
  /\ IF HoldsLive(b, k) /\ Unresolved(exec[k])
       THEN Write(k, Unclaimed(SettledRow(b, k)))
       ELSE UNCHANGED exec
  /\ Done(b, k)
  /\ UNCHANGED <<quote, blob, evidence, proc, net>>

\* settle: append the evidence and move the row, in one transaction.  A lost
\* lease rolls both back.
RowSettle(b, k) ==
  /\ HasTransaction(b, k) /\ Accepted(b, k)
  /\ IF HoldsLive(b, k) /\ Unresolved(exec[k])
       THEN /\ Write(k, Unclaimed(SettledRow(b, k)))
            /\ evidence' = [evidence EXCEPT ![k] = @ \cup {Decoded(b, k)}]
       ELSE UNCHANGED <<exec, evidence>>
  /\ Done(b, k)
  /\ UNCHANGED <<quote, blob, proc, net>>

\* Evidence the database refuses is not a lost lease: the exception leaves
\* runBatch, which drops every claim of the batch.  Tasks already started go
\* on, without one.
ReleaseAll(b) ==
  exec' = [k \in Keys |-> IF HasRow(k) THEN Released(b, k) ELSE exec[k]]

RowRefused(b, k) ==
  /\ HasTransaction(b, k) /\ ~ Accepted(b, k)
  /\ ReleaseAll(b)
  /\ Done(b, k)
  /\ UNCHANGED <<quote, blob, evidence, proc, net>>

\* getSignatureStatuses fails: nothing was started, every claim is dropped.
BatchFails(b) ==
  /\ Asking(b)
  /\ ReleaseAll(b)
  /\ batch' = [batch EXCEPT ![b] = IdleBatch]
  /\ UNCHANGED <<quote, blob, evidence, proc, net>>

BatchCrash(b) ==
  /\ ~ Idle(b)
  /\ batch' = [batch EXCEPT ![b] = IdleBatch]
  /\ UNCHANGED <<db, proc, net>>

-----------------------------------------------------------------------------
(* External: the cluster.                                                  *)

Land(k) ==
  /\ sent[k] /\ chain[k].at = "absent"
  /\ \E o \in {"ok", "short", "err"} :
       /\ chain' = [chain EXCEPT ![k] = [at |-> "processed", outcome |-> o]]
       /\ erred' = [erred EXCEPT ![k] = @ \/ o = "err"]
  /\ UNCHANGED <<db, proc, batch, sent>>

Deepen(k) ==
  /\ chain[k].at \in {"processed", "confirmed"}
  /\ chain' = [chain EXCEPT ![k].at =
                 IF @ = "processed" THEN "confirmed" ELSE "finalized"]
  /\ UNCHANGED <<db, proc, batch, sent, erred>>

\* The slot the transaction was processed in is skipped.
Reorg(k) ==
  /\ Reorgs /\ chain[k].at = "processed"
  /\ chain' = [chain EXCEPT ![k] = [at |-> "absent", outcome |-> "none"]]
  /\ UNCHANGED <<db, proc, batch, sent, erred>>

-----------------------------------------------------------------------------
Submit(c) ==
  \/ \E k \in Keys, q \in Quotes : Prepare(c, k, q)
  \/ AdmitExisting(c)
  \/ AdmitNew(c)
  \/ AdmitRefused(c)
  \/ ClaimSubmit(c)

Recover(w) ==
  \/ \E k \in Keys : ClaimRecovery(w, k)
  \/ MarkRecovery(w)

RunClaimed(p) ==
  \/ StartBroadcast(p)
  \/ ReplySuccess(p)
  \/ ReplyRejected(p)
  \/ ReplyRetryable(p)
  \/ ReplyAcked(p)
  \/ ReplyUncertain(p)

RowTask(b, k) ==
  \/ RowRelease(b, k)
  \/ RowQuarantine(b, k)
  \/ RowTransition(b, k)
  \/ RowSettle(b, k)
  \/ RowRefused(b, k)

Reconcile(b) ==
  \/ \E S \in SUBSET Keys : BatchClaim(b, S)
  \/ BatchStatuses(b)
  \/ BatchFails(b)
  \/ \E k \in Keys : RowTask(b, k)

Environment ==
  \/ \E k \in Keys : LeaseExpires(k) \/ BlobLapses(k)
  \/ \E q \in Quotes : QuoteExpires(q)
  \/ \E k \in Keys : Land(k) \/ Deepen(k) \/ Reorg(k)
  \/ \E p \in Procs : Deliver(p) \/ Crash(p)
  \/ \E b \in Batches : BatchCrash(b)

Next ==
  \/ \E c \in Clients : Submit(c)
  \/ \E w \in Workers : Recover(w)
  \/ \E p \in Procs : RunClaimed(p)
  \/ \E b \in Batches : Reconcile(b)
  \/ Environment

Spec == Init /\ [][Next]_vars
-----------------------------------------------------------------------------
(* Correctness.                                                            *)

\* The state has its type.
TypeOK ==
  /\ quote \in [Quotes -> {"quoted", "expired", "consumed"}]
  /\ exec \in [Keys -> Rows \cup {NoRow}]
  /\ blob \in [Keys -> {"none", "live", "lapsed"}]
  /\ evidence \in [Keys -> SUBSET Evidence]
  /\ proc \in [Procs -> ProcStates]
  /\ batch \in [Batches -> [Keys -> Tasks]]
  /\ sent \in [Keys -> BOOLEAN]
  /\ chain \in [Keys -> ChainStates]
  /\ erred \in [Keys -> BOOLEAN]

\* However submissions race, retry and change their minds, a quote is spent
\* on at most one execution, and is consumed exactly when it has one (submit).
QuoteSpentOnce ==
  /\ \A k, l \in Keys :
       HasRow(k) /\ HasRow(l) /\ exec[k].quote = exec[l].quote => k = l
  /\ \A q \in Quotes :
       quote[q] = "consumed" <=> \E k \in Keys : HasRow(k) /\ exec[k].quote = q

\* Nothing reaches the provider that the database could forget: a transaction
\* that may land has its row, its sealed bytes and its broadcast count, and as
\* long as the outcome is open one of the two background workers will look for
\* it, unless it was handed to an operator (startBroadcast, claim,
\* claim_execution_blob).
NothingSentIsLost ==
  \A k \in Keys : sent[k] =>
    /\ HasRow(k) /\ blob[k] # "none" /\ exec[k].count > 0
    /\ \/ exec[k].state \in {"failed", "finalized"}
       \/ ReconcilerSees(k)
       \/ Recoverable(k)
       \/ exec[k].status = "manual"

\* The user is told a swap failed only if the chain executed it with an error
\* or, where the row never knew a signature, the provider refused it
\* (runClaimed, transition).
FailedIsOnChain ==
  \A k \in Keys :
    InState(k, {"failed"}) => erred[k] \/ ~ exec[k].sig

\* A swap reported confirmed or finalized is on chain at that commitment,
\* succeeded there, and the verdict and the evidence shown with it are the ones
\* its balances and the provider's stored amounts give, even when several
\* batches and a late provider answer race for the row (settle, V060).
SettledIsOnChain ==
  \A k \in Keys :
    /\ HasRow(k) /\ exec[k].settled # "none" =>
         /\ exec[k].state = exec[k].settled
         /\ Visible(k, exec[k].settled)
         /\ exec[k].verdict = Verdict(k, exec[k].amounts)
         /\ \E e \in evidence[k] :
              e = [commitment |-> exec[k].settled, verdict |-> exec[k].verdict,
                   amounts |-> exec[k].amounts]
    /\ InState(k, Commitments) => exec[k].settled # "none"
    /\ evidence[k] # {} => HasRow(k) /\ exec[k].settled # "none"

\* What the row reports is on chain, and a failure it reports is one.
ReportsAreTrue == FailedIsOnChain /\ SettledIsOnChain

\* What the user has been told is never taken back: the row moves only forward
\* through signed, submitted, processed, confirmed and finalized, leaves only
\* the first three for failed, and never leaves failed or finalized, whoever
\* writes last (runClaimed fences only by token, transition by rank).
Order(state) == CASE state = "signed" -> 0
                  [] state = "submitted" -> 1
                  [] state = "processed" -> 2
                  [] state = "confirmed" -> 3
                  [] OTHER -> 4

Forward(old, new) ==
  \/ new.state = old.state
  \/ Order(old.state) < Order(new.state) /\ new.state # "failed"
  \/ new.state = "failed" /\ old.state \in {"signed", "submitted", "processed"}

NeverTakenBack ==
  [][\A k \in Keys : HasRow(k) =>
       /\ exec'[k] # NoRow /\ Forward(exec[k], exec'[k])
       /\ exec[k].sig => exec'[k].sig]_vars

-----------------------------------------------------------------------------
(* The promise of SwapPromise, read off the tables.                        *)

Told(k) ==
  IF ~ HasRow(k) THEN "nothing"
  ELSE IF exec[k].state \in {"signed", "submitted", "processed"} THEN "pending"
  ELSE exec[k].state

OnChain(k) == IF chain[k].outcome # "err" /\ chain[k].at \in Commitments
                THEN chain[k].at ELSE "no"

Promise == INSTANCE SwapPromise WITH
  Refusable <- Sponsored,
  NoQuote   <- NoRow,
  swap      <- [k \in Keys |-> IF HasRow(k) THEN exec[k].quote ELSE NoRow],
  told      <- [k \in Keys |-> Told(k)],
  onchain   <- [k \in Keys |-> OnChain(k)],
  erred     <- erred

\* The service keeps its promise: every step of the handlers, workers and
\* batches is a step of SwapPromise or invisible to the user.
KeepsPromise == Promise!Spec

-----------------------------------------------------------------------------
(* Progress.  Claimants finish (EXECUTION_TIMEOUT_MS bounds every call),   *)
(* leases run out, the reconciler keeps polling, every due row is claimed  *)
(* again and again (due rows are ordered by updated_at), and the RPC node  *)
(* does not lie, lag or fail for ever.                                     *)

TellsTruth(b, k) ==
  /\ batch[b][k].work = "claimed"
  /\ BatchStatuses(b)
  /\ batch'[b][k].work = Plan(b, k, Truth(k))

Fairness ==
  /\ \A k \in Keys : WF_vars(LeaseExpires(k))
  /\ \A p \in Procs : WF_vars(RunClaimed(p) \/ MarkRecovery(p))
  /\ \A b \in Batches :
       /\ WF_vars(BatchStatuses(b))
       /\ \A k \in Keys :
            /\ WF_vars(RowTask(b, k))
            /\ SF_vars(\E S \in SUBSET Keys : k \in S /\ BatchClaim(b, S))
            /\ SF_vars(TellsTruth(b, k))
            /\ SF_vars(RowSettle(b, k))

FairSpec == Spec /\ Fairness

\* A swap that is final on chain and whose signature is known is eventually
\* reported final, whoever crashed on the way (runBatch, claim).
FinalIsReported ==
  \A k \in Keys :
    (HasRow(k) /\ exec[k].sig /\ Visible(k, "finalized"))
      ~> InState(k, {"finalized"})

-----------------------------------------------------------------------------
(* "An earlier provider call may have landed; reconcile before treating    *)
(* this replay as failed" (runClaimed).                                    *)

\* A swap is not failed on the provider's word while a broadcast of it may
\* still land or has landed.
FailedHasNotLanded ==
  \A k \in Keys : InState(k, {"failed"}) /\ ~ erred[k] => ~ sent[k]
=============================================================================

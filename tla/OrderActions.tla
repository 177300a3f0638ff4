---------------------------- MODULE OrderActions ----------------------------
(***************************************************************************)
(* The ledger of provider calls for limit orders: what an order's actions  *)
(* may do to the outside world, and when.                                  *)
(*                                                                         *)
(*   - OrderActionStore and OrderTxStore admit, sign, claim, start and     *)
(*     reconcile actions;                                                  *)
(*   - MutationGate makes the one outbound call of an attempt, under a     *)
(*     durable reservation and a session lock on the write scope;          *)
(*   - EgressRecovery closes reservations whose gate died before the call; *)
(*   - ActionObservationStore reduces evidence into the action;            *)
(*   - an operator advances the write epoch of the scope (regional         *)
(*     cutover).                                                           *)
(*                                                                         *)
(* There is one provider, so one write scope.  lease_owner, lease_gen,     *)
(* write_scope and write_epoch name exactly the last claim of an action,   *)
(* so a write that passes their fence is one by the last claimant and any  *)
(* other is refused without effect: workers need no names.  action_ver is  *)
(* not kept either: every write that is not the claimant's own clears the  *)
(* lease, which the fence sees.  The outcome column follows the effect:    *)
(* present succeeds, absent fails.  Nothing under src/ parks an action or  *)
(* sets its block_reason, and no step takes a dispatched action back to    *)
(* ready, so an action has one attempt at most.                            *)
(***************************************************************************)
EXTENDS Integers

CONSTANTS
  Actions,      \* the actions that may be admitted
  Orders,
  Of,           \* the order of an action
  Kind,         \* its kind: see Kinds
  Parent,       \* the action it depends on, or NoAction
  Gates,        \* concurrent MutationGate.run calls
  MaxEpoch,     \* bound on the write epochs
  NoAction

\* prepare, edit, cancel_init and expire write to the provider; activate,
\* cancel_confirm and compensate also carry a signed transaction;
\* provider_sync and chain_sync only read.
Kinds == {"write", "signed", "provider_sync", "chain_sync"}

ASSUME KindAssumption == Kind \in [Actions -> Kinds] /\ Of \in [Actions -> Orders]
ASSUME ParentAssumption ==
  /\ NoAction \notin Actions
  /\ Parent \in [Actions -> Actions \cup {NoAction}]
  /\ \A a \in Actions : Parent[a] # NoAction => Of[Parent[a]] = Of[a]
ASSUME EpochAssumption == MaxEpoch \in Nat \ {0}

VARIABLES
  order,    \* order_intents: its version, and whether an asset obligation
            \*   that blocks actions is open
  action,   \* order_actions
  blob,     \* order_tx_blobs: none, live, lapsed (past expires_at), purged
  attempt,  \* action_attempts with its action_egress row
  facts,    \* action_obs: the current decisive facts about an action
  anomaly,  \* order_anomalies: is a blocking one open about the action?
  epoch,    \* order_epochs: the current epoch of the scope, and is it live?
  gate,     \* local state of the MutationGate.run calls
  calls,    \* external: how often the provider was called for an action
  effect    \* external: what the provider made of it

vars == <<order, action, blob, attempt, facts, anomaly, epoch, gate, calls, effect>>

-----------------------------------------------------------------------------
Reads == {a \in Actions : Kind[a] \in {"provider_sync", "chain_sync"}}

\* evidence in orderPolicy.json: the sources that must agree on the effect.
Sources(a) == CASE Kind[a] = "signed"     -> {"provider", "chain"}
                [] Kind[a] = "chain_sync" -> {"chain"}
                [] OTHER                  -> {"provider"}

\* Decisive facts.  strictProofPolicy takes absence from the chain alone.
Facts == ({"provider"} \X {"presence", "conflict"})
           \cup ({"chain"} \X {"presence", "absence", "conflict"})

NotAdmitted == [work |-> "none", effect |-> "not_possible", expected |-> 0,
                lease |-> "none", epoch |-> 0]

ActionRows == [work: {"none", "queued", "awaiting_sig", "ready", "dispatching",
                      "reconciling", "done"},
               effect: {"not_possible", "possible", "present", "absent", "conflict"},
               expected: Nat,
               lease: {"none", "live", "over"},
               epoch: 0 .. MaxEpoch]

NoAttempt == [epoch |-> 0, deadline |-> "none", send |-> "none", egress |-> "none"]

\* egress is the phase of action_egress and, once it is closed, its end_kind.
AttemptRows == [epoch: 0 .. MaxEpoch,
                deadline: {"none", "live", "passed"},
                send: {"none", "started", "responded"},
                egress: {"none", "reserved", "started", "settled",
                         "deadline_before_start", "deadline_after_start"}]

IdleGate == [pc |-> "idle", action |-> NoAction, session |-> FALSE]

\* session: does the gate's pinned connection still hold its shared lock on
\* the scope?
GateStates == [pc: {"idle", "reserved", "started", "calling"},
               action: Actions \cup {NoAction}, session: BOOLEAN]

Init ==
  /\ order = [o \in Orders |-> [ver |-> 0, obliged |-> FALSE]]
  /\ action = [a \in Actions |-> NotAdmitted]
  /\ blob = [a \in Actions |-> "none"]
  /\ attempt = [a \in Actions |-> NoAttempt]
  /\ facts = [a \in Actions |-> {}]
  /\ anomaly = [a \in Actions |-> FALSE]
  /\ epoch = [n |-> 1, live |-> TRUE]
  /\ gate = [g \in Gates |-> IdleGate]
  /\ calls = [a \in Actions |-> 0]
  /\ effect = [a \in Actions |-> "none"]

-----------------------------------------------------------------------------
(* Guards shared by the operations.                                        *)

Unfinished(a) == action[a].work \notin {"none", "done"}
Siblings(a) == {b \in Actions : Of[b] = Of[a] /\ b # a}

\* gate and the claim query: the order still stands where the action was
\* admitted, nothing earlier is unfinished, and the parent has succeeded.
Current(a) == order[Of[a]].ver = action[a].expected + 1
PriorsDone(a) ==
  \A b \in Siblings(a) :
    Unfinished(b) => action[b].expected >= action[a].expected

\* Fault: a parent that is over will do.
ParentSucceeded_Done(a) ==
  Parent[a] # NoAction => action[Parent[a]].work = "done"

ParentSucceeded(a) ==
  Parent[a] # NoAction => /\ action[Parent[a]].work = "done"
                          /\ action[Parent[a]].effect = "present"
                          /\ Of[Parent[a]] = Of[a]
InTurn(a) == Current(a) /\ PriorsDone(a) /\ ParentSucceeded(a)

\* assertCircuit and assertEgress: money may move only when nothing about the
\* order is unresolved.
CircuitClosed(a) == a \in Reads \/ ~ order[Of[a]].obliged
Anomalous(o) == \E a \in Actions : Of[a] = o /\ anomaly[a]

\* order_action_guard (V019): a row that keeps a lease is written only in the
\* lease's live epoch.
EpochStands(a) == epoch.live /\ epoch.n = action[a].epoch
HoldsLease(a) == action[a].lease = "live" /\ EpochStands(a)

SignedBytes(a) == Kind[a] = "signed" => blob[a] = "live"

SetAction(a, row) == action' = [action EXCEPT ![a] = row]
Unleased(row) == [row EXCEPT !.lease = "none", !.epoch = 0]

-----------------------------------------------------------------------------
(* Admission and signing.                                                  *)

\* Fault: the action is admitted at the version before the caller's.
Admit_Behind(a) ==
  /\ action[a].work = "none"
  /\ \A b \in Siblings(a) : ~ Unfinished(b)
  /\ CircuitClosed(a)
  /\ order' = [order EXCEPT ![Of[a]].ver = @ + 1]
  /\ SetAction(a, [NotAdmitted EXCEPT !.work = "queued",
                                      !.expected = order[Of[a]].ver - 1])
  /\ UNCHANGED <<blob, attempt, facts, anomaly, epoch, gate, calls, effect>>

\* admit: advances the order's version from the one the caller saw, unless an
\* action is unfinished.  A replay of the client key changes nothing.
Admit(a) ==
  /\ action[a].work = "none"
  /\ Parent[a] # NoAction => action[Parent[a]].work # "none"
  /\ \A b \in Siblings(a) : ~ Unfinished(b)
  /\ CircuitClosed(a)
  /\ order' = [order EXCEPT ![Of[a]].ver = @ + 1]
  /\ SetAction(a, [NotAdmitted EXCEPT !.work = "queued",
                                      !.expected = order[Of[a]].ver])
  /\ UNCHANGED <<blob, attempt, facts, anomaly, epoch, gate, calls, effect>>

\* expect: the provider's message is fixed before the user signs it.
Expect(a) ==
  /\ Kind[a] = "signed"
  /\ action[a].work = "queued" /\ action[a].lease = "none"
  /\ SetAction(a, [action[a] EXCEPT !.work = "awaiting_sig"])
  /\ UNCHANGED <<order, blob, attempt, facts, anomaly, epoch, gate, calls, effect>>

\* bind: the signed transaction is stored and the action becomes ready.
Bind(a) ==
  /\ Kind[a] = "signed"
  /\ action[a].work = "awaiting_sig" /\ action[a].lease = "none"
  /\ SetAction(a, [action[a] EXCEPT !.work = "ready"])
  /\ blob' = [blob EXCEPT ![a] = "live"]
  /\ UNCHANGED <<order, attempt, facts, anomaly, epoch, gate, calls, effect>>

-----------------------------------------------------------------------------
(* The steps of the worker that holds the action's last claim.             *)

Claimable(a) ==
  /\ InTurn(a)
  /\ action[a].work \in {"queued", "ready", "reconciling"}
  /\ action[a].lease # "live"
  /\ action[a].work = "ready" => SignedBytes(a)
  /\ action[a].work = "reconciling" \/ CircuitClosed(a)

Claim(a) ==
  /\ epoch.live /\ Claimable(a)
  /\ SetAction(a, [action[a] EXCEPT !.lease = "live", !.epoch = epoch.n])
  /\ UNCHANGED <<order, blob, attempt, facts, anomaly, epoch, gate, calls, effect>>

Ready(a) ==
  /\ InTurn(a) /\ HoldsLease(a)
  /\ action[a].work \in {"queued", "awaiting_sig"}
  /\ SetAction(a, [action[a] EXCEPT !.work = "ready"])
  /\ UNCHANGED <<order, blob, attempt, facts, anomaly, epoch, gate, calls, effect>>

\* start: from here on the provider may have acted.
Start(a) ==
  /\ InTurn(a) /\ HoldsLease(a)
  /\ action[a].work = "ready"
  /\ a \in Reads \/ ~ Anomalous(Of[a])
  /\ CircuitClosed(a) /\ SignedBytes(a)
  /\ SetAction(a, [action[a] EXCEPT !.work = "dispatching", !.effect = "possible"])
  /\ attempt' = [attempt EXCEPT ![a] =
       [epoch |-> action[a].epoch, deadline |-> "live", send |-> "started",
        egress |-> "none"]]
  /\ UNCHANGED <<order, blob, facts, anomaly, epoch, gate, calls, effect>>

\* respond: no fence, a late answer is recorded whoever holds the action.
Respond(a) ==
  /\ attempt[a].send = "started"
  /\ attempt' = [attempt EXCEPT ![a].send = "responded"]
  /\ UNCHANGED <<order, action, blob, facts, anomaly, epoch, gate, calls, effect>>

\* reconcile and defer release the lease, so the epoch may have moved on.
Reconcile(a) ==
  /\ InTurn(a) /\ action[a].lease = "live"
  /\ action[a].work = "dispatching" /\ action[a].effect = "possible"
  /\ SetAction(a, Unleased([action[a] EXCEPT !.work = "reconciling"]))
  /\ UNCHANGED <<order, blob, attempt, facts, anomaly, epoch, gate, calls, effect>>

Defer(a) ==
  /\ InTurn(a) /\ action[a].lease = "live"
  /\ action[a].work = "reconciling"
  /\ SetAction(a, Unleased(action[a]))
  /\ UNCHANGED <<order, blob, attempt, facts, anomaly, epoch, gate, calls, effect>>

-----------------------------------------------------------------------------
(* Evidence.                                                               *)

Says(known, source, verdict) == <<source, verdict>> \in known
Conflicting(a, known) ==
  \/ \E s \in Sources(a) : Says(known, s, "conflict")
  \/ \E s, t \in Sources(a) : Says(known, s, "presence") /\ Says(known, t, "absence")

\* Fault: the chain's word alone settles an action that has two sources.
Derived_ChainAlone(a, known) ==
  CASE Conflicting(a, known) -> "conflict"
    [] \A s \in Sources(a) : Says(known, s, "presence") -> "present"
    [] Says(known, "chain", "absence") -> "absent"
    [] OTHER -> "possible"

\* deriveEffect, action_effect_derived: absence and presence each need every
\* source of the action's kind.
Derived(a, known) ==
  CASE Conflicting(a, known) -> "conflict"
    [] \A s \in Sources(a) : Says(known, s, "presence") -> "present"
    [] \A s \in Sources(a) : Says(known, s, "absence") -> "absent"
    [] OTHER -> "possible"

\* The evidence is true of a write: it is reported present once it has
\* happened as desired, and a conflict is an effect that differs.
Truthful(a, verdict) ==
  a \notin Reads => /\ verdict = "presence" => effect[a] = "match"
                    /\ verdict = "conflict" => effect[a] = "differ"

\* Fault: only contradicting proof opens the anomaly, not withdrawn proof.
ReduceDone_ConflictOnly(a, derived) ==
  /\ action[a].work = "done"
  /\ anomaly' = [anomaly EXCEPT ![a] = @ \/ derived = "conflict"]
  /\ UNCHANGED action

\* reduce, recordTerminalConflict: a settled action is never rewritten, a
\* divergent proof opens a blocking anomaly about it.
ReduceDone(a, derived) ==
  /\ action[a].work = "done"
  /\ anomaly' = [anomaly EXCEPT ![a] = @ \/ derived # action[a].effect]
  /\ UNCHANGED action

\* reduce: a conflict is left only by decisive evidence.
ReduceOpen(a, derived) ==
  LET result == IF action[a].effect = "conflict" /\ derived = "possible"
                THEN "conflict" ELSE derived
      settled == result \in {"present", "absent"}
  IN /\ Unfinished(a)
     /\ action[a].effect = "not_possible" => derived = "absent"
     /\ SetAction(a, Unleased([action[a] EXCEPT
          !.work = IF settled THEN "done" ELSE "reconciling", !.effect = result]))
     /\ UNCHANGED anomaly

\* observe: one more fact, or a revision of an earlier one of its source.  A
\* revision may say nothing decisive ("context").
Observe(a) ==
  \E source \in Sources(a), verdict \in {"presence", "absence", "conflict", "context"} :
    \E dropped \in SUBSET {f \in facts[a] : f[1] = source} :
      LET known == (facts[a] \ dropped) \cup ({<<source, verdict>>} \cap Facts)
      IN /\ \A f, g \in dropped : f = g
         /\ <<source, verdict>> \in Facts \/ verdict = "context"
         /\ Truthful(a, verdict)
         /\ facts' = [facts EXCEPT ![a] = known]
         /\ ReduceDone(a, Derived(a, known)) \/ ReduceOpen(a, Derived(a, known))
         /\ UNCHANGED <<order, blob, attempt, epoch, gate, calls, effect>>

\* evidence_anomaly_guard: not while the proof still diverges.
ResolveAnomaly(a) ==
  /\ anomaly[a]
  /\ Derived(a, facts[a]) = action[a].effect
  /\ anomaly' = [anomaly EXCEPT ![a] = FALSE]
  /\ UNCHANGED <<order, action, blob, attempt, facts, epoch, gate, calls, effect>>

\* The asset ledger opens and settles obligations of the order.
Oblige(o) ==
  /\ order' = [order EXCEPT ![o].obliged = ~ @]
  /\ UNCHANGED <<action, blob, attempt, facts, anomaly, epoch, gate, calls, effect>>

-----------------------------------------------------------------------------
(* The write epoch.                                                        *)

LockedBy(g) == gate[g].session
Authorized(a) ==
  attempt[a].egress \in {"reserved", "started"} /\ attempt[a].deadline = "live"

\* Fault: the durable authorizations are not looked at.
AdvanceEpoch_LocksOnly(live) ==
  /\ epoch.n < MaxEpoch
  /\ \A g \in Gates : ~ LockedBy(g)
  /\ epoch' = [n |-> epoch.n + 1, live |-> live]
  /\ UNCHANGED <<order, action, blob, attempt, facts, anomaly, gate, calls, effect>>

\* order_epoch_guard: the exclusive lock waits for every gate's session, and a
\* call that is still authorized refuses the new epoch.
AdvanceEpoch(live) ==
  /\ epoch.n < MaxEpoch
  /\ \A g \in Gates : ~ LockedBy(g)
  /\ \A a \in Actions : ~ Authorized(a)
  /\ epoch' = [n |-> epoch.n + 1, live |-> live]
  /\ UNCHANGED <<order, action, blob, attempt, facts, anomaly, gate, calls, effect>>

-----------------------------------------------------------------------------
(* MutationGate.run.                                                       *)

SetGate(g, state) == gate' = [gate EXCEPT ![g] = state]
GateAt(g, pc) == gate[g].pc = pc
SetEgress(a, phase) == attempt' = [attempt EXCEPT ![a].egress = phase]
Closed(a) == attempt[a].egress \in
  {"settled", "deadline_before_start", "deadline_after_start"}

\* assertActive and the insert guard of action_egress (V031, V039).
MayReserve(a) ==
  /\ action[a].work = "dispatching" /\ HoldsLease(a)
  /\ attempt[a].send = "started" /\ attempt[a].deadline = "live"
  /\ attempt[a].epoch = action[a].epoch
  /\ ~ Anomalous(Of[a])
  /\ SignedBytes(a)

\* Fault: an earlier reservation of the attempt is taken over.
Reserve_TakeOver(g, a) ==
  /\ GateAt(g, "idle")
  /\ MayReserve(a)
  /\ SetEgress(a, "reserved")
  /\ \/ SetGate(g, [pc |-> "reserved", action |-> a, session |-> TRUE])
     \/ UNCHANGED gate
  /\ UNCHANGED <<order, action, blob, facts, anomaly, epoch, calls, effect>>

\* acquire and reserve: one reservation per attempt, ever.  When the outcome of
\* the commit is unknown, or the process dies, the gate gives up and the
\* reservation stays.
Reserve(g, a) ==
  /\ GateAt(g, "idle")
  /\ attempt[a].egress = "none"
  /\ MayReserve(a)
  /\ SetEgress(a, "reserved")
  /\ \/ SetGate(g, [pc |-> "reserved", action |-> a, session |-> TRUE])
     \/ UNCHANGED gate
  /\ UNCHANGED <<order, action, blob, facts, anomaly, epoch, calls, effect>>

\* invoke: the start fact, refused past the deadline.  Its answer may get lost.
GateStart(g) ==
  LET a == gate[g].action
  IN /\ GateAt(g, "reserved")
     /\ attempt[a].egress = "reserved" /\ attempt[a].deadline = "live"
     /\ SetEgress(a, "started")
     /\ \/ SetGate(g, [gate[g] EXCEPT !.pc = "started"])
        \/ SetGate(g, IdleGate)
     /\ UNCHANGED <<order, action, blob, facts, anomaly, epoch, calls, effect>>

\* invoke: the start was refused.  When recovery has closed the reservation
\* first, the start finds no row to write.
GateTooLate(g) ==
  LET a == gate[g].action
  IN /\ GateAt(g, "reserved")
     /\ attempt[a].deadline = "passed" \/ Closed(a)
     /\ SetEgress(a, IF Closed(a) THEN attempt[a].egress ELSE "deadline_before_start")
     /\ SetGate(g, IdleGate)
     /\ UNCHANGED <<order, action, blob, facts, anomaly, epoch, calls, effect>>

\* invoke: no budget is left between the start fact and the call.
GateNoBudget(g) ==
  LET a == gate[g].action
  IN /\ GateAt(g, "started") /\ attempt[a].deadline = "passed"
     /\ IF gate[g].session THEN SetEgress(a, "deadline_after_start")
                           ELSE UNCHANGED attempt
     /\ SetGate(g, IdleGate)
     /\ UNCHANGED <<order, action, blob, facts, anomaly, epoch, calls, effect>>

\* invoke: forward is called.  The budget was computed before, so a process
\* that was held up may call past the deadline; a lost session does not stop it.
GateCall(g) ==
  LET a == gate[g].action
  IN /\ GateAt(g, "started")
     /\ calls' = [calls EXCEPT ![a] = @ + 1]
     /\ SetGate(g, [gate[g] EXCEPT !.pc = "calling"])
     /\ UNCHANGED <<order, action, blob, attempt, facts, anomaly, epoch, effect>>

\* Fault: a gate whose caller has been given its timeout keeps its session.
GateFinish_KeepsSession(g) ==
  LET a == gate[g].action
  IN /\ GateAt(g, "calling")
     /\ \/ gate[g].session /\ SetEgress(a, "settled")
        \/ UNCHANGED attempt
     /\ attempt[a].deadline = "live"
     /\ SetGate(g, IdleGate)
     /\ UNCHANGED <<order, action, blob, facts, anomaly, epoch, calls, effect>>

\* The transport settles: in time (invoke), or after the caller was told of a
\* timeout or a lost session (finishDetached).  The gate holds its session
\* until then; its last fact may not get written.
GateFinish(g) ==
  LET a == gate[g].action
  IN /\ GateAt(g, "calling")
     /\ \/ gate[g].session /\ SetEgress(a, "settled")
        \/ UNCHANGED attempt
     /\ SetGate(g, IdleGate)
     /\ UNCHANGED <<order, action, blob, facts, anomaly, epoch, calls, effect>>

\* The connection breaks: a gate that has not started yet gives up.
SessionLost(g) ==
  /\ gate[g].session
  /\ SetGate(g, IF GateAt(g, "reserved") THEN IdleGate
                                         ELSE [gate[g] EXCEPT !.session = FALSE])
  /\ UNCHANGED <<order, action, blob, attempt, facts, anomaly, epoch, calls, effect>>

GateCrash(g) ==
  /\ ~ GateAt(g, "idle")
  /\ SetGate(g, IdleGate)
  /\ UNCHANGED <<order, action, blob, attempt, facts, anomaly, epoch, calls, effect>>

-----------------------------------------------------------------------------
(* Recovery, retention and time.                                           *)

\* Fault: reservations that were started are closed as well.
RecoverEgress_Started(a) ==
  /\ attempt[a].send = "started" /\ attempt[a].deadline = "passed"
  /\ attempt[a].egress \in {"reserved", "started"}
  /\ SetEgress(a, "deadline_before_start")
  /\ UNCHANGED <<order, action, blob, facts, anomaly, epoch, gate, calls, effect>>

\* Fault: the reservations of actions that moved on are not looked for.
RecoverEgress_Dispatching(a) ==
  /\ action[a].work = "dispatching"
  /\ attempt[a].send = "started" /\ attempt[a].deadline = "passed"
  /\ attempt[a].egress = "reserved"
  /\ SetEgress(a, "deadline_before_start")
  /\ UNCHANGED <<order, action, blob, facts, anomaly, epoch, gate, calls, effect>>

\* recover_action_egress, run in batches by EgressRecovery.
RecoverEgress(a) ==
  /\ attempt[a].send = "started" /\ attempt[a].deadline = "passed"
  /\ attempt[a].egress = "reserved"
  /\ SetEgress(a, "deadline_before_start")
  /\ UNCHANGED <<order, action, blob, facts, anomaly, epoch, gate, calls, effect>>

\* Fault: retention goes by the attempt's response alone.
PurgeBlob_Responded(a) ==
  /\ blob[a] = "lapsed"
  /\ attempt[a].send # "started"
  /\ blob' = [blob EXCEPT ![a] = "purged"]
  /\ UNCHANGED <<order, action, attempt, facts, anomaly, epoch, gate, calls, effect>>

\* purge_expired_blobs.
PurgeBlob(a) ==
  /\ blob[a] = "lapsed" /\ action[a].work = "done"
  /\ attempt[a].send # "started"
  /\ blob' = [blob EXCEPT ![a] = "purged"]
  /\ UNCHANGED <<order, action, attempt, facts, anomaly, epoch, gate, calls, effect>>

\* The bytes of a started attempt outlive its deadline (V039), and so does the
\* lease of a reserved one (V031).
BlobLapses(a) ==
  /\ blob[a] = "live" /\ attempt[a].deadline # "live"
  /\ blob' = [blob EXCEPT ![a] = "lapsed"]
  /\ UNCHANGED <<order, action, attempt, facts, anomaly, epoch, gate, calls, effect>>

LeaseExpires(a) ==
  /\ action[a].lease = "live"
  /\ attempt[a].deadline = "live" => attempt[a].egress = "none"
  /\ SetAction(a, [action[a] EXCEPT !.lease = "over"])
  /\ UNCHANGED <<order, blob, attempt, facts, anomaly, epoch, gate, calls, effect>>

DeadlinePasses(a) ==
  /\ attempt[a].deadline = "live"
  /\ attempt' = [attempt EXCEPT ![a].deadline = "passed"]
  /\ UNCHANGED <<order, action, blob, facts, anomaly, epoch, gate, calls, effect>>

\* The provider acts on a call, as desired or not, at any time after it.
Land(a) ==
  /\ calls[a] > 0 /\ effect[a] = "none" /\ a \notin Reads
  /\ \E kind \in {"match", "differ"} : effect' = [effect EXCEPT ![a] = kind]
  /\ UNCHANGED <<order, action, blob, attempt, facts, anomaly, epoch, gate, calls>>

-----------------------------------------------------------------------------
StoreStep(a) ==
  \/ Admit(a) \/ Expect(a) \/ Bind(a)
  \/ Claim(a) \/ Ready(a) \/ Start(a) \/ Respond(a) \/ Reconcile(a) \/ Defer(a)
  \/ Observe(a) \/ ResolveAnomaly(a)
  \/ RecoverEgress(a) \/ PurgeBlob(a)

GateStep(g) ==
  \/ \E a \in Actions : Reserve(g, a)
  \/ GateStart(g) \/ GateTooLate(g) \/ GateNoBudget(g) \/ GateCall(g)
  \/ GateFinish(g)

World ==
  \/ \E live \in BOOLEAN : AdvanceEpoch(live)
  \/ \E o \in Orders : Oblige(o)
  \/ \E g \in Gates : SessionLost(g) \/ GateCrash(g)
  \/ \E a \in Actions : BlobLapses(a) \/ LeaseExpires(a) \/ DeadlinePasses(a) \/ Land(a)

Next ==
  \/ \E a \in Actions : StoreStep(a)
  \/ \E g \in Gates : GateStep(g)
  \/ World

Spec == Init /\ [][Next]_vars

\* Time passes, recovery runs its loop, and a gate that holds a reservation
\* goes on; forward returns because it is aborted at the deadline.
Fairness ==
  /\ \A a \in Actions : WF_vars(DeadlinePasses(a)) /\ WF_vars(RecoverEgress(a))
  /\ \A g \in Gates :
       WF_vars(GateStart(g) \/ GateTooLate(g) \/ GateNoBudget(g) \/ GateCall(g)
                 \/ GateFinish(g))
FairSpec == Spec /\ Fairness

-----------------------------------------------------------------------------
(* Properties.                                                             *)

\* Every table and every local variable keeps its type.
TypeOK ==
  /\ order \in [Orders -> [ver: Nat, obliged: BOOLEAN]]
  /\ action \in [Actions -> ActionRows]
  /\ blob \in [Actions -> {"none", "live", "lapsed", "purged"}]
  /\ attempt \in [Actions -> AttemptRows]
  /\ facts \in [Actions -> SUBSET Facts]
  /\ anomaly \in [Actions -> BOOLEAN]
  /\ epoch \in [n: 1 .. MaxEpoch, live: BOOLEAN]
  /\ gate \in [Gates -> GateStates]
  /\ calls \in [Actions -> Nat]
  /\ effect \in [Actions -> {"none", "match", "differ"}]

\* However many gates are run for an action, and whatever becomes of them, the
\* provider is called once for it at most.
CalledOnce == \A a \in Actions : calls[a] <= 1

\* An attempt the ledger closes as never handed to the transport was not
\* called and will not be: retrying its effect is safe.
UnsentNotCalled ==
  \A a \in Actions :
    attempt[a].egress \in {"deadline_before_start", "deadline_after_start"} =>
      /\ calls[a] = 0
      /\ \A g \in Gates : GateAt(g, "started") => gate[g].action # a

\* A call belongs to the epoch its attempt was made in, unless its gate has lost
\* its session and was held up past the deadline as well.
CalledInEpoch ==
  [][\A g \in Gates :
       LET a == gate[g].action
       IN (a # NoAction /\ calls'[a] > calls[a] /\ gate'[g].pc = "calling") =>
            \/ attempt[a].epoch = epoch.n /\ epoch.live
            \/ ~ gate[g].session /\ attempt[a].deadline = "passed"]_vars

\* The signed bytes are destroyed only when no gate can still send them.
BytesOutliveCall ==
  \A g \in Gates :
    gate[g].pc \in {"reserved", "started"} => blob[gate[g].action] # "purged"

\* The provider is called at most once for an action, never after the ledger
\* closed it as unsent, and never without the bytes it was given, however the
\* gates, recovery and the purge interleave (mutationGate.ts).
CallsAreSafe == CalledOnce /\ UnsentNotCalled /\ BytesOutliveCall

\* No write of an order reaches the provider once a later action of the order
\* did.
OvertakesNone ==
  \A a \in Actions \ Reads :
    calls'[a] > calls[a] =>
      \A b \in Siblings(a) :
        action[b].work # "none" /\ action[b].expected > action[a].expected => calls[b] = 0

NoOvertaking == [][OvertakesNone]_vars

\* The provider is called for an action that depends on another only when that
\* one is proven to have succeeded; an absent check stops it for good.
ChildNeedsSuccess ==
  \A a \in Actions :
    Parent[a] # NoAction /\ calls[a] > 0 => action[Parent[a]].effect = "present"

\* A settled action whose proof no longer says what was settled has a blocking
\* anomaly open about it.
DivergenceBlocks ==
  \A a \in Actions :
    action[a].work = "done" /\ Derived(a, facts[a]) # action[a].effect => anomaly[a]

\* Nothing stands in the way of a new epoch forever: a gate's lock or an
\* authorization that blocks it is given up.
CutoverUnblocked ==
  \A a \in Actions :
    (Authorized(a) \/ \E g \in Gates : gate[g].action = a /\ LockedBy(g))
      ~> ~ (Authorized(a) \/ \E g \in Gates : gate[g].action = a /\ LockedBy(g))

\* A reservation whose gate died is closed, unless a response of the attempt is
\* recorded first: recovery looks only for attempts without one.
ReservationEnds ==
  \A a \in Actions :
    attempt[a].egress = "reserved" ~>
      attempt[a].egress # "reserved" \/ attempt[a].send = "responded"

=============================================================================

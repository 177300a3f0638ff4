------------------------- MODULE OrderActionsProofs -------------------------
(***************************************************************************)
(* Proofs about OrderActions, for any actions, orders, gates and epochs.   *)
(***************************************************************************)
EXTENDS OrderActions, TLAPS

-----------------------------------------------------------------------------
(* The inductive invariant.                                                *)

Early == {"none", "queued", "awaiting_sig", "ready"}
Unsent == {"none", "reserved", "deadline_before_start", "deadline_after_start"}

\* Does the epoch of a's attempt stand?
InEpoch(a) == attempt[a].epoch = epoch.n /\ epoch.live

\* An action has one attempt, made when its parent had succeeded; the attempt
\* says whether a call is possible, and only a call has an effect.
CallInv(a) ==
  /\ action[a].work \in Early => attempt[a].send = "none"
  /\ attempt[a].send = "none" => attempt[a].egress = "none"
  /\ attempt[a].send # "none" => attempt[a].deadline # "none"
  /\ attempt[a].egress \in Unsent => calls[a] = 0
  /\ calls[a] <= 1
  /\ effect[a] # "none" => calls[a] > 0
  /\ attempt[a].send # "none" /\ Parent[a] # NoAction =>
       action[Parent[a]].work = "done" /\ action[Parent[a]].effect = "present"

\* Versions number the actions of an order: when an action is started, those
\* before it are done.
TurnInv(a) ==
  /\ action[a].work # "none" => action[a].expected < order[Of[a]].ver
  /\ attempt[a].send # "none" =>
       \A b \in Siblings(a) :
         action[b].work # "none" /\ action[b].expected < action[a].expected =>
           action[b].work = "done"

\* Evidence of a write is true, so that a write is done only after its call;
\* proof that no longer says what was settled is an anomaly.
ProofInv(a) ==
  /\ \A s \in {"provider", "chain"} :
       a \notin Reads /\ Says(facts[a], s, "presence") => effect[a] = "match"
  /\ a \notin Reads /\ action[a].work = "done" => calls[a] > 0
  /\ action[a].work = "done" /\ Derived(a, facts[a]) # action[a].effect => anomaly[a]
  /\ blob[a] # "none" => Kind[a] = "signed"

\* A gate knows where the reservation it made can be by now, still has the
\* bytes to send, and either its session or the authorization holds the epoch.
GateInv(g) ==
  LET a == gate[g].action IN
  /\ gate[g].pc # "idle" => a \in Actions
  /\ gate[g].pc = "reserved" => attempt[a].egress \in {"reserved", "deadline_before_start"}
  /\ gate[g].pc = "started" => attempt[a].egress = "started" /\ calls[a] = 0
  /\ gate[g].pc = "calling" => attempt[a].egress = "started"
  /\ gate[g].pc \in {"reserved", "started"} =>
       /\ blob[a] # "purged"
       /\ gate[g].session \/ Authorized(a) => InEpoch(a)

\* No two gates are about the same action.
Apart(g, h) ==
  g # h /\ gate[g].pc # "idle" /\ gate[h].pc # "idle" => gate[g].action # gate[h].action

Inv ==
  /\ TypeOK
  /\ \A a \in Actions : CallInv(a) /\ TurnInv(a) /\ ProofInv(a)
  /\ \A g \in Gates : GateInv(g)
  /\ \A g, h \in Gates : Apart(g, h)

-----------------------------------------------------------------------------
(* Lemmas about evidence.                                                  *)

\* The provider is a source of what is known of a write.
LEMMA WriteSource ==
  ASSUME NEW a \in Actions \ Reads
  PROVE  "provider" \in Sources(a)
  BY KindAssumption DEF Sources, Reads, Kinds

\* Nothing proves that a write had no effect: the provider's word is not
\* enough, and it is needed.
LEMMA WriteNeverAbsent ==
  ASSUME NEW a \in Actions \ Reads, NEW known \in SUBSET Facts
  PROVE  Derived(a, known) # "absent"
<1>1. ~ Says(known, "provider", "absence")
  BY DEF Says, Facts
<1> QED BY <1>1, WriteSource DEF Derived

\* A write is present only if its provider says so.
LEMMA PresentIsSaid ==
  ASSUME NEW a \in Actions \ Reads, NEW known \in SUBSET Facts,
         Derived(a, known) = "present"
  PROVE  Says(known, "provider", "presence")
  BY WriteSource DEF Derived

-----------------------------------------------------------------------------
(* Steps of the store that move an action on, and leave the ledger alone.  *)

\* No action, and the first epoch.
LEMMA InitInv == Init => Inv
<1> SUFFICES ASSUME Init PROVE Inv
  OBVIOUS
<1>1. TypeOK
  BY EpochAssumption DEF Init, TypeOK, NotAdmitted, ActionRows, NoAttempt, AttemptRows,
     IdleGate, GateStates, Facts
<1>2. ASSUME NEW a \in Actions PROVE CallInv(a) /\ TurnInv(a) /\ ProofInv(a)
  BY DEF Init, CallInv, TurnInv, ProofInv, NoAttempt, NotAdmitted, Unsent, Says
<1>3. ASSUME NEW g \in Gates PROVE GateInv(g)
  BY DEF Init, GateInv, IdleGate
<1>4. ASSUME NEW g \in Gates, NEW h \in Gates PROVE Apart(g, h)
  BY DEF Init, Apart, IdleGate
<1> QED BY <1>1, <1>2, <1>3, <1>4 DEF Inv

\* What a row written at an action, or a new fact about it, leaves of the rest.
LEMMA Written ==
  ASSUME Inv, NEW a \in Actions, NEW r \in ActionRows, SetAction(a, r)
  PROVE  /\ action' \in [Actions -> ActionRows] /\ action'[a] = r
         /\ \A b \in Actions : b # a => action'[b] = action[b]
  BY DEF SetAction, Inv, TypeOK

\* A row that is written and neither finished nor reopened by it.
LEMMA ActionStep ==
  ASSUME Inv, NEW a \in Actions, NEW r \in ActionRows, SetAction(a, r),
         r.expected = action[a].expected,
         \/ r.work = action[a].work /\ r.effect = action[a].effect
         \/ /\ action[a].work \notin {"none", "done"} /\ r.work \notin {"none", "done"}
            /\ r.work \in Early => action[a].work \in Early,
         \/ UNCHANGED blob
         \/ Kind[a] = "signed" /\ blob' = [blob EXCEPT ![a] = "live"],
         UNCHANGED <<order, attempt, facts, anomaly, epoch, gate, calls, effect>>
  PROVE  Inv'
<1>1. /\ action' \in [Actions -> ActionRows] /\ action'[a] = r
      /\ \A b \in Actions : b # a => action'[b] = action[b]
  BY Written
<1>2. /\ blob' \in [Actions -> {"none", "live", "lapsed", "purged"}]
      /\ \A b \in Actions : blob'[b] = blob[b] \/ (blob'[b] = "live" /\ Kind[b] = "signed")
  BY DEF Inv, TypeOK
<1>3. TypeOK'
  BY <1>1, <1>2 DEF Inv, TypeOK
<1>4. ASSUME NEW b \in Actions
      PROVE  /\ action[b].work = "done" =>
                  action'[b].work = "done" /\ action'[b].effect = action[b].effect
             /\ action'[b].work = "done" => action[b].work = "done"
             /\ action'[b].work \in Early => action[b].work \in Early
             /\ action'[b].work # "none" <=> action[b].work # "none"
             /\ action'[b].expected = action[b].expected
  BY <1>1
<1>5. ASSUME NEW b \in Actions PROVE CallInv(b)'
  <2>1. Parent[b] # NoAction => Parent[b] \in Actions
    BY ParentAssumption
  <2> QED BY <1>4, <2>1 DEF Inv, CallInv
<1>6. ASSUME NEW b \in Actions PROVE TurnInv(b)'
  BY <1>4 DEF Inv, TurnInv, Siblings
<1>7. ASSUME NEW b \in Actions PROVE ProofInv(b)'
  <2>1. Derived(b, facts[b])' = Derived(b, facts[b])
    BY DEF Derived, Conflicting, Says, Sources
  <2> QED BY <1>2, <1>4, <2>1 DEF Inv, ProofInv, Says
<1>8. ASSUME NEW g \in Gates PROVE GateInv(g)'
  BY <1>2 DEF Inv, GateInv, Authorized, InEpoch
<1>9. ASSUME NEW g \in Gates, NEW h \in Gates PROVE Apart(g, h)'
  BY DEF Inv, Apart
<1> QED BY <1>3, <1>5, <1>6, <1>7, <1>8, <1>9 DEF Inv

\* Taking the lease off a row leaves a row.
LEMMA UnleasedRow ==
  ASSUME NEW r \in ActionRows
  PROVE  /\ Unleased(r) \in ActionRows
         /\ Unleased(r).work = r.work /\ Unleased(r).effect = r.effect
         /\ Unleased(r).expected = r.expected
<1>1. 0 \in 0 .. MaxEpoch
  BY EpochAssumption
<1> QED BY <1>1 DEF Unleased, ActionRows

\* Expect, Bind, Claim, Ready, Reconcile, Defer and the expiry of a lease.
LEMMA MoveStep ==
  ASSUME Inv, NEW a \in Actions,
         \/ Expect(a) \/ Bind(a) \/ Claim(a) \/ Ready(a) \/ Reconcile(a) \/ Defer(a)
         \/ LeaseExpires(a)
  PROVE  Inv'
<1>1. action[a] \in ActionRows /\ epoch \in [n: 1 .. MaxEpoch, live: BOOLEAN]
  BY DEF Inv, TypeOK
<1>2. CASE Expect(a)
  <2> DEFINE r == [action[a] EXCEPT !.work = "awaiting_sig"]
  <2>1. r \in ActionRows /\ r.work = "awaiting_sig" /\ r.expected = action[a].expected
    BY <1>1 DEF ActionRows
  <2>2. /\ SetAction(a, r) /\ action[a].work = "queued"
        /\ UNCHANGED <<order, blob, attempt, facts, anomaly, epoch, gate, calls, effect>>
    BY <1>2 DEF Expect
  <2> HIDE DEF r
  <2> QED BY <2>1, <2>2, ActionStep DEF Early
<1>3. CASE Bind(a)
  <2> DEFINE r == [action[a] EXCEPT !.work = "ready"]
  <2>1. r \in ActionRows /\ r.work = "ready" /\ r.expected = action[a].expected
    BY <1>1 DEF ActionRows
  <2>2. /\ SetAction(a, r) /\ action[a].work = "awaiting_sig" /\ Kind[a] = "signed"
        /\ blob' = [blob EXCEPT ![a] = "live"]
        /\ UNCHANGED <<order, attempt, facts, anomaly, epoch, gate, calls, effect>>
    BY <1>3 DEF Bind
  <2> HIDE DEF r
  <2> QED BY <2>1, <2>2, ActionStep DEF Early
<1>4. CASE Claim(a)
  <2> DEFINE r == [action[a] EXCEPT !.lease = "live", !.epoch = epoch.n]
  <2>1. r \in ActionRows /\ r.work = action[a].work /\ r.effect = action[a].effect
        /\ r.expected = action[a].expected
    <3>1. epoch.n \in 0 .. MaxEpoch
      BY <1>1, EpochAssumption
    <3> QED BY <1>1, <3>1 DEF ActionRows
  <2>2. /\ SetAction(a, r)
        /\ UNCHANGED <<order, blob, attempt, facts, anomaly, epoch, gate, calls, effect>>
    BY <1>4 DEF Claim
  <2> HIDE DEF r
  <2> QED BY <2>1, <2>2, ActionStep
<1>5. CASE Ready(a)
  <2> DEFINE r == [action[a] EXCEPT !.work = "ready"]
  <2>1. r \in ActionRows /\ r.work = "ready" /\ r.expected = action[a].expected
    BY <1>1 DEF ActionRows
  <2>2. /\ SetAction(a, r) /\ action[a].work \in {"queued", "awaiting_sig"}
        /\ UNCHANGED <<order, blob, attempt, facts, anomaly, epoch, gate, calls, effect>>
    BY <1>5 DEF Ready
  <2> HIDE DEF r
  <2> QED BY <2>1, <2>2, ActionStep DEF Early
<1>6. CASE Reconcile(a)
  <2> DEFINE r == Unleased([action[a] EXCEPT !.work = "reconciling"])
  <2>1. r \in ActionRows /\ r.work = "reconciling" /\ r.expected = action[a].expected
    <3> DEFINE q == [action[a] EXCEPT !.work = "reconciling"]
    <3>1. q \in ActionRows /\ q.work = "reconciling" /\ q.expected = action[a].expected
      BY <1>1 DEF ActionRows
    <3> HIDE DEF q
    <3>2. r = Unleased(q)
      BY DEF q
    <3> QED BY <3>1, <3>2, UnleasedRow
  <2>2. /\ SetAction(a, r) /\ action[a].work = "dispatching"
        /\ UNCHANGED <<order, blob, attempt, facts, anomaly, epoch, gate, calls, effect>>
    BY <1>6 DEF Reconcile
  <2> HIDE DEF r
  <2> QED BY <2>1, <2>2, ActionStep DEF Early
<1>7. CASE Defer(a)
  <2> DEFINE r == Unleased(action[a])
  <2>1. r \in ActionRows /\ r.work = action[a].work /\ r.effect = action[a].effect
        /\ r.expected = action[a].expected
    BY <1>1, UnleasedRow
  <2>2. /\ SetAction(a, r)
        /\ UNCHANGED <<order, blob, attempt, facts, anomaly, epoch, gate, calls, effect>>
    BY <1>7 DEF Defer
  <2> HIDE DEF r
  <2> QED BY <2>1, <2>2, ActionStep
<1>8. CASE LeaseExpires(a)
  <2> DEFINE r == [action[a] EXCEPT !.lease = "over"]
  <2>1. r \in ActionRows /\ r.work = action[a].work /\ r.effect = action[a].effect
        /\ r.expected = action[a].expected
    BY <1>1 DEF ActionRows
  <2>2. /\ SetAction(a, r)
        /\ UNCHANGED <<order, blob, attempt, facts, anomaly, epoch, gate, calls, effect>>
    BY <1>8 DEF LeaseExpires
  <2> HIDE DEF r
  <2> QED BY <2>1, <2>2, ActionStep
<1> QED BY <1>2, <1>3, <1>4, <1>5, <1>6, <1>7, <1>8

\* Admitting an action gives it a version above those of its order's others.
LEMMA AdmitStep ==
  ASSUME Inv, NEW a \in Actions, Admit(a)
  PROVE  Inv'
<1>1. /\ Of \in [Actions -> Orders] /\ order[Of[a]].ver \in Nat
      /\ \A b \in Actions : order[Of[b]].ver \in Nat
  BY KindAssumption DEF Inv, TypeOK
<1>2. PICK r \in ActionRows :
        SetAction(a, r) /\ r.work = "queued" /\ r.expected = order[Of[a]].ver
  <2> DEFINE r == [NotAdmitted EXCEPT !.work = "queued", !.expected = order[Of[a]].ver]
  <2>1. 0 \in 0 .. MaxEpoch
    BY EpochAssumption
  <2>2. r \in ActionRows /\ r.work = "queued" /\ r.expected = order[Of[a]].ver
    BY <1>1, <2>1 DEF NotAdmitted, ActionRows
  <2>3. SetAction(a, r)
    BY DEF Admit
  <2> HIDE DEF r
  <2> QED BY <2>2, <2>3
<1>3. /\ action' \in [Actions -> ActionRows] /\ action'[a] = r
      /\ \A b \in Actions : b # a => action'[b] = action[b]
  BY <1>2, Written
<1>4. /\ order' \in [Orders -> [ver: Nat, obliged: BOOLEAN]]
      /\ order'[Of[a]].ver = order[Of[a]].ver + 1
      /\ \A b \in Actions : order'[Of[b]].ver >= order[Of[b]].ver
  <2> DEFINE o == [order[Of[a]] EXCEPT !.ver = @ + 1]
  <2>1. o \in [ver: Nat, obliged: BOOLEAN] /\ o.ver = order[Of[a]].ver + 1
    BY <1>1 DEF Inv, TypeOK
  <2>2. order' = [order EXCEPT ![Of[a]] = o]
    BY DEF Admit
  <2> HIDE DEF o
  <2> QED BY <1>1, <2>1, <2>2 DEF Inv, TypeOK
<1>5. UNCHANGED <<blob, attempt, facts, anomaly, epoch, gate, calls, effect>>
      /\ action[a].work = "none"
  BY DEF Admit
<1>6. TypeOK'
  BY <1>3, <1>4, <1>5 DEF Inv, TypeOK
<1>7. ASSUME NEW b \in Actions PROVE CallInv(b)'
  <2>1. Parent[b] # NoAction => Parent[b] \in Actions
    BY ParentAssumption
  <2> QED BY <1>2, <1>3, <1>5, <2>1 DEF Inv, CallInv, Early
<1>8. ASSUME NEW b \in Actions PROVE TurnInv(b)'
  <2>1. action'[b].expected \in Nat /\ action[b].expected \in Nat
    BY <1>3 DEF Inv, TypeOK, ActionRows
  <2>2. action'[b].work # "none" => action'[b].expected < order'[Of[b]].ver
    BY <1>1, <1>2, <1>3, <1>4, <2>1 DEF Inv, TurnInv
  <2>3. ASSUME attempt[b].send # "none", NEW c \in Siblings(b),
               action'[c].work # "none", action'[c].expected < action'[b].expected
        PROVE  action'[c].work = "done"
    <3>1. b # a /\ action'[b] = action[b] /\ action[b].work # "none"
      BY <1>3, <1>5, <2>3 DEF Inv, CallInv, Early
    <3>2. c \in Actions /\ Of[c] = Of[b]
      BY DEF Siblings
    <3>3. CASE c = a
      <4>1. action[b].expected < order[Of[a]].ver
        BY <3>1, <3>2, <3>3 DEF Inv, TurnInv
      <4> QED BY <1>1, <1>2, <1>3, <2>1, <2>3, <3>1, <3>3, <4>1
    <3>4. CASE c # a
      BY <1>3, <2>3, <3>1, <3>2, <3>4 DEF Inv, TurnInv
    <3> QED BY <3>3, <3>4
  <2> QED BY <1>5, <2>2, <2>3 DEF TurnInv, Siblings
<1>9. ASSUME NEW b \in Actions PROVE ProofInv(b)'
  <2>1. Derived(b, facts[b])' = Derived(b, facts[b])
    BY <1>5 DEF Derived, Conflicting, Says, Sources
  <2>2. action'[b].work = "done" => action'[b] = action[b]
    BY <1>2, <1>3
  <2> QED BY <1>5, <2>1, <2>2 DEF Inv, ProofInv, Says
<1>10. ASSUME NEW g \in Gates PROVE GateInv(g)'
  BY <1>5 DEF Inv, GateInv, Authorized, InEpoch
<1>11. ASSUME NEW g \in Gates, NEW h \in Gates PROVE Apart(g, h)'
  BY <1>5 DEF Inv, Apart
<1> QED BY <1>6, <1>7, <1>8, <1>9, <1>10, <1>11 DEF Inv

\* No gate is about an action that has no reservation.
LEMMA NoGateYet ==
  ASSUME Inv, NEW a \in Actions, attempt[a].egress = "none",
         NEW g \in Gates, gate[g].pc # "idle"
  PROVE  gate[g].action # a
<1>1. gate[g].pc \in {"reserved", "started", "calling"}
  BY DEF Inv, TypeOK, GateStates
<1> QED BY <1>1 DEF Inv, GateInv

\* Starting an action makes its one attempt; no gate knows of it yet.
LEMMA StartStep ==
  ASSUME Inv, NEW a \in Actions, Start(a)
  PROVE  Inv'
<1>1. PICK r \in ActionRows :
        /\ SetAction(a, r) /\ r.work = "dispatching" /\ r.expected = action[a].expected
  <2> DEFINE r == [action[a] EXCEPT !.work = "dispatching", !.effect = "possible"]
  <2>1. r \in ActionRows /\ r.work = "dispatching" /\ r.expected = action[a].expected
    <3>1. action[a] \in ActionRows
      BY DEF Inv, TypeOK
    <3> QED BY <3>1 DEF ActionRows
  <2>2. SetAction(a, r)
    BY DEF Start
  <2> HIDE DEF r
  <2> QED BY <2>1, <2>2
<1>2. /\ action' \in [Actions -> ActionRows] /\ action'[a] = r
      /\ \A b \in Actions : b # a => action'[b] = action[b]
  BY <1>1, Written
<1>3. PICK t \in AttemptRows :
        /\ attempt' = [attempt EXCEPT ![a] = t]
        /\ t.send = "started" /\ t.egress = "none" /\ t.deadline = "live"
  <2> DEFINE t == [epoch |-> action[a].epoch, deadline |-> "live", send |-> "started",
                   egress |-> "none"]
  <2>1. t \in AttemptRows /\ t.send = "started" /\ t.egress = "none" /\ t.deadline = "live"
    BY DEF Inv, TypeOK, ActionRows, AttemptRows
  <2>2. attempt' = [attempt EXCEPT ![a] = t]
    BY DEF Start
  <2> HIDE DEF t
  <2> QED BY <2>1, <2>2
<1>4. /\ attempt' \in [Actions -> AttemptRows] /\ attempt'[a] = t
      /\ \A b \in Actions : b # a => attempt'[b] = attempt[b]
  BY <1>3 DEF Inv, TypeOK
<1>5. UNCHANGED <<order, blob, facts, anomaly, epoch, gate, calls, effect>>
      /\ action[a].work = "ready" /\ InTurn(a)
  BY DEF Start
<1>6. attempt[a].send = "none" /\ attempt[a].egress = "none" /\ calls[a] = 0
  BY <1>5 DEF Inv, CallInv, Early, Unsent
<1>7. \A g \in Gates : gate[g].pc # "idle" => gate[g].action # a
  BY <1>6, NoGateYet
<1>8. TypeOK'
  BY <1>2, <1>4, <1>5 DEF Inv, TypeOK
<1>9. ASSUME NEW b \in Actions PROVE CallInv(b)'
  <2>1. Parent[b] # NoAction => Parent[b] \in Actions
    BY ParentAssumption
  <2>2. \A c \in Actions : action[c].work = "done" => action'[c] = action[c]
    BY <1>2, <1>5
  <2>3. CASE b = a
    BY <1>1, <1>2, <1>3, <1>4, <1>5, <1>6, <2>1, <2>2, <2>3
       DEF Inv, CallInv, InTurn, ParentSucceeded, Early, Unsent
  <2>4. CASE b # a
    BY <1>2, <1>4, <1>5, <2>1, <2>2, <2>4 DEF Inv, CallInv
  <2> QED BY <2>3, <2>4
<1>10. ASSUME NEW b \in Actions PROVE TurnInv(b)'
  <2>1. \A c \in Actions :
          /\ action'[c].expected = action[c].expected
          /\ action'[c].work # "none" => action[c].work # "none"
          /\ action[c].work = "done" => action'[c].work = "done"
    BY <1>1, <1>2, <1>5
  <2>2. action'[b].work # "none" => action'[b].expected < order'[Of[b]].ver
    BY <1>5, <2>1 DEF Inv, TurnInv
  <2>3. ASSUME attempt'[b].send # "none", NEW c \in Siblings(b),
               action'[c].work # "none", action'[c].expected < action'[b].expected
        PROVE  action'[c].work = "done"
    <3>1. c \in Actions
      BY DEF Siblings
    <3>2. CASE b = a
      <4>1. Unfinished(c) => action[c].expected >= action[b].expected
        BY <1>5, <3>2 DEF InTurn, PriorsDone
      <4>2. action[c].expected \in Nat /\ action[b].expected \in Nat
        BY <3>1 DEF Inv, TypeOK, ActionRows
      <4> QED BY <2>1, <2>3, <3>1, <4>1, <4>2 DEF Unfinished
    <3>3. CASE b # a
      BY <1>4, <2>1, <2>3, <3>1, <3>3 DEF Inv, TurnInv
    <3> QED BY <3>2, <3>3
  <2> QED BY <2>2, <2>3 DEF TurnInv, Siblings
<1>11. ASSUME NEW b \in Actions PROVE ProofInv(b)'
  <2>1. Derived(b, facts[b])' = Derived(b, facts[b])
    BY <1>5 DEF Derived, Conflicting, Says, Sources
  <2>2. action'[b].work = "done" => action'[b] = action[b]
    BY <1>1, <1>2
  <2> QED BY <1>5, <2>1, <2>2 DEF Inv, ProofInv, Says
<1>12. ASSUME NEW g \in Gates PROVE GateInv(g)'
  <2>1. CASE gate[g].pc = "idle"
    BY <1>5, <2>1 DEF GateInv
  <2>2. CASE gate[g].pc # "idle"
    <3>1. gate[g].action \in Actions /\ gate[g].action # a
      BY <1>7, <2>2 DEF Inv, GateInv
    <3>2. attempt'[gate[g].action] = attempt[gate[g].action]
      BY <1>4, <3>1
    <3> QED BY <1>5, <3>2 DEF Inv, GateInv, Authorized, InEpoch
  <2> QED BY <2>1, <2>2
<1>13. ASSUME NEW g \in Gates, NEW h \in Gates PROVE Apart(g, h)'
  BY <1>5 DEF Inv, Apart
<1> QED BY <1>8, <1>9, <1>10, <1>11, <1>12, <1>13 DEF Inv

-----------------------------------------------------------------------------
(* Steps of the ledger and of the gates.                                   *)

\* A row of the ledger is written, and its gate may move or call.
LEMMA LedgerStep ==
  ASSUME Inv, NEW a \in Actions, NEW t \in AttemptRows, NEW n \in 0 .. 1,
         attempt' = [attempt EXCEPT ![a] = t], calls' = [calls EXCEPT ![a] = n],
         t.send = "none" <=> attempt[a].send = "none",
         t.send = "none" => t.egress = "none",
         t.deadline = "none" <=> attempt[a].deadline = "none",
         calls[a] <= n, t.egress \in Unsent => n = 0,
         UNCHANGED <<order, action, blob, facts, anomaly, epoch, effect>>,
         gate' \in [Gates -> GateStates],
         \A g \in Gates : GateInv(g)', \A g, h \in Gates : Apart(g, h)'
  PROVE  Inv'
<1>1. /\ attempt' \in [Actions -> AttemptRows] /\ attempt'[a] = t
      /\ \A b \in Actions : b # a => attempt'[b] = attempt[b]
  BY DEF Inv, TypeOK
<1>2. /\ calls' \in [Actions -> Nat] /\ calls'[a] = n
      /\ \A b \in Actions : b # a => calls'[b] = calls[b]
      /\ \A b \in Actions : calls[b] \in Nat
  BY DEF Inv, TypeOK
<1>3. TypeOK'
  BY <1>1, <1>2 DEF Inv, TypeOK
<1>4. ASSUME NEW b \in Actions PROVE CallInv(b)'
  BY <1>1, <1>2 DEF Inv, CallInv
<1>5. ASSUME NEW b \in Actions PROVE TurnInv(b)'
  BY <1>1 DEF Inv, TurnInv, Siblings
<1>6. ASSUME NEW b \in Actions PROVE ProofInv(b)'
  <2>1. Derived(b, facts[b])' = Derived(b, facts[b])
    BY DEF Derived, Conflicting, Says, Sources
  <2>2. calls[b] > 0 => calls'[b] > 0
    BY <1>2
  <2> QED BY <2>1, <2>2 DEF Inv, ProofInv, Says
<1> QED BY <1>3, <1>4, <1>5, <1>6 DEF Inv

\* A table that is not written is one in which a row is written as it was.
LEMMA Kept ==
  ASSUME Inv, NEW a \in Actions
  PROVE  /\ attempt[a] \in AttemptRows /\ calls[a] \in 0 .. 1
         /\ attempt = [attempt EXCEPT ![a] = attempt[a]]
         /\ calls = [calls EXCEPT ![a] = calls[a]]
<1>1. attempt \in [Actions -> AttemptRows] /\ calls \in [Actions -> Nat] /\ calls[a] <= 1
  BY DEF Inv, TypeOK, CallInv
<1> QED BY <1>1

\* Respond, DeadlinePasses and RecoverEgress: an attempt gets on, and no
\* authorization comes back.
LEMMA AttemptStep ==
  ASSUME Inv, NEW a \in Actions, Respond(a) \/ DeadlinePasses(a) \/ RecoverEgress(a)
  PROVE  Inv'
<1>1. attempt[a] \in AttemptRows /\ calls[a] \in 0 .. 1 /\ calls = [calls EXCEPT ![a] = calls[a]]
  BY Kept
<1>2. PICK t \in AttemptRows :
        /\ attempt' = [attempt EXCEPT ![a] = t]
        /\ t.epoch = attempt[a].epoch
        /\ t.send = "none" <=> attempt[a].send = "none"
        /\ t.deadline = "live" => attempt[a].deadline = "live"
        /\ t.deadline = "none" <=> attempt[a].deadline = "none"
        /\ \/ t.egress = attempt[a].egress
           \/ attempt[a].egress = "reserved" /\ t.egress = "deadline_before_start"
  <2>1. CASE Respond(a)
    <3> DEFINE t == [attempt[a] EXCEPT !.send = "responded"]
    <3>1. t \in AttemptRows /\ t.epoch = attempt[a].epoch /\ t.send = "responded"
          /\ t.deadline = attempt[a].deadline /\ t.egress = attempt[a].egress
      BY <1>1 DEF AttemptRows
    <3>2. attempt' = [attempt EXCEPT ![a] = t] /\ attempt[a].send = "started"
      BY <2>1 DEF Respond
    <3> HIDE DEF t
    <3> QED BY <3>1, <3>2
  <2>2. CASE DeadlinePasses(a)
    <3> DEFINE t == [attempt[a] EXCEPT !.deadline = "passed"]
    <3>1. t \in AttemptRows /\ t.epoch = attempt[a].epoch /\ t.send = attempt[a].send
          /\ t.deadline = "passed" /\ t.egress = attempt[a].egress
      BY <1>1 DEF AttemptRows
    <3>2. attempt' = [attempt EXCEPT ![a] = t] /\ attempt[a].deadline = "live"
      BY <2>2 DEF DeadlinePasses
    <3> HIDE DEF t
    <3> QED BY <3>1, <3>2
  <2>3. CASE RecoverEgress(a)
    <3> DEFINE t == [attempt[a] EXCEPT !.egress = "deadline_before_start"]
    <3>1. t \in AttemptRows /\ t.epoch = attempt[a].epoch /\ t.send = attempt[a].send
          /\ t.deadline = attempt[a].deadline /\ t.egress = "deadline_before_start"
      BY <1>1 DEF AttemptRows
    <3>2. attempt' = [attempt EXCEPT ![a] = t] /\ attempt[a].egress = "reserved"
      BY <2>3 DEF RecoverEgress, SetEgress
    <3> HIDE DEF t
    <3> QED BY <3>1, <3>2
  <2> QED BY <2>1, <2>2, <2>3
<1>3. UNCHANGED <<order, action, blob, facts, anomaly, epoch, gate, calls, effect>>
  BY DEF Respond, DeadlinePasses, RecoverEgress
<1>4. /\ attempt'[a] = t
      /\ \A b \in Actions : b # a => attempt'[b] = attempt[b]
  BY <1>2 DEF Inv, TypeOK
<1>5. ASSUME NEW g \in Gates PROVE GateInv(g)'
  <2>1. CASE gate[g].pc = "idle"
    BY <1>3, <2>1 DEF GateInv
  <2>2. CASE gate[g].pc # "idle" /\ gate[g].action # a
    <3>1. attempt'[gate[g].action] = attempt[gate[g].action]
      BY <1>4, <2>2 DEF Inv, GateInv
    <3> QED BY <1>3, <3>1 DEF Inv, GateInv, Authorized, InEpoch
  <2>3. CASE gate[g].pc # "idle" /\ gate[g].action = a
    <3>1. Authorized(a)' => Authorized(a)
      BY <1>2, <1>4 DEF Authorized
    <3>2. InEpoch(a)' <=> InEpoch(a)
      BY <1>2, <1>3, <1>4 DEF InEpoch
    <3> QED BY <1>2, <1>3, <1>4, <2>3, <3>1, <3>2 DEF Inv, GateInv
  <2> QED BY <2>1, <2>2, <2>3
<1>6. ASSUME NEW g \in Gates, NEW h \in Gates PROVE Apart(g, h)'
  BY <1>3 DEF Inv, Apart
<1>7. /\ t.send = "none" => t.egress = "none"
      /\ t.egress \in Unsent => calls[a] = 0
  BY <1>2 DEF Inv, CallInv, Unsent
<1>8. gate' \in [Gates -> GateStates]
  BY <1>3 DEF Inv, TypeOK
<1>9. PICK n \in 0 .. 1 : n = calls[a] /\ calls' = [calls EXCEPT ![a] = n]
  BY <1>1, <1>3
<1>10. /\ attempt' = [attempt EXCEPT ![a] = t] /\ (t.send = "none" <=> attempt[a].send = "none")
       /\ t.deadline = "none" <=> attempt[a].deadline = "none"
  BY <1>2
<1>11. calls[a] <= n
  BY <1>9
<1>12. UNCHANGED <<order, action, blob, facts, anomaly, epoch, effect>>
  BY <1>3
<1>13. t.send = "none" => t.egress = "none"
  BY <1>7
<1>14. t.egress \in Unsent => n = 0
  BY <1>7, <1>9
<1> QED BY <1>5, <1>6, <1>8, <1>9, <1>10, <1>11, <1>12, <1>13, <1>14, LedgerStep

\* A gate gets on with its action, or gives up.
LEMMA GateMoveStep ==
  ASSUME Inv, NEW g \in Gates, NEW s \in GateStates, SetGate(g, s),
         gate[g].pc # "idle", s.pc = "idle" \/ s.action = gate[g].action,
         NEW a, a = gate[g].action,
         NEW t \in AttemptRows, NEW n \in 0 .. 1,
         attempt' = [attempt EXCEPT ![a] = t], calls' = [calls EXCEPT ![a] = n],
         t.epoch = attempt[a].epoch, t.deadline = attempt[a].deadline,
         t.send = attempt[a].send,
         calls[a] <= n, t.egress \in Unsent => n = 0,
         s.pc = "reserved" => t.egress \in {"reserved", "deadline_before_start"},
         s.pc = "started" => t.egress = "started" /\ n = 0,
         s.pc = "calling" => t.egress = "started",
         s.pc \in {"reserved", "started"} =>
           /\ gate[g].pc \in {"reserved", "started"}
           /\ s.session => gate[g].session
           /\ t.egress \in {"reserved", "started"} => attempt[a].egress \in {"reserved", "started"},
         UNCHANGED <<order, action, blob, facts, anomaly, epoch, effect>>
  PROVE  Inv'
<1>1. a \in Actions
  BY DEF Inv, GateInv
<1>2. /\ gate' \in [Gates -> GateStates] /\ gate'[g] = s
      /\ \A h \in Gates : h # g => gate'[h] = gate[h]
  BY DEF SetGate, Inv, TypeOK
<1>3. /\ attempt'[a] = t /\ calls'[a] = n
      /\ \A b \in Actions : b # a => attempt'[b] = attempt[b] /\ calls'[b] = calls[b]
  BY <1>1 DEF Inv, TypeOK
<1>4. GateInv(g)'
  <2>1. CASE s.pc = "idle"
    BY <1>2, <2>1 DEF GateInv
  <2>2. CASE s.pc # "idle"
    <3>1. gate'[g].action = a /\ gate'[g] = s
      BY <1>2, <2>2
    <3>2. s.pc \in {"reserved", "started"} /\ Authorized(a)' => Authorized(a)
      BY <1>3 DEF Authorized
    <3>3. InEpoch(a)' <=> InEpoch(a)
      BY <1>3 DEF InEpoch
    <3> QED BY <1>1, <1>3, <3>1, <3>2, <3>3 DEF Inv, GateInv
  <2> QED BY <2>1, <2>2
<1>5. ASSUME NEW h \in Gates, h # g PROVE GateInv(h)'
  <2>1. CASE gate[h].pc = "idle"
    BY <1>2, <1>5, <2>1 DEF GateInv
  <2>2. CASE gate[h].pc # "idle"
    <3>1. gate[h].action \in Actions /\ gate[h].action # a
      BY <1>5, <2>2 DEF Inv, GateInv, Apart
    <3>2. gate'[h] = gate[h] /\ attempt'[gate[h].action] = attempt[gate[h].action]
          /\ calls'[gate[h].action] = calls[gate[h].action]
      BY <1>2, <1>3, <1>5, <3>1
    <3> QED BY <3>2 DEF Inv, GateInv, Authorized, InEpoch
  <2> QED BY <2>1, <2>2
<1>6. ASSUME NEW h \in Gates, NEW k \in Gates PROVE Apart(h, k)'
  BY <1>2 DEF Inv, Apart
<1>7. t.send # "none"
  <2>1. attempt[a].egress # "none"
    BY DEF Inv, TypeOK, GateInv, GateStates
  <2> QED BY <1>1, <2>1 DEF Inv, CallInv
<1> QED BY <1>1, <1>2, <1>4, <1>5, <1>6, <1>7, LedgerStep

\* Reserving: the gate that is told of it holds the epoch and has the bytes.
LEMMA ReserveStep ==
  ASSUME Inv, NEW g \in Gates, NEW a \in Actions, Reserve(g, a)
  PROVE  Inv'
<1>1. attempt[a] \in AttemptRows /\ calls[a] = 0 /\ calls = [calls EXCEPT ![a] = calls[a]]
  BY Kept DEF Reserve, Inv, CallInv, Unsent
<1>2. /\ gate[g].pc = "idle" /\ attempt[a].egress = "none" /\ MayReserve(a)
      /\ UNCHANGED <<order, action, blob, facts, anomaly, epoch, calls, effect>>
  BY DEF Reserve, GateAt
<1>3. PICK t \in AttemptRows :
        /\ attempt' = [attempt EXCEPT ![a] = t] /\ t.egress = "reserved"
        /\ t.send = attempt[a].send /\ t.epoch = attempt[a].epoch
        /\ t.deadline = attempt[a].deadline
  <2> DEFINE t == [attempt[a] EXCEPT !.egress = "reserved"]
  <2>1. t \in AttemptRows /\ t.egress = "reserved" /\ t.send = attempt[a].send
        /\ t.epoch = attempt[a].epoch /\ t.deadline = attempt[a].deadline
    BY <1>1 DEF AttemptRows
  <2>2. attempt' = [attempt EXCEPT ![a] = t]
    BY DEF Reserve, SetEgress
  <2> HIDE DEF t
  <2> QED BY <2>1, <2>2
<1>4. /\ attempt'[a] = t
      /\ \A b \in Actions : b # a => attempt'[b] = attempt[b]
  BY <1>3 DEF Inv, TypeOK
<1>5. PICK s \in GateStates :
        /\ gate' = [gate EXCEPT ![g] = s]
        /\ s = gate[g] \/ (s.pc = "reserved" /\ s.action = a)
  <2>1. gate[g] \in GateStates /\ gate = [gate EXCEPT ![g] = gate[g]]
    BY DEF Inv, TypeOK
  <2>2. [pc |-> "reserved", action |-> a, session |-> TRUE] \in GateStates
    BY DEF GateStates
  <2> QED BY <2>1, <2>2 DEF Reserve, SetGate
<1>6. /\ gate' \in [Gates -> GateStates] /\ gate'[g] = s
      /\ \A h \in Gates : h # g => gate'[h] = gate[h]
  BY <1>5 DEF Inv, TypeOK
<1>7. \A h \in Gates : gate[h].pc # "idle" => gate[h].action # a
  BY <1>2, NoGateYet
<1>8. ASSUME NEW h \in Gates PROVE GateInv(h)'
  <2>1. CASE gate'[h].pc = "idle"
    BY <2>1 DEF GateInv
  <2>2. CASE gate'[h].pc # "idle" /\ gate'[h] = gate[h]
    <3>1. gate[h].action \in Actions /\ gate[h].action # a
      BY <1>7, <2>2 DEF Inv, GateInv
    <3>2. attempt'[gate[h].action] = attempt[gate[h].action]
      BY <1>4, <3>1
    <3> QED BY <1>2, <2>2, <3>2 DEF Inv, GateInv, Authorized, InEpoch
  <2>3. CASE gate'[h].pc = "reserved" /\ gate'[h].action = a
    <3>1. blob[a] # "purged"
      BY <1>2 DEF MayReserve, SignedBytes, Inv, ProofInv
    <3>2. t.epoch = epoch.n /\ epoch.live
      BY <1>2, <1>3 DEF MayReserve, HoldsLease, EpochStands
    <3> QED BY <1>2, <1>3, <1>4, <2>3, <3>1, <3>2 DEF GateInv, InEpoch
  <2> QED BY <1>2, <1>5, <1>6, <2>1, <2>2, <2>3
<1>9. ASSUME NEW h \in Gates, NEW k \in Gates PROVE Apart(h, k)'
  BY <1>2, <1>5, <1>6, <1>7 DEF Inv, Apart
<1>10. attempt[a].send # "none"
  BY <1>2 DEF MayReserve
<1>11. PICK n \in 0 .. 1 : n = calls[a] /\ calls' = [calls EXCEPT ![a] = n]
  BY <1>1, <1>2
<1>12. /\ (t.send = "none" <=> attempt[a].send = "none") /\ t.send # "none"
       /\ t.deadline = "none" <=> attempt[a].deadline = "none"
  BY <1>3, <1>10
<1>13. calls[a] <= n /\ n = 0
  BY <1>1, <1>11
<1>14. UNCHANGED <<order, action, blob, facts, anomaly, epoch, effect>>
  BY <1>2
<1> QED BY <1>3, <1>6, <1>8, <1>9, <1>11, <1>12, <1>13, <1>14, LedgerStep

\* An attempt's row with another phase.
LEMMA EgressRow ==
  ASSUME Inv, NEW a \in Actions,
         NEW e \in {"none", "reserved", "started", "settled", "deadline_before_start",
                    "deadline_after_start"}
  PROVE  [attempt[a] EXCEPT !.egress = e] \in
           {t \in AttemptRows : /\ t.egress = e /\ t.epoch = attempt[a].epoch
                                /\ t.deadline = attempt[a].deadline
                                /\ t.send = attempt[a].send}
<1>1. attempt[a] \in AttemptRows
  BY DEF Inv, TypeOK
<1> QED BY <1>1 DEF AttemptRows

\* The steps of a gate that has a reservation: which row and which state they
\* write.
LEMMA GateStepInv ==
  ASSUME Inv, NEW g \in Gates,
         \/ GateStart(g) \/ GateTooLate(g) \/ GateNoBudget(g) \/ GateCall(g)
         \/ GateFinish(g) \/ SessionLost(g) \/ GateCrash(g),
         gate[g].pc # "idle"
  PROVE  Inv'
<1>1. PICK a \in Actions : a = gate[g].action
  BY DEF Inv, GateInv
<1>2. /\ gate[g] \in GateStates /\ IdleGate \in GateStates /\ IdleGate.pc = "idle"
      /\ attempt[a] \in AttemptRows /\ calls[a] \in 0 .. 1
      /\ attempt = [attempt EXCEPT ![a] = attempt[a]]
      /\ calls = [calls EXCEPT ![a] = calls[a]]
  BY Kept DEF Inv, TypeOK, IdleGate, GateStates
<1>3. /\ gate[g].pc = "reserved" => attempt[a].egress \in {"reserved", "deadline_before_start"}
      /\ gate[g].pc = "started" => attempt[a].egress = "started" /\ calls[a] = 0
      /\ gate[g].pc = "calling" => attempt[a].egress = "started"
      /\ attempt[a].egress \in Unsent => calls[a] = 0
  BY <1>1 DEF Inv, GateInv, CallInv
<1>4. PICK t \in AttemptRows, n \in 0 .. 1, s \in GateStates :
        /\ attempt' = [attempt EXCEPT ![a] = t] /\ calls' = [calls EXCEPT ![a] = n]
        /\ SetGate(g, s)
        /\ s.pc = "idle" \/ s.action = gate[g].action
        /\ t.epoch = attempt[a].epoch /\ t.deadline = attempt[a].deadline
        /\ t.send = attempt[a].send
        /\ calls[a] <= n /\ (t.egress \in Unsent => n = 0)
        /\ s.pc = "reserved" => t.egress \in {"reserved", "deadline_before_start"}
        /\ s.pc = "started" => t.egress = "started" /\ n = 0
        /\ s.pc = "calling" => t.egress = "started"
        /\ s.pc \in {"reserved", "started"} =>
             /\ gate[g].pc \in {"reserved", "started"}
             /\ s.session => gate[g].session
             /\ t.egress \in {"reserved", "started"} =>
                  attempt[a].egress \in {"reserved", "started"}
  <2>1. CASE GateStart(g)
    <3> DEFINE t == [attempt[a] EXCEPT !.egress = "started"]
               s == [gate[g] EXCEPT !.pc = "started"]
    <3>1. /\ t \in AttemptRows /\ t.egress = "started" /\ t.epoch = attempt[a].epoch
          /\ t.deadline = attempt[a].deadline /\ t.send = attempt[a].send
      BY EgressRow
    <3>2. /\ s \in GateStates /\ s.pc = "started" /\ s.action = gate[g].action
          /\ s.session = gate[g].session
      BY <1>2 DEF GateStates
    <3>3. /\ attempt' = [attempt EXCEPT ![a] = t] /\ UNCHANGED calls
          /\ SetGate(g, s) \/ SetGate(g, IdleGate)
          /\ gate[g].pc = "reserved" /\ attempt[a].egress = "reserved"
      BY <1>1, <2>1 DEF GateStart, SetEgress, GateAt
    <3>4. calls[a] = 0 /\ calls' = [calls EXCEPT ![a] = calls[a]]
      BY <1>2, <1>3, <3>3 DEF Unsent
    <3>5. t.egress \notin Unsent
      BY <3>1 DEF Unsent
    <3> HIDE DEF t, s
    <3>6. CASE SetGate(g, s)
      <4> t \in AttemptRows /\ calls[a] \in 0 .. 1 /\ s \in GateStates
        BY <1>2, <3>1, <3>2
      <4> WITNESS t \in AttemptRows, calls[a] \in 0 .. 1, s \in GateStates
      <4> QED BY <1>2, <3>1, <3>2, <3>3, <3>4, <3>5, <3>6
    <3>7. CASE SetGate(g, IdleGate)
      <4> t \in AttemptRows /\ calls[a] \in 0 .. 1 /\ IdleGate \in GateStates
        BY <1>2, <3>1
      <4> WITNESS t \in AttemptRows, calls[a] \in 0 .. 1, IdleGate \in GateStates
      <4> QED BY <1>2, <3>1, <3>3, <3>4, <3>5, <3>7
    <3> QED BY <3>3, <3>6, <3>7
  <2>2. CASE GateTooLate(g)
    <3> DEFINE t == [attempt[a] EXCEPT !.egress = "deadline_before_start"]
    <3>1. /\ t \in AttemptRows /\ t.egress = "deadline_before_start"
          /\ t.epoch = attempt[a].epoch
          /\ t.deadline = attempt[a].deadline /\ t.send = attempt[a].send
      BY EgressRow
    <3>2. gate[g].pc = "reserved" /\ (Closed(a) => attempt[a].egress = "deadline_before_start")
      BY <1>3, <2>2 DEF GateTooLate, GateAt, Closed
    <3>3. attempt' = [attempt EXCEPT ![a] = t] /\ UNCHANGED calls /\ SetGate(g, IdleGate)
      BY <1>1, <2>2, <3>2 DEF GateTooLate, SetEgress
    <3>4. calls[a] = 0 /\ calls' = [calls EXCEPT ![a] = calls[a]]
      BY <1>2, <1>3, <3>2, <3>3 DEF Unsent
    <3> HIDE DEF t
    <3> t \in AttemptRows /\ calls[a] \in 0 .. 1 /\ IdleGate \in GateStates
      BY <1>2, <3>1
    <3> WITNESS t \in AttemptRows, calls[a] \in 0 .. 1, IdleGate \in GateStates
    <3> QED BY <1>2, <3>1, <3>3, <3>4
  <2>3. CASE GateNoBudget(g)
    <3> DEFINE t == [attempt[a] EXCEPT !.egress = "deadline_after_start"]
    <3>1. /\ t \in AttemptRows /\ t.egress = "deadline_after_start"
          /\ t.epoch = attempt[a].epoch
          /\ t.deadline = attempt[a].deadline /\ t.send = attempt[a].send
      BY EgressRow
    <3>2. /\ attempt' = [attempt EXCEPT ![a] = t] \/ attempt' = attempt
          /\ UNCHANGED calls /\ SetGate(g, IdleGate) /\ gate[g].pc = "started"
      BY <1>1, <2>3 DEF GateNoBudget, SetEgress, GateAt
    <3> HIDE DEF t
    <3> QED BY <1>2, <1>3, <3>1, <3>2
  <2>4. CASE GateCall(g)
    <3> DEFINE s == [gate[g] EXCEPT !.pc = "calling"]
    <3>1. s \in GateStates /\ s.pc = "calling" /\ s.action = gate[g].action
      BY <1>2 DEF GateStates
    <3>2. /\ UNCHANGED attempt /\ calls' = [calls EXCEPT ![a] = calls[a] + 1]
          /\ SetGate(g, s) /\ gate[g].pc = "started"
      BY <1>1, <2>4 DEF GateCall, GateAt
    <3>3. calls[a] = 0 /\ attempt[a].egress = "started"
      BY <1>3, <3>2
    <3>4. calls[a] + 1 = 1 /\ calls[a] <= 1 /\ 1 \in 0 .. 1
      BY <3>3
    <3>5. calls' = [calls EXCEPT ![a] = 1]
      BY <3>2, <3>4
    <3>6. attempt' = [attempt EXCEPT ![a] = attempt[a]] /\ attempt[a].egress \notin Unsent
      BY <1>2, <3>2, <3>3 DEF Unsent
    <3> HIDE DEF s
    <3> QED BY <1>2, <3>1, <3>2, <3>3, <3>4, <3>5, <3>6
  <2>5. CASE GateFinish(g)
    <3> DEFINE t == [attempt[a] EXCEPT !.egress = "settled"]
    <3>1. /\ t \in AttemptRows /\ t.egress = "settled" /\ t.epoch = attempt[a].epoch
          /\ t.deadline = attempt[a].deadline /\ t.send = attempt[a].send
      BY EgressRow
    <3>2. /\ attempt' = [attempt EXCEPT ![a] = t] \/ attempt' = attempt
          /\ UNCHANGED calls /\ SetGate(g, IdleGate) /\ gate[g].pc = "calling"
      BY <1>1, <2>5 DEF GateFinish, SetEgress, GateAt
    <3> HIDE DEF t
    <3> QED BY <1>2, <1>3, <3>1, <3>2 DEF Unsent
  <2>6. CASE SessionLost(g) \/ GateCrash(g)
    <3> DEFINE s == [gate[g] EXCEPT !.session = FALSE]
    <3>1. /\ s \in GateStates /\ s.pc = gate[g].pc /\ s.action = gate[g].action
          /\ ~ s.session
      BY <1>2 DEF GateStates
    <3>2. UNCHANGED <<attempt, calls>> /\ (SetGate(g, s) \/ SetGate(g, IdleGate))
      BY <2>6 DEF SessionLost, GateCrash
    <3> HIDE DEF s
    <3> QED BY <1>2, <1>3, <3>1, <3>2
  <2> QED BY <2>1, <2>2, <2>3, <2>4, <2>5, <2>6
<1>5. UNCHANGED <<order, action, blob, facts, anomaly, epoch, effect>>
  BY DEF GateStart, GateTooLate, GateNoBudget, GateCall, GateFinish, SessionLost, GateCrash
<1> QED BY <1>1, <1>4, <1>5, GateMoveStep

-----------------------------------------------------------------------------
(* Evidence, epochs, retention and time.                                   *)

\* What a verdict may be.
LEMMA DerivedType ==
  ASSUME NEW a \in Actions, NEW known \in SUBSET Facts
  PROVE  Derived(a, known) \in {"possible", "present", "absent", "conflict"}
BY DEF Derived

\* One more fact, or a revision of one: the row follows what is known now, and
\* a row that is settled already stays.
LEMMA ObserveStep ==
  ASSUME Inv, NEW a \in Actions, Observe(a)
  PROVE  Inv'
<1>1. PICK source \in Sources(a), verdict \in {"presence", "absence", "conflict", "context"},
           dropped \in SUBSET facts[a], known \in SUBSET Facts :
        /\ known = (facts[a] \ dropped) \cup ({<<source, verdict>>} \cap Facts)
        /\ Truthful(a, verdict)
        /\ facts' = [facts EXCEPT ![a] = known]
        /\ ReduceDone(a, Derived(a, known)) \/ ReduceOpen(a, Derived(a, known))
        /\ UNCHANGED <<order, blob, attempt, epoch, gate, calls, effect>>
  <2>1. facts[a] \in SUBSET Facts
    BY DEF Inv, TypeOK
  <2>2. PICK source \in Sources(a),
             verdict \in {"presence", "absence", "conflict", "context"} :
          \E dropped \in SUBSET {f \in facts[a] : f[1] = source} :
            LET known == (facts[a] \ dropped) \cup ({<<source, verdict>>} \cap Facts)
            IN /\ Truthful(a, verdict)
               /\ facts' = [facts EXCEPT ![a] = known]
               /\ ReduceDone(a, Derived(a, known)) \/ ReduceOpen(a, Derived(a, known))
               /\ UNCHANGED <<order, blob, attempt, epoch, gate, calls, effect>>
    BY Zenon DEF Observe
  <2>3. PICK dropped \in SUBSET {f \in facts[a] : f[1] = source} :
          LET known == (facts[a] \ dropped) \cup ({<<source, verdict>>} \cap Facts)
          IN /\ Truthful(a, verdict)
             /\ facts' = [facts EXCEPT ![a] = known]
             /\ ReduceDone(a, Derived(a, known)) \/ ReduceOpen(a, Derived(a, known))
             /\ UNCHANGED <<order, blob, attempt, epoch, gate, calls, effect>>
    BY <2>2
  <2>4. (facts[a] \ dropped) \cup ({<<source, verdict>>} \cap Facts) \in SUBSET Facts
    BY <2>1
  <2>5. dropped \in SUBSET facts[a]
    OBVIOUS
  <2> QED BY <2>3, <2>4, <2>5, Zenon
<1> DEFINE derived == Derived(a, known)
<1>2. derived \in {"possible", "present", "absent", "conflict"}
  BY DerivedType
<1>3. facts' \in [Actions -> SUBSET Facts] /\ facts'[a] = known
      /\ \A b \in Actions : b # a => facts'[b] = facts[b]
  BY <1>1 DEF Inv, TypeOK
<1> HIDE DEF derived
<1>4. /\ action' \in [Actions -> ActionRows] /\ anomaly' \in [Actions -> BOOLEAN]
      /\ \A b \in Actions : b # a => action'[b] = action[b] /\ anomaly'[b] = anomaly[b]
      /\ action'[a].expected = action[a].expected
      /\ \/ /\ action[a].work = "done" /\ action'[a] = action[a]
            /\ derived # action[a].effect => anomaly'[a]
         \/ /\ action[a].work \notin {"none", "done"}
            /\ action'[a].work \in {"done", "reconciling"}
            /\ action'[a].work = "done" =>
                 action'[a].effect = derived /\ derived \in {"present", "absent"}
  <2>1. CASE ReduceDone(a, derived)
    <3>1. action[a].work = "done" /\ action' = action
      BY <2>1 DEF ReduceDone
    <3>2. anomaly' = [anomaly EXCEPT ![a] = anomaly[a] \/ derived # action[a].effect]
      BY <2>1 DEF ReduceDone
    <3>3. anomaly \in [Actions -> BOOLEAN] /\ action \in [Actions -> ActionRows]
      BY DEF Inv, TypeOK
    <3>4. anomaly' \in [Actions -> BOOLEAN]
          /\ anomaly'[a] = (anomaly[a] \/ derived # action[a].effect)
          /\ \A b \in Actions : b # a => anomaly'[b] = anomaly[b]
      BY <3>2, <3>3
    <3> QED BY <3>1, <3>3, <3>4
  <2>2. CASE ReduceOpen(a, derived)
    <3> DEFINE result == IF action[a].effect = "conflict" /\ derived = "possible"
                         THEN "conflict" ELSE derived
               settled == result \in {"present", "absent"}
               q == [action[a] EXCEPT
                       !.work = IF settled THEN "done" ELSE "reconciling",
                       !.effect = result]
    <3>1. action[a] \in ActionRows /\ result \in {"possible", "present", "absent", "conflict"}
      BY <1>2 DEF Inv, TypeOK
    <3>2. settled => result = derived
      OBVIOUS
    <3>3. SetAction(a, Unleased(q)) /\ action[a].work \notin {"none", "done"} /\ anomaly' = anomaly
      BY <2>2 DEF ReduceOpen, Unfinished
    <3> HIDE DEF result
    <3>4. q \in ActionRows /\ q.work = (IF settled THEN "done" ELSE "reconciling")
          /\ q.effect = result /\ q.expected = action[a].expected
      BY <3>1 DEF ActionRows
    <3> HIDE DEF q
    <3>5. PICK r \in ActionRows :
            SetAction(a, r) /\ r.work = q.work /\ r.effect = q.effect /\ r.expected = q.expected
      BY <3>3, <3>4, UnleasedRow
    <3>6. /\ action' \in [Actions -> ActionRows] /\ action'[a] = r
          /\ \A b \in Actions : b # a => action'[b] = action[b]
      BY <3>5, Written
    <3>7. anomaly' \in [Actions -> BOOLEAN]
      BY <3>3 DEF Inv, TypeOK
    <3> QED BY <3>2, <3>3, <3>4, <3>5, <3>6, <3>7
  <2> QED BY <1>1, <2>1, <2>2 DEF derived
<1>5. UNCHANGED <<order, blob, attempt, epoch, gate, calls, effect>>
  BY <1>1
<1>6. TypeOK'
  BY <1>3, <1>4, <1>5 DEF Inv, TypeOK
<1>7. ASSUME NEW b \in Actions
      PROVE  /\ action[b].work = "done" => action'[b] = action[b]
             /\ action'[b].work \in Early => action[b].work \in Early
             /\ action'[b].work # "none" <=> action[b].work # "none"
             /\ action'[b].expected = action[b].expected
  BY <1>4 DEF Early
<1>8. ASSUME NEW b \in Actions PROVE CallInv(b)'
  <2>1. Parent[b] # NoAction => Parent[b] \in Actions
    BY ParentAssumption
  <2> QED BY <1>5, <1>7, <2>1 DEF Inv, CallInv
<1>9. ASSUME NEW b \in Actions PROVE TurnInv(b)'
  BY <1>5, <1>7 DEF Inv, TurnInv, Siblings
<1>10. \A s \in {"provider", "chain"} :
         a \notin Reads /\ Says(known, s, "presence") => effect[a] = "match"
  <2> SUFFICES ASSUME NEW s \in {"provider", "chain"}, a \notin Reads,
                      <<s, "presence">> \in known
               PROVE  effect[a] = "match"
    BY DEF Says
  <2>1. CASE <<s, "presence">> \in facts[a]
    BY <2>1 DEF Inv, ProofInv, Says
  <2>2. CASE <<s, "presence">> = <<source, verdict>>
    BY <1>1, <2>2 DEF Truthful
  <2> QED BY <1>1, <2>1, <2>2
<1>11. ProofInv(a)'
  <2>1. a \notin Reads /\ derived = "present" => calls[a] > 0
    <3> SUFFICES ASSUME a \notin Reads, derived = "present" PROVE calls[a] > 0
      OBVIOUS
    <3>1. Says(known, "provider", "presence")
      BY PresentIsSaid DEF derived
    <3>2. effect[a] = "match"
      BY <1>10, <3>1
    <3> QED BY <3>2 DEF Inv, CallInv
  <2>2. a \notin Reads => derived # "absent"
    BY WriteNeverAbsent DEF derived
  <2>3. a \notin Reads /\ action'[a].work = "done" => calls[a] > 0
    <3>1. a \notin Reads /\ action[a].work = "done" => calls[a] > 0
      BY DEF Inv, ProofInv
    <3> QED BY <1>4, <2>1, <2>2, <3>1
  <2>4. Derived(a, facts[a])' = derived
    BY <1>3 DEF derived, Derived, Conflicting, Says, Sources
  <2>5. action'[a].work = "done" /\ derived # action'[a].effect => anomaly'[a]
    BY <1>4
  <2>6. \A s \in {"provider", "chain"} :
          a \notin Reads /\ Says(facts'[a], s, "presence") => effect'[a] = "match"
    BY <1>3, <1>5, <1>10
  <2>7. blob'[a] # "none" => Kind[a] = "signed"
    BY <1>5 DEF Inv, ProofInv
  <2> QED BY <1>5, <2>3, <2>4, <2>5, <2>6, <2>7 DEF ProofInv, Says
<1>12. ASSUME NEW b \in Actions, b # a PROVE ProofInv(b)'
  <2>1. facts'[b] = facts[b] /\ action'[b] = action[b] /\ anomaly'[b] = anomaly[b]
    BY <1>3, <1>4, <1>12
  <2>2. Derived(b, facts[b])' = Derived(b, facts[b])
    BY <2>1 DEF Derived, Conflicting, Says, Sources
  <2> QED BY <1>5, <2>1, <2>2 DEF Inv, ProofInv, Says
<1>13. ASSUME NEW g \in Gates PROVE GateInv(g)'
  BY <1>5 DEF Inv, GateInv, Authorized, InEpoch
<1>14. ASSUME NEW g \in Gates, NEW h \in Gates PROVE Apart(g, h)'
  BY <1>5 DEF Inv, Apart
<1> QED BY <1>6, <1>8, <1>9, <1>11, <1>12, <1>13, <1>14 DEF Inv

\* What is derived depends on the facts alone.
LEMMA SameFacts ==
  ASSUME NEW a \in Actions, facts'[a] = facts[a]
  PROVE  Derived(a, facts[a])' = Derived(a, facts[a])
BY DEF Derived, Conflicting, Says, Sources

\* An anomaly is resolved only when the proof no longer diverges.
LEMMA ResolveStep ==
  ASSUME Inv, NEW a \in Actions, ResolveAnomaly(a)
  PROVE  Inv'
<1>1. /\ anomaly' = [anomaly EXCEPT ![a] = FALSE] /\ Derived(a, facts[a]) = action[a].effect
      /\ UNCHANGED <<order, action, blob, attempt, facts, epoch, gate, calls, effect>>
  BY DEF ResolveAnomaly
<1>2. /\ anomaly' \in [Actions -> BOOLEAN]
      /\ \A b \in Actions : b # a => anomaly'[b] = anomaly[b]
  BY <1>1 DEF Inv, TypeOK
<1>3. TypeOK'
  BY <1>1, <1>2 DEF Inv, TypeOK
<1>4. ASSUME NEW b \in Actions PROVE CallInv(b)'
  BY <1>1 DEF Inv, CallInv
<1>5. ASSUME NEW b \in Actions PROVE TurnInv(b)'
  BY <1>1 DEF Inv, TurnInv, Siblings
<1>6. ASSUME NEW b \in Actions PROVE ProofInv(b)'
  <2>1. Derived(b, facts[b])' = Derived(b, facts[b])
    BY <1>1, SameFacts
  <2> QED BY <1>1, <1>2, <2>1 DEF Inv, ProofInv, Says
<1>7. ASSUME NEW g \in Gates PROVE GateInv(g)'
  BY <1>1 DEF Inv, GateInv, Authorized, InEpoch
<1>8. ASSUME NEW g \in Gates, NEW h \in Gates PROVE Apart(g, h)'
  BY <1>1 DEF Inv, Apart
<1> QED BY <1>3, <1>4, <1>5, <1>6, <1>7, <1>8 DEF Inv

\* An obligation does not touch the order's version.
LEMMA ObligeStep ==
  ASSUME Inv, NEW o \in Orders, Oblige(o)
  PROVE  Inv'
<1>1. UNCHANGED <<action, blob, attempt, facts, anomaly, epoch, gate, calls, effect>>
  BY DEF Oblige
<1>2. /\ order' \in [Orders -> [ver: Nat, obliged: BOOLEAN]]
      /\ \A p \in Orders : order'[p].ver = order[p].ver
  <2> DEFINE r == [order[o] EXCEPT !.obliged = ~ @]
  <2>1. order[o] \in [ver: Nat, obliged: BOOLEAN]
    BY DEF Inv, TypeOK
  <2>2. r \in [ver: Nat, obliged: BOOLEAN] /\ r.ver = order[o].ver
    BY <2>1
  <2>3. order' = [order EXCEPT ![o] = r]
    BY DEF Oblige
  <2> HIDE DEF r
  <2> QED BY <2>2, <2>3 DEF Inv, TypeOK
<1>3. TypeOK'
  BY <1>1, <1>2 DEF Inv, TypeOK
<1>4. ASSUME NEW a \in Actions PROVE CallInv(a)'
  BY <1>1 DEF Inv, CallInv
<1>5. ASSUME NEW a \in Actions PROVE TurnInv(a)'
  <2>1. order'[Of[a]].ver = order[Of[a]].ver
    BY <1>2, KindAssumption
  <2> QED BY <1>1, <2>1 DEF Inv, TurnInv, Siblings
<1>6. ASSUME NEW a \in Actions PROVE ProofInv(a)'
  <2>1. Derived(a, facts[a])' = Derived(a, facts[a])
    BY <1>1, SameFacts
  <2> QED BY <1>1, <2>1 DEF Inv, ProofInv, Says
<1>7. ASSUME NEW g \in Gates PROVE GateInv(g)'
  BY <1>1 DEF Inv, GateInv, Authorized, InEpoch
<1>8. ASSUME NEW g \in Gates, NEW h \in Gates PROVE Apart(g, h)'
  BY <1>1 DEF Inv, Apart
<1> QED BY <1>3, <1>4, <1>5, <1>6, <1>7, <1>8 DEF Inv

\* The epoch moves only when no session and no authorization holds it.
LEMMA AdvanceStep ==
  ASSUME Inv, NEW live \in BOOLEAN, AdvanceEpoch(live)
  PROVE  Inv'
<1>1. UNCHANGED <<order, action, blob, attempt, facts, anomaly, gate, calls, effect>>
  BY DEF AdvanceEpoch
<1>2. epoch' \in [n: 1 .. MaxEpoch, live: BOOLEAN]
  <2>1. epoch.n \in 1 .. MaxEpoch /\ epoch.n + 1 \in 1 .. MaxEpoch
    BY EpochAssumption DEF AdvanceEpoch, Inv, TypeOK
  <2> QED BY <2>1 DEF AdvanceEpoch
<1>3. TypeOK'
  BY <1>1, <1>2 DEF Inv, TypeOK
<1>4. ASSUME NEW a \in Actions PROVE CallInv(a)'
  BY <1>1 DEF Inv, CallInv
<1>5. ASSUME NEW a \in Actions PROVE TurnInv(a)'
  BY <1>1 DEF Inv, TurnInv, Siblings
<1>6. ASSUME NEW a \in Actions PROVE ProofInv(a)'
  <2>1. Derived(a, facts[a])' = Derived(a, facts[a])
    BY <1>1, SameFacts
  <2> QED BY <1>1, <2>1 DEF Inv, ProofInv, Says
<1>7. ASSUME NEW g \in Gates PROVE GateInv(g)'
  <2>1. ~ gate[g].session
    BY DEF AdvanceEpoch, LockedBy
  <2>2. gate[g].pc # "idle" => ~ Authorized(gate[g].action)
    BY DEF AdvanceEpoch, Inv, GateInv
  <2> QED BY <1>1, <2>1, <2>2 DEF Inv, GateInv, Authorized
<1>8. ASSUME NEW g \in Gates, NEW h \in Gates PROVE Apart(g, h)'
  BY <1>1 DEF Inv, Apart
<1> QED BY <1>3, <1>4, <1>5, <1>6, <1>7, <1>8 DEF Inv

\* Bytes lapse and are purged; those a gate may still send are not, for a
\* write is done only after its call.
LEMMA BlobStep ==
  ASSUME Inv, NEW a \in Actions, PurgeBlob(a) \/ BlobLapses(a)
  PROVE  Inv'
<1>1. /\ UNCHANGED <<order, action, attempt, facts, anomaly, epoch, gate, calls, effect>>
      /\ blob[a] # "none"
      /\ \/ blob' = [blob EXCEPT ![a] = "lapsed"]
         \/ blob' = [blob EXCEPT ![a] = "purged"] /\ action[a].work = "done"
  BY DEF PurgeBlob, BlobLapses
<1>2. /\ blob' \in [Actions -> {"none", "live", "lapsed", "purged"}]
      /\ \A b \in Actions : blob'[b] # "none" => blob[b] # "none"
      /\ \A b \in Actions :
           blob'[b] = "purged" => blob[b] = "purged" \/ (b = a /\ action[a].work = "done")
  BY <1>1 DEF Inv, TypeOK
<1>3. TypeOK'
  BY <1>1, <1>2 DEF Inv, TypeOK
<1>4. ASSUME NEW b \in Actions PROVE CallInv(b)'
  BY <1>1 DEF Inv, CallInv
<1>5. ASSUME NEW b \in Actions PROVE TurnInv(b)'
  BY <1>1 DEF Inv, TurnInv, Siblings
<1>6. ASSUME NEW b \in Actions PROVE ProofInv(b)'
  <2>1. Derived(b, facts[b])' = Derived(b, facts[b])
    BY <1>1, SameFacts
  <2> QED BY <1>1, <1>2, <2>1 DEF Inv, ProofInv, Says
<1>7. ASSUME NEW g \in Gates PROVE GateInv(g)'
  <2>1. ASSUME gate[g].pc \in {"reserved", "started"}, gate[g].action = a
        PROVE  action[a].work # "done"
    <3>1. calls[a] = 0
      BY <2>1 DEF Inv, GateInv, CallInv, Unsent
    <3>2. a \notin Reads
      BY <1>1 DEF Inv, ProofInv, Reads
    <3> QED BY <3>1, <3>2 DEF Inv, ProofInv
  <2>2. gate[g].pc \in {"reserved", "started"} => blob'[gate[g].action] # "purged"
    BY <1>2, <2>1 DEF Inv, GateInv
  <2> QED BY <1>1, <2>2 DEF Inv, GateInv, Authorized, InEpoch
<1>8. ASSUME NEW g \in Gates, NEW h \in Gates PROVE Apart(g, h)'
  BY <1>1 DEF Inv, Apart
<1> QED BY <1>3, <1>4, <1>5, <1>6, <1>7, <1>8 DEF Inv

\* A call lands: nothing was proven of it before.
LEMMA LandStep ==
  ASSUME Inv, NEW a \in Actions, Land(a)
  PROVE  Inv'
<1>1. /\ UNCHANGED <<order, action, blob, attempt, facts, anomaly, epoch, gate, calls>>
      /\ calls[a] > 0 /\ effect[a] = "none"
  BY DEF Land
<1>2. /\ effect' \in [Actions -> {"none", "match", "differ"}]
      /\ \A b \in Actions : b # a => effect'[b] = effect[b]
  BY DEF Land, Inv, TypeOK
<1>3. TypeOK'
  BY <1>1, <1>2 DEF Inv, TypeOK
<1>4. ASSUME NEW b \in Actions PROVE CallInv(b)'
  BY <1>1, <1>2 DEF Inv, CallInv
<1>5. ASSUME NEW b \in Actions PROVE TurnInv(b)'
  BY <1>1 DEF Inv, TurnInv, Siblings
<1>6. ASSUME NEW b \in Actions PROVE ProofInv(b)'
  <2>1. Derived(b, facts[b])' = Derived(b, facts[b])
    BY <1>1, SameFacts
  <2>2. \A s \in {"provider", "chain"} :
          b \notin Reads /\ Says(facts[b], s, "presence") => effect'[b] = "match"
    BY <1>1, <1>2 DEF Inv, ProofInv
  <2> QED BY <1>1, <2>1, <2>2 DEF Inv, ProofInv, Says
<1>7. ASSUME NEW g \in Gates PROVE GateInv(g)'
  BY <1>1 DEF Inv, GateInv, Authorized, InEpoch
<1>8. ASSUME NEW g \in Gates, NEW h \in Gates PROVE Apart(g, h)'
  BY <1>1 DEF Inv, Apart
<1> QED BY <1>3, <1>4, <1>5, <1>6, <1>7, <1>8 DEF Inv

-----------------------------------------------------------------------------
(* The theorems.                                                           *)

\* A gate that is idle knows of no action, so its session matters to nothing.
LEMMA IdleStep ==
  ASSUME Inv, NEW g \in Gates, gate[g].pc = "idle",
         \/ GateStart(g) \/ GateTooLate(g) \/ GateNoBudget(g) \/ GateCall(g)
         \/ GateFinish(g) \/ SessionLost(g) \/ GateCrash(g)
  PROVE  Inv'
<1>1. SessionLost(g)
  BY DEF GateStart, GateTooLate, GateNoBudget, GateCall, GateFinish, GateCrash, GateAt
<1>2. UNCHANGED <<order, action, blob, attempt, facts, anomaly, epoch, calls, effect>>
  BY <1>1 DEF SessionLost
<1>3. /\ gate' \in [Gates -> GateStates] /\ gate'[g].pc = "idle"
      /\ \A h \in Gates : h # g => gate'[h] = gate[h]
  <2> DEFINE s == [gate[g] EXCEPT !.session = FALSE]
  <2>1. gate[g] \in GateStates
    BY DEF Inv, TypeOK
  <2>2. s \in GateStates /\ s.pc = "idle"
    BY <2>1 DEF GateStates
  <2>3. gate' = [gate EXCEPT ![g] = s]
    BY <1>1 DEF SessionLost, SetGate, GateAt
  <2> HIDE DEF s
  <2> QED BY <2>2, <2>3 DEF Inv, TypeOK
<1>4. TypeOK'
  BY <1>2, <1>3 DEF Inv, TypeOK
<1>5. ASSUME NEW a \in Actions PROVE CallInv(a)'
  BY <1>2 DEF Inv, CallInv
<1>6. ASSUME NEW a \in Actions PROVE TurnInv(a)'
  BY <1>2 DEF Inv, TurnInv, Siblings
<1>7. ASSUME NEW a \in Actions PROVE ProofInv(a)'
  <2>1. Derived(a, facts[a])' = Derived(a, facts[a])
    BY <1>2, SameFacts
  <2> QED BY <1>2, <2>1 DEF Inv, ProofInv, Says
<1>8. ASSUME NEW h \in Gates PROVE GateInv(h)'
  <2>1. CASE h = g
    BY <1>3, <2>1 DEF GateInv
  <2>2. CASE h # g
    BY <1>2, <1>3, <2>2 DEF Inv, GateInv, Authorized, InEpoch
  <2> QED BY <2>1, <2>2
<1>9. ASSUME NEW h \in Gates, NEW k \in Gates PROVE Apart(h, k)'
  BY <1>3 DEF Inv, Apart
<1> QED BY <1>4, <1>5, <1>6, <1>7, <1>8, <1>9 DEF Inv

\* Every step preserves the invariant.
LEMMA NextInv == Inv /\ [Next]_vars => Inv'
<1> SUFFICES ASSUME Inv, [Next]_vars PROVE Inv'
  OBVIOUS
<1>1. ASSUME NEW a \in Actions, StoreStep(a) PROVE Inv'
  BY <1>1, AdmitStep, MoveStep, StartStep, AttemptStep, ObserveStep, ResolveStep, BlobStep
     DEF StoreStep
<1>2. ASSUME NEW g \in Gates, GateStep(g) PROVE Inv'
  BY <1>2, ReserveStep, GateStepInv, IdleStep DEF GateStep
<1>3. ASSUME World PROVE Inv'
  BY <1>3, AdvanceStep, ObligeStep, GateStepInv, IdleStep, BlobStep, MoveStep, AttemptStep,
     LandStep DEF World
<1>4. ASSUME UNCHANGED vars PROVE Inv'
  <2>1. UNCHANGED <<order, action, blob, attempt, facts, anomaly, epoch, gate, calls, effect>>
    BY <1>4 DEF vars
  <2>2. TypeOK'
    BY <2>1 DEF Inv, TypeOK
  <2>3. ASSUME NEW a \in Actions PROVE CallInv(a)' /\ TurnInv(a)'
    BY <2>1 DEF Inv, CallInv, TurnInv, Siblings
  <2>4. ASSUME NEW a \in Actions PROVE ProofInv(a)'
    <3>1. Derived(a, facts[a])' = Derived(a, facts[a])
      BY <2>1, SameFacts
    <3> QED BY <2>1, <3>1 DEF Inv, ProofInv, Says
  <2>5. ASSUME NEW g \in Gates PROVE GateInv(g)'
    BY <2>1 DEF Inv, GateInv, Authorized, InEpoch
  <2>6. ASSUME NEW g \in Gates, NEW h \in Gates PROVE Apart(g, h)'
    BY <2>1 DEF Inv, Apart
  <2> QED BY <2>2, <2>3, <2>4, <2>5, <2>6 DEF Inv
<1> QED BY <1>1, <1>2, <1>3, <1>4 DEF Next

\* Ledger, gates and evidence agree in every reachable state.
THEOREM ActionsInvariance == Spec => []Inv
BY InitInv, NextInv, PTL DEF Spec

\* Every table and every local variable keeps its type, for any number of
\* actions, orders and gates and any epoch.
THEOREM ActionsTyped == Spec => []TypeOK
<1>1. Inv => TypeOK
  BY DEF Inv
<1> QED BY <1>1, ActionsInvariance, PTL

\* Whatever MutationGate.run calls there are, and wherever they are
\* interrupted, the provider is called once for an action at most.
THEOREM ProviderCalledOnce == Spec => []CalledOnce
<1>1. Inv => CalledOnce
  BY DEF Inv, CallInv, CalledOnce
<1> QED BY <1>1, ActionsInvariance, PTL

\* What the ledger closes as never handed to the transport was not called, and
\* no gate is left that will call it.
THEOREM ClosedUnsent == Spec => []UnsentNotCalled
<1>1. Inv => UnsentNotCalled
  BY DEF Inv, CallInv, GateInv, UnsentNotCalled, Unsent, GateAt
<1> QED BY <1>1, ActionsInvariance, PTL

\* purge_expired_blobs destroys no bytes a gate can still send.
THEOREM BytesSurvive == Spec => []BytesOutliveCall
<1>1. Inv => BytesOutliveCall
  BY DEF Inv, GateInv, BytesOutliveCall
<1> QED BY <1>1, ActionsInvariance, PTL

\* The gate's calls are safe.
THEOREM SafeCalls == Spec => []CallsAreSafe
<1>1. CalledOnce /\ UnsentNotCalled /\ BytesOutliveCall => CallsAreSafe
  BY DEF CallsAreSafe
<1> QED BY <1>1, ProviderCalledOnce, ClosedUnsent, BytesSurvive, PTL

\* An action that depends on another reaches the provider only once that one
\* is proven to have succeeded.
THEOREM ChildrenWait == Spec => []ChildNeedsSuccess
<1>1. ASSUME Inv, NEW a \in Actions, Parent[a] # NoAction, calls[a] > 0
      PROVE  action[Parent[a]].effect = "present"
  <2>1. attempt[a].egress # "none"
    BY <1>1 DEF Inv, CallInv, Unsent
  <2> QED BY <1>1, <2>1 DEF Inv, CallInv
<1>2. Inv => ChildNeedsSuccess
  BY <1>1 DEF ChildNeedsSuccess
<1> QED BY <1>2, ActionsInvariance, PTL

\* A settled action whose proof is withdrawn or contradicted has a blocking
\* anomaly open about it.
THEOREM DivergenceIsBlocking == Spec => []DivergenceBlocks
<1>1. Inv => DivergenceBlocks
  BY DEF Inv, ProofInv, DivergenceBlocks
<1> QED BY <1>1, ActionsInvariance, PTL

\* Only the call of a gate raises the number of calls.
LEMMA OnlyGateCall ==
  ASSUME Inv, [Next]_vars, NEW a \in Actions, calls'[a] > calls[a]
  PROVE  \E g \in Gates : GateCall(g) /\ gate[g].pc = "started" /\ gate[g].action = a
<1>1. calls[a] \in Nat /\ calls' # calls
  BY DEF Inv, TypeOK
<1>2. PICK g \in Gates : GateCall(g)
  <2>1. ASSUME NEW b \in Actions, StoreStep(b) PROVE UNCHANGED calls
    BY <2>1, Zenon DEF StoreStep, Admit, Expect, Bind, Claim, Ready, Start, Respond, Reconcile,
       Defer, Observe, ResolveAnomaly, RecoverEgress, PurgeBlob
  <2>2. ASSUME NEW g \in Gates, GateStep(g), ~ GateCall(g) PROVE UNCHANGED calls
    BY <2>2 DEF GateStep, Reserve, GateStart, GateTooLate, GateNoBudget, GateFinish
  <2>3. ASSUME World PROVE UNCHANGED calls
    BY <2>3 DEF World, AdvanceEpoch, Oblige, SessionLost, GateCrash, BlobLapses, LeaseExpires,
       DeadlinePasses, Land
  <2>4. UNCHANGED vars => UNCHANGED calls
    BY DEF vars
  <2> QED BY <1>1, <2>1, <2>2, <2>3, <2>4 DEF Next
<1>3. gate[g].pc = "started" /\ calls' = [calls EXCEPT ![gate[g].action] = calls[gate[g].action] + 1]
  BY <1>2 DEF GateCall, GateAt
<1>4. gate[g].action = a
  BY <1>1, <1>3 DEF Inv, TypeOK
<1> QED BY <1>2, <1>3, <1>4

\* A call belongs to the epoch of its attempt, unless its gate has lost its
\* session and was held up past the deadline too: the shared lock and the
\* durable authorization back each other up against a cutover.
THEOREM CallsInEpoch == Spec => CalledInEpoch
<1> DEFINE Stands(g) ==
      LET a == gate[g].action
      IN (a # NoAction /\ calls'[a] > calls[a] /\ gate'[g].pc = "calling") =>
           \/ attempt[a].epoch = epoch.n /\ epoch.live
           \/ ~ gate[g].session /\ attempt[a].deadline = "passed"
<1>1. ASSUME Inv, [Next]_vars, NEW g \in Gates,
             gate[g].action # NoAction, calls'[gate[g].action] > calls[gate[g].action],
             gate'[g].pc = "calling"
      PROVE  \/ attempt[gate[g].action].epoch = epoch.n /\ epoch.live
             \/ ~ gate[g].session /\ attempt[gate[g].action].deadline = "passed"
  <2>1. PICK a \in Actions : a = gate[g].action
    BY <1>1 DEF Inv, TypeOK, GateStates
  <2>2. PICK h \in Gates : GateCall(h) /\ gate[h].pc = "started" /\ gate[h].action = a
    BY <1>1, <2>1, OnlyGateCall
  <2>3. g = h
    <3>1. ASSUME g # h PROVE gate'[g] = gate[g]
      BY <2>2, <3>1 DEF GateCall, SetGate, Inv, TypeOK
    <3> QED BY <1>1, <2>1, <2>2, <3>1 DEF Inv, Apart
  <2>4. attempt[a].egress = "started" /\ (gate[g].session \/ Authorized(a) => InEpoch(a))
    BY <1>1, <2>1, <2>2, <2>3 DEF Inv, GateInv
  <2>5. attempt[a].deadline \in {"live", "passed"}
    BY <1>1, <2>4 DEF Inv, TypeOK, AttemptRows, CallInv
  <2> QED BY <2>1, <2>4, <2>5 DEF Authorized, InEpoch
<1>2. Inv /\ [Next]_vars => [\A g \in Gates : Stands(g)]_vars
  BY <1>1
<1>3. [][\A g \in Gates : Stands(g)]_vars => CalledInEpoch
  BY DEF CalledInEpoch
<1> QED BY <1>2, <1>3, ActionsInvariance, PTL DEF Spec

\* No write reaches the provider once a later action of its order did: an
\* action is started when those before it are done, and a write is done only
\* after its call.
THEOREM NothingOvertakes == Spec => NoOvertaking
<1>1. ASSUME Inv, [Next]_vars, NEW a \in Actions \ Reads, calls'[a] > calls[a],
             NEW b \in Siblings(a), action[b].work # "none",
             action[b].expected > action[a].expected
      PROVE  calls[b] = 0
  <2>1. b \in Actions /\ a \in Siblings(b) /\ calls[b] \in Nat
    BY <1>1 DEF Siblings, Inv, TypeOK
  <2>2. PICK h \in Gates : gate[h].pc = "started" /\ gate[h].action = a
    BY <1>1, OnlyGateCall
  <2>3. attempt[a].egress = "started" /\ calls[a] = 0
    BY <1>1, <2>2 DEF Inv, GateInv
  <2>4. action[a].work \notin {"none", "done"}
    BY <1>1, <2>3 DEF Inv, CallInv, ProofInv, Early
  <2>5. action[a].expected < action[b].expected
    BY <1>1, <2>1 DEF Inv, TypeOK, ActionRows
  <2>6. attempt[b].send = "none"
    BY <1>1, <2>1, <2>4, <2>5 DEF Inv, TurnInv
  <2> QED BY <1>1, <2>1, <2>6 DEF Inv, CallInv, Unsent
<1>2. Inv /\ [Next]_vars => [OvertakesNone]_vars
  BY <1>1 DEF OvertakesNone
<1> QED BY <1>2, ActionsInvariance, PTL DEF Spec, NoOvertaking
=============================================================================

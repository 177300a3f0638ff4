--------------------------- MODULE ProviderOrders ---------------------------
(* One conditional order of the synchronous API (orders/orderService.ts)    *)
(* with the provider behind it (orders/jupiterTriggerProvider.ts): the row's *)
(* operation fact (leased, reserved, started, unknown), the calls that may  *)
(* take effect after their caller has given up, and the sync that learns    *)
(* from the provider's history what became of them and claims the money it  *)
(* reports (orders/providerMoneySync.ts).                                   *)
(*                                                                          *)
(* The venue is the provider's side.  It makes at most one order of a       *)
(* deposit: the deposit is one signed transaction, which lands once.        *)
EXTENDS Integers, FiniteSets

CONSTANTS
    Procs,      \* handlers of the owner's requests, from any number of tabs
    Syncs,      \* runs of sync
    Prices,     \* what an edit may ask for; one the order does not have
    Input,      \* units of input deposited, filled one at a time
    MaxOps,     \* bound: leases taken
    MaxMoves    \* bound: changes at the venue

VARIABLES
    row,        \* the order_intents row
    venue,      \* the provider's order
    late,       \* requests whose caller has gone and that may still be applied
    call,       \* what each request of the owner remembers
    sync,       \* what each sync remembers
    claimed     \* provider money events claimed in the asset ledger

vars == <<row, venue, late, call, sync, claimed>>

NoOp == [op |-> "none", kind |-> "none", want |-> 0, token |-> 0, live |-> FALSE,
         unknown |-> FALSE, since |-> 0, idSeen |-> FALSE, requestSeen |-> 0]
NoOrder == [state |-> "none", known |-> FALSE, price |-> 1, request |-> 0, tx |-> FALSE,
            ver |-> 0, at |-> -1, fact |-> NoOp]
NoVenue == [state |-> "none", price |-> 1, request |-> 0, at |-> 0, landed |-> FALSE, used |-> 0,
            returned |-> FALSE]
OpenOrder == [NoOrder EXCEPT !.state = "open", !.known = TRUE]
OpenVenue == [NoVenue EXCEPT !.state = "open", !.landed = TRUE]
NoReply == [ok |-> FALSE, state |-> "none", request |-> 0]
Idle == [pc |-> "idle", kind |-> "none", want |-> 0, token |-> 0, answered |-> FALSE, reply |-> NoReply]
\* What a sync keeps of a row it read: what finds the order, and the unknown
\* fact it may prove.
Kept(r) ==
    [known |-> r.known \/ r.fact.idSeen, request |-> IF r.tx THEN r.request ELSE 0,
     ver |-> IF r.fact.unknown THEN r.ver ELSE 0, fact |-> IF r.fact.unknown THEN r.fact ELSE NoOp]
Asleep == [pc |-> "idle", copy |-> Kept(NoOrder), seen |-> NoVenue]

Closed == {"filled", "cancelled", "expired", "failed"}

\* The states in which acquireLease reserves an operation of each kind.
From(kind) ==
    CASE kind = "prepare" -> {"preparing"}
      [] kind = "activate" -> {"prepared", "activating"}
      [] kind = "edit" -> {"open"}
      [] kind = "cancel_init" -> {"open", "expired"}
      [] kind = "cancel_confirm" -> {"cancel_pending"}

Init ==
    /\ \/ row = NoOrder /\ venue = NoVenue
       \/ row = OpenOrder /\ venue = OpenVenue
    /\ late = {} /\ claimed = {}
    /\ call = [u \in Procs |-> Idle]
    /\ sync = [s \in Syncs |-> Asleep]

-----------------------------------------------------------------------------
(* The venue.                                                                *)

Accepts(v, request) ==
    CASE request.kind = "prepare" -> TRUE
      [] request.kind = "activate" -> v.state = "none"
      [] request.kind = "edit" -> v.state = "open"
      [] request.kind = "cancel_init" -> v.state \in {"open", "executing", "partially_filled", "expired"}
      [] request.kind = "cancel_confirm" -> v.state = "cancel_pending" /\ request.want = v.request

Applied(v, request) ==
    CASE request.kind = "prepare" -> {v}
      [] request.kind = "activate" ->
            {[v EXCEPT !.state = s, !.landed = (s = "open"), !.at = @ + 1] : s \in {"activating", "open"}}
      [] request.kind = "edit" -> {[v EXCEPT !.price = request.want, !.at = @ + 1]}
      [] request.kind = "cancel_init" ->
            {[v EXCEPT !.state = "cancel_pending", !.request = @ + 1, !.at = @ + 1]}
      [] request.kind = "cancel_confirm" -> {[v EXCEPT !.state = "cancelled", !.at = @ + 1]}

\* What the venue does by itself: the deposit lands, the order executes, fills,
\* expires or fails, what is left of a closed order is returned.
VenueMoves(v) ==
    /\ venue.at < MaxMoves
    /\ venue' = [v EXCEPT !.at = @ + 1]
    /\ UNCHANGED <<row, late, call, sync, claimed>>
DepositLands ==
    /\ venue.state = "activating"
    /\ VenueMoves([venue EXCEPT !.state = "open", !.landed = TRUE])
Execute == venue.state = "open" /\ VenueMoves([venue EXCEPT !.state = "executing"])
Fill ==
    /\ venue.state \in {"open", "executing", "partially_filled"}
    /\ VenueMoves([venue EXCEPT !.used = @ + 1,
                                !.state = IF venue.used + 1 = Input THEN "filled" ELSE "partially_filled"])
Expire ==
    /\ venue.state \in {"open", "executing", "partially_filled"}
    /\ VenueMoves([venue EXCEPT !.state = "expired"])
Fail ==
    /\ venue.state \in {"activating", "open", "executing", "partially_filled", "cancel_pending"}
    /\ VenueMoves([venue EXCEPT !.state = "failed"])
Return ==
    /\ venue.state \in Closed /\ venue.landed /\ ~venue.returned
    /\ VenueMoves([venue EXCEPT !.returned = TRUE])

Request(u) == [kind |-> call[u].kind, want |-> call[u].want, token |-> call[u].token]

\* The venue decides a request, its caller still waiting or gone.  It does not
\* apply one after a later one (tokens grow): what it has not applied by then it
\* drops.
Apply(u) ==
    /\ call[u].pc = "calling" /\ ~call[u].answered /\ Accepts(venue, Request(u))
    /\ \E v \in Applied(venue, Request(u)) :
        /\ venue' = v
        /\ call' = [call EXCEPT ![u].answered = TRUE,
                      ![u].reply = [ok |-> TRUE, state |-> v.state, request |-> v.request]]
    /\ late' = {}
    /\ UNCHANGED <<row, sync, claimed>>
Refuse(u) ==
    /\ call[u].pc = "calling" /\ ~call[u].answered
    /\ call' = [call EXCEPT ![u].answered = TRUE]
    /\ UNCHANGED <<row, venue, late, sync, claimed>>
ApplyLate ==
    /\ \E r \in late :
        /\ Accepts(venue, r) /\ venue' \in Applied(venue, r)
        /\ late' = {q \in late : q.token > r.token}
    /\ UNCHANGED <<row, call, sync, claimed>>

-----------------------------------------------------------------------------
(* A mutation: read, reserve, start, call, commit or record the failure.     *)

Known == row.fact.op # "started"
Mine(u) == row.fact.token = call[u].token /\ row.fact.token # 0
Done(u) == call' = [call EXCEPT ![u] = Idle]
CallFrom(u, kind, want) ==
    call' = [call EXCEPT ![u] = [Idle EXCEPT !.pc = "read", !.kind = kind, !.want = want]]

\* The insert of a new order carries its first reservation.
Reserved(r, kind, want) ==
    [r EXCEPT !.ver = @ + 1,
              !.state = IF kind = "activate" THEN "activating" ELSE @,
              !.fact = [NoOp EXCEPT !.op = "reserved", !.kind = kind, !.want = want,
                                    !.token = r.ver + 1, !.live = TRUE]]
Insert(u) ==
    /\ call[u].pc = "idle" /\ row.state = "none" /\ row.ver < MaxOps
    /\ row' = Reserved([row EXCEPT !.state = "preparing"], "prepare", 0)
    /\ call' = [call EXCEPT ![u] = [Idle EXCEPT !.pc = "leased", !.kind = "prepare", !.token = row'.ver]]
    /\ UNCHANGED <<venue, late, sync, claimed>>

\* Each operation reads the row first, and checks transactions over the network
\* before it goes on: what it read may be old by the time it reserves.
ReadPrepare(u) == row.state = "preparing" /\ CallFrom(u, "prepare", 0)
ReadActivate(u) == ~row.known /\ row.state \in {"prepared", "activating"} /\ CallFrom(u, "activate", 0)
ReadEdit(u) ==
    \E p \in Prices \ {row.price} : row.known /\ row.state = "open" /\ CallFrom(u, "edit", p)
ReadCancel(u) == row.known /\ row.state \in {"open", "expired"} /\ CallFrom(u, "cancel_init", 0)
ReadConfirm(u) ==
    /\ row.known /\ row.state = "cancel_pending" /\ row.request # 0 /\ row.tx
    /\ CallFrom(u, "cancel_confirm", row.request)
Read(u) ==
    /\ call[u].pc = "idle" /\ Known
    /\ \/ ReadPrepare(u) \/ ReadActivate(u) \/ ReadEdit(u) \/ ReadCancel(u) \/ ReadConfirm(u)
    /\ UNCHANGED <<row, venue, late, sync, claimed>>

\* A plausible slip: a lapsed lease may be taken over whatever became of it.
MayReserve_Lapsed(kind) == row.state \in From(kind) /\ ~row.fact.live /\ row.ver < MaxOps
\* A lapsed lease may be taken over, a started operation never.
MayReserve(kind) ==
    /\ row.state \in From(kind) /\ Known
    /\ ~row.fact.live /\ row.ver < MaxOps
Reserve(u) ==
    /\ call[u].pc = "read"
    /\ IF MayReserve(call[u].kind)
       THEN /\ row' = Reserved(row, call[u].kind, call[u].want)
            /\ call' = [call EXCEPT ![u].pc = "leased", ![u].token = row'.ver]
       ELSE Done(u) /\ UNCHANGED row
    /\ UNCHANGED <<venue, late, sync, claimed>>

Start(u) ==
    /\ call[u].pc = "leased"
    /\ IF Mine(u) /\ row.fact.op = "reserved" /\ row.fact.live
       THEN /\ row' = [row EXCEPT !.fact.op = "started", !.fact.since = venue.at]
            /\ call' = [call EXCEPT ![u].pc = "started"]
       ELSE call' = [call EXCEPT ![u].pc = "certain"] /\ UNCHANGED row
    /\ UNCHANGED <<venue, late, sync, claimed>>

\* The provider's quota is reserved before the request leaves.
Limited(u) ==
    /\ call[u].pc = "started"
    /\ call' = [call EXCEPT ![u].pc = "certain"]
    /\ UNCHANGED <<row, venue, late, sync, claimed>>
Send(u) ==
    /\ call[u].pc = "started"
    /\ call' = [call EXCEPT ![u].pc = "calling"]
    /\ UNCHANGED <<row, venue, late, sync, claimed>>

\* No answer in time, a broken connection, HTTP 408 or 5xx: the outcome is
\* uncertain, and the request may still be applied.
Left(u) == IF call[u].pc = "calling" /\ ~call[u].answered THEN late \union {Request(u)} ELSE late
GiveUp(u) ==
    /\ call[u].pc = "calling"
    /\ late' = Left(u)
    /\ call' = [call EXCEPT ![u].pc = "uncertain", ![u].reply = NoReply]
    /\ UNCHANGED <<row, venue, sync, claimed>>
\* An answer: a refusal is certain; an acceptance that does not hold what it
\* should is as uncertain as none (but for the addresses of a deposit).
Receive(u) ==
    /\ call[u].pc = "calling" /\ call[u].answered
    /\ \/ call[u].reply.ok /\ call' = [call EXCEPT ![u].pc = "accepted"]
       \/ call[u].reply.ok /\ call' = [call EXCEPT ![u].pc = "uncertain", ![u].reply = NoReply]
       \/ /\ ~call[u].reply.ok \/ call[u].kind = "prepare"
          /\ call' = [call EXCEPT ![u].pc = "certain"]
    /\ UNCHANGED <<row, venue, late, sync, claimed>>

Committed(r, c) ==
    LET done == [r EXCEPT !.fact = NoOp]
    IN CASE c.kind = "prepare" -> [done EXCEPT !.state = "prepared"]
         [] c.kind = "activate" -> [done EXCEPT !.state = c.reply.state, !.known = TRUE]
         [] c.kind = "edit" -> [done EXCEPT !.price = c.want]
         [] c.kind = "cancel_init" ->
               [done EXCEPT !.state = "cancel_pending", !.request = c.reply.request, !.tx = TRUE]
         [] c.kind = "cancel_confirm" -> [done EXCEPT !.state = "cancelled", !.tx = FALSE]
Commit(u) ==
    /\ call[u].pc = "accepted" /\ Mine(u)
    /\ call[u].kind = "prepare" => row.state = "preparing"
    /\ row' = Committed(row, call[u])
    /\ Done(u)
    /\ UNCHANGED <<venue, late, sync, claimed>>
\* A plausible slip: only the provider's own errors are uncertain.
Uncommitted_Certain(c) == [c EXCEPT !.pc = "certain"]
\* uncommitted(): what the provider accepted and this side could not check or
\* commit is uncertain, whatever the error.
Uncommitted(c) == [c EXCEPT !.pc = "uncertain"]
CommitFails(u) ==
    /\ call[u].pc = "accepted"
    /\ call' = [call EXCEPT ![u] = Uncommitted(@)]
    /\ UNCHANGED <<row, venue, late, sync, claimed>>

\* recordFailure: an uncertain outcome stays with the row, its evidence beside
\* it; a certain one ends the operation.
Unknown(r, c) ==
    [r EXCEPT !.ver = @ + 1, !.fact.unknown = TRUE, !.fact.token = 0, !.fact.live = FALSE,
              !.fact.idSeen = c.reply.ok, !.fact.requestSeen = c.reply.request,
              !.request = IF c.kind = "cancel_init" /\ c.reply.ok THEN c.reply.request ELSE @,
              !.tx = @ \/ (c.kind = "cancel_init" /\ c.reply.ok)]
RecordUnknown(u) ==
    /\ call[u].pc = "uncertain"
    /\ row' = IF Mine(u) /\ row.fact.op = "started" THEN Unknown(row, call[u]) ELSE row
    /\ Done(u)
    /\ UNCHANGED <<venue, late, sync, claimed>>
RecordCertain(u) ==
    /\ call[u].pc = "certain"
    /\ row' = IF Mine(u) THEN [row EXCEPT !.fact = NoOp] ELSE row
    /\ Done(u)
    /\ UNCHANGED <<venue, late, sync, claimed>>

\* The process dies, or the database with it: the row stays as it is.
Die(u) ==
    /\ call[u].pc # "idle"
    /\ late' = Left(u)
    /\ Done(u)
    /\ UNCHANGED <<row, venue, sync, claimed>>
Lapse ==
    /\ row.fact.live
    /\ row' = [row EXCEPT !.fact.live = FALSE]
    /\ UNCHANGED <<venue, late, call, sync, claimed>>

-----------------------------------------------------------------------------
(* sync(): the rows, then the history, then two transactions for the order.  *)

SyncRows(s) ==
    /\ sync[s].pc = "idle"
    /\ row.known \/ row.fact.op = "started"
    /\ sync' = [sync EXCEPT ![s] = [Asleep EXCEPT !.pc = "rows", !.copy = Kept(row)]]
    /\ UNCHANGED <<row, venue, late, call, claimed>>
\* The order is found by the id the row holds or its evidence names.
SyncHistory(s) ==
    /\ sync[s].pc = "rows"
    /\ venue.state # "none" /\ sync[s].copy.known
    /\ sync' = [sync EXCEPT ![s].pc = "apply", ![s].seen = venue]
    /\ UNCHANGED <<row, venue, late, call, claimed>>
SyncEnds(s) ==
    /\ sync[s].pc # "idle"
    /\ sync' = [sync EXCEPT ![s] = Asleep]
    /\ UNCHANGED <<row, venue, late, call, claimed>>

MoneyEvents(v) ==
    (IF v.landed THEN {<<"deposit", 0>>} ELSE {})
    \union {<<"fill", i>> : i \in 1 .. v.used}
    \union (IF v.returned THEN {<<"withdrawal", 0>>} ELSE {})
\* A plausible slip: a closed order is believed before it has given anything back.
TotalsAgree_Unreturned(v) == <<"deposit", 0>> \in MoneyEvents(v)
\* verifyTotals: the deposit is there, and a closed order has given back what
\* it holds.
TotalsAgree(v) ==
    /\ <<"deposit", 0>> \in MoneyEvents(v)
    /\ v.state \in Closed => <<"withdrawal", 0>> \in MoneyEvents(v)

PreviousStates(state) ==
    CASE state = "activating" -> {"preparing", "prepared", "activating"}
      [] state = "open" -> {"activating", "open"}
      [] state = "executing" -> {"open", "executing"}
      [] state = "partially_filled" -> {"open", "executing", "partially_filled"}
      [] state = "filled" -> {"open", "executing", "partially_filled", "filled"}
      [] state = "cancel_pending" -> {"open", "expired", "cancel_pending"}
      [] state = "cancelled" -> {"open", "cancel_pending", "expired", "cancelled"}
      [] state = "expired" -> {"open", "executing", "expired"}
      [] state = "failed" ->
            {"preparing", "prepared", "activating", "open", "executing", "partially_filled",
             "cancel_pending", "failed"}
      [] OTHER -> {state}

\* reconciliationProof, made from the rows as they were read.
Proven(copy, seen) ==
    /\ copy.fact.unknown /\ seen.at >= copy.fact.since
    /\ \/ copy.fact.kind = "edit" /\ seen.price = copy.fact.want
       \/ /\ copy.fact.kind = "cancel_init" /\ seen.state = "cancel_pending"
          /\ copy.request # 0 /\ copy.fact.requestSeen = copy.request
\* One transaction: the money is verified and claimed, then the state follows
\* unless the row is past it or has heard later news.  Totals that disagree
\* end the whole sync.
SyncApply(s) ==
    /\ sync[s].pc = "apply" /\ TotalsAgree(sync[s].seen)
    /\ claimed' = claimed \union MoneyEvents(sync[s].seen)
    /\ LET seen == sync[s].seen
       IN row' = IF row.state \in PreviousStates(seen.state) /\ row.at <= seen.at
                 THEN [row EXCEPT !.state = seen.state, !.known = TRUE, !.at = seen.at]
                 ELSE row
    /\ sync' = IF Proven(sync[s].copy, sync[s].seen)
               THEN [sync EXCEPT ![s].pc = "prove"] ELSE [sync EXCEPT ![s] = Asleep]
    /\ UNCHANGED <<venue, late, call>>

SameFact(copy) == row.ver = copy.ver /\ row.fact = copy.fact
SyncProve(s) ==
    /\ sync[s].pc = "prove"
    /\ LET copy == sync[s].copy
           seen == sync[s].seen
       IN row' = IF SameFact(copy)
                 THEN [row EXCEPT !.state = seen.state, !.known = TRUE, !.fact = NoOp,
                                  !.price = IF copy.fact.kind = "edit" THEN copy.fact.want ELSE @]
                 ELSE row
    /\ sync' = [sync EXCEPT ![s] = Asleep]
    /\ UNCHANGED <<venue, late, call, claimed>>

-----------------------------------------------------------------------------
VenueStep == DepositLands \/ Execute \/ Fill \/ Expire \/ Fail \/ Return \/ ApplyLate
UserStep(u) ==
    \/ Insert(u) \/ Read(u) \/ Reserve(u) \/ Start(u) \/ Limited(u) \/ Send(u)
    \/ Apply(u) \/ Refuse(u) \/ GiveUp(u) \/ Receive(u)
    \/ Commit(u) \/ CommitFails(u) \/ RecordUnknown(u) \/ RecordCertain(u) \/ Die(u)
SyncStep(s) == SyncRows(s) \/ SyncHistory(s) \/ SyncApply(s) \/ SyncProve(s) \/ SyncEnds(s)
Next ==
    \/ VenueStep \/ Lapse
    \/ \E u \in Procs : UserStep(u)
    \/ \E s \in Syncs : SyncStep(s)

Spec == Init /\ [][Next]_vars

-----------------------------------------------------------------------------
\* A request that may still make or end an order is the one the row's started
\* fact names ("a started fact survives process death and database write
\* failures", V037).  An edit may be proven by an order that already showed it.
Undecided ==
    late \union {Request(u) : u \in {x \in Procs : call[x].pc = "calling" /\ ~call[x].answered}}
EffectsAreFenced ==
    \A r \in Undecided :
        \/ row.fact.op = "started" /\ row.fact.kind = r.kind /\ row.fact.want = r.want
        \/ ~Accepts(venue, r) \/ r.kind = "edit"

\* A row that carries no started fact is right about the provider's order:
\* that there is one, what it asks for, which cancellation it awaits.
KnownIsTrue ==
    Known =>
        /\ row.known = (venue.state # "none")
        /\ row.price = venue.price
        /\ venue.state = "cancel_pending" => row.state = "cancel_pending" /\ row.request = venue.request /\ row.tx

\* Money the row says was filled is in the ledger.
FilledIsClaimed ==
    /\ row.state = "filled" => claimed = MoneyEvents(venue)
    /\ row.state = "partially_filled" => {<<"deposit", 0>>, <<"fill", 1>>} \subseteq claimed

\* What the owner is told of an order is what the provider holds (orderService.ts
\* acquireLease, recordFailure, sync).
OrderIsTrue == EffectsAreFenced /\ KnownIsTrue /\ FilledIsClaimed
=============================================================================

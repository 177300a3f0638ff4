------------------------ MODULE NotificationDelivery ------------------------
(***************************************************************************)
(* Delivering the notification of an alert event through Telegram or       *)
(* Discord, at most once although its job arrives at least once.           *)
(*                                                                         *)
(*   - EventOutbox puts jobs on the stream: the first with the event, one  *)
(*     more each time a retry is due.  Here only what EventOutbox promises *)
(*     is left of it: a job is published, perhaps again, or given up;      *)
(*   - a worker (one slot of mapConcurrent in a notification-worker        *)
(*     process) takes fresh jobs and jobs another worker holds for long,   *)
(*     and runs handle: begin, check the preference, claim, reserve a      *)
(*     rate, send, apply the result; each database call is an action;      *)
(*   - republishDue sweeps lost leases and due retries.                    *)
(*                                                                         *)
(* A lease token is fresh with each claim_seq of a delivery, which stands  *)
(* for it.  The status suppressed is left out: no provider asks for it and *)
(* resolveChannel never does.  Where the database fails, the caller may    *)
(* see an error although the transaction is committed.                     *)
(***************************************************************************)
EXTENDS Integers, FiniteSets

CONSTANTS
  Deliveries,   \* alert events, each with one delivery
  Workers,
  MaxAttempts,  \* NOTIFICATION_MAX_ATTEMPTS: sends of a delivery, tries of a job
  MaxDefers,    \* bound: how often rate limits may defer a delivery
  MaxForgets    \* bound: how often Discord may forget the nonce of a delivery

ASSUME DeliveryAssumption ==
  /\ MaxAttempts \in Nat \ {0}
  /\ MaxDefers \in Nat /\ MaxForgets \in Nat

\* retry_seq counts the retryable answers and the deferrals.
Seqs == 0 .. MaxAttempts + MaxDefers
Claims == 1 .. MaxAttempts + MaxDefers

VARIABLES
  event,     \* alert_events: does the event exist?
  delivery,  \* notification_deliveries
  journal,   \* notification_attempts: the status of each claim
  job,       \* the jobs of a delivery by retry_seq: where each is between its
             \*   outbox row and its acknowledgement, and its retry counter
  dead,      \* jobs copied to the dead letter stream
  worker,    \* what each worker is doing
  received,  \* external: messages the recipient got
  nonce      \* external: does Discord remember the nonce, and what it forgot

vars == <<event, delivery, journal, job, dead, worker, received, nonce>>

Channels == {"telegram", "discord"}
Final == {"sent", "failed", "dead_lettered", "ambiguous"}
Statuses == {"none", "pending", "sending", "retry_scheduled"} \cup Final

\* due: next_attempt_at <= NOW(); expired: lease_until <= NOW().
\* notification_lease_check: a row has a lease while it is sending.
DeliveryRows ==
  {r \in [channel : Channels, status : Statuses, attempts : 0..MaxAttempts,
          claim_seq : {0} \cup Claims, retry_seq : Seqs, leased : BOOLEAN,
          due : BOOLEAN, expired : BOOLEAN] :
     r.leased <=> r.status = "sending"}

Attempts == {"none", "claimed", "accepted", "retryable", "permanent", "deferred", "ambiguous"}
\* queued: the outbox has it; failed: the outbox gave it up; stream: appended
\* and not acknowledged, so that a worker may take it although another has it.
Jobs == [state : {"none", "queued", "failed", "stream", "acked"}, tries : 0..MaxAttempts]
Steps == {"idle", "load", "insert", "look", "prefer", "claim", "reserve", "defer",
          "send", "apply", "retry", "bury", "clear", "ack"}
Results == {"none", "accepted", "unknown", "retryable", "permanent"}
Idle(d) == [pc |-> "idle", d |-> d, seq |-> 0, claim |-> 0, result |-> "none"]

Unborn(ch) == [channel |-> ch, status |-> "none", attempts |-> 0, claim_seq |-> 0,
               retry_seq |-> 0, leased |-> FALSE, due |-> FALSE, expired |-> FALSE]

\* The alert's event and its first job are committed together.
Init ==
  /\ event = [d \in Deliveries |-> TRUE]
  /\ \E ch \in [Deliveries -> Channels] : delivery = [d \in Deliveries |-> Unborn(ch[d])]
  /\ journal = [d \in Deliveries |-> [c \in Claims |-> "none"]]
  /\ job = [d \in Deliveries |-> [s \in Seqs |->
       [state |-> IF s = 0 THEN "queued" ELSE "none", tries |-> 0]]]
  /\ dead = [d \in Deliveries |-> [s \in Seqs |-> FALSE]]
  /\ \E d \in Deliveries : worker = [w \in Workers |-> Idle(d)]
  /\ received = [d \in Deliveries |-> 0]
  /\ nonce = [d \in Deliveries |-> [known |-> FALSE, forgotten |-> 0]]

-----------------------------------------------------------------------------
(* The jobs as the outbox leaves them.                                     *)

tables == <<event, delivery, journal>>
outside == <<received, nonce>>

SetJob(d, s, state) == job' = [job EXCEPT ![d][s].state = state]

\* The outbox appends the job to the stream, or runs out of attempts; it
\* appends it again when its marker expired in between.
Publish(d, s) ==
  /\ job[d][s].state \in {"queued", "acked"}
  /\ SetJob(d, s, "stream")
  /\ UNCHANGED <<tables, dead, worker, outside>>

GiveUp(d, s) ==
  /\ job[d][s].state = "queued"
  /\ SetJob(d, s, "failed")
  /\ UNCHANGED <<tables, dead, worker, outside>>

-----------------------------------------------------------------------------
(* A worker.                                                               *)

\* Past handle only the job is needed; before send and apply, its claim.
Goto(w, pc) ==
  worker' = [worker EXCEPT ![w] =
    IF pc \in {"send", "defer"} THEN [@ EXCEPT !.pc = pc]
    ELSE [Idle(@.d) EXCEPT !.pc = pc, !.seq = IF pc = "idle" THEN 0 ELSE worker[w].seq]]

\* A database call answers, or fails after it committed: handle then ends
\* with 'retry'.
Answer(w, pc) == Goto(w, pc) \/ Goto(w, "retry")

\* readGroup and claimStaleGroup.
Read(w, d, s) ==
  /\ worker[w].pc = "idle"
  /\ job[d][s].state = "stream"
  /\ worker' = [worker EXCEPT ![w] = [Idle(d) EXCEPT !.pc = "load", !.seq = s]]
  /\ UNCHANGED <<tables, job, dead, outside>>

\* loadContext: without its event a job is terminal.
Load(w) ==
  /\ worker[w].pc = "load"
  /\ Answer(w, IF event[worker[w].d] THEN "insert" ELSE "bury")
  /\ UNCHANGED <<tables, job, dead, outside>>

\* begin, INSERT ... ON CONFLICT DO NOTHING: the event must still be there.
Insert(w) == LET d == worker[w].d IN
  /\ worker[w].pc = "insert"
  /\ event[d]
  /\ delivery' = [delivery EXCEPT ![d].status = IF @ = "none" THEN "pending" ELSE @]
  /\ Answer(w, "look")
  /\ UNCHANGED <<event, journal, job, dead, outside>>

\* The row may be worked on: not final, not waiting, not leased.
Open(r) ==
  /\ r.status \in {"pending", "retry_scheduled", "sending"}
  /\ r.status = "retry_scheduled" => r.due
  /\ r.status = "sending" => r.expired

\* begin, SELECT; then resolutionMatches and the provider's configuration.
Look(w) == LET d == worker[w].d IN
  /\ worker[w].pc = "look"
  /\ delivery[d].status # "none"
  /\ IF Open(delivery[d])
     THEN Answer(w, "claim") \/ Goto(w, "prefer")
     ELSE Answer(w, "clear")
  /\ UNCHANGED <<tables, job, dead, outside>>

\* markPreferenceFailure: the destination moved, is off, or has no provider.
MarkPreferenceFailure(w) == LET d == worker[w].d IN
  /\ worker[w].pc = "prefer"
  /\ delivery' = [delivery EXCEPT ![d].status =
       IF @ \in {"pending", "retry_scheduled"} THEN "failed" ELSE @]
  /\ Answer(w, "clear")
  /\ UNCHANGED <<event, journal, job, dead, outside>>

\* Fault: the lease stays on the row.
Unleased_Kept(r, status) == [r EXCEPT !.status = status, !.expired = FALSE]

\* A row whose lease is taken off it.
Unleased(r, status) == [r EXCEPT !.status = status, !.leased = FALSE, !.expired = FALSE]

\* Fault: a lost lease is taken over instead of made ambiguous.
Claim_TakesOver(w) == LET d == worker[w].d  r == delivery[d]  c == r.claim_seq + 1 IN
  /\ worker[w].pc = "claim"
  /\ \/ ~Open(r) /\ Answer(w, "clear") /\ UNCHANGED <<delivery, journal>>
     \/ /\ Open(r) /\ r.attempts < MaxAttempts
        /\ delivery' = [delivery EXCEPT ![d] =
             [r EXCEPT !.status = "sending", !.attempts = @ + 1, !.claim_seq = c,
                       !.leased = TRUE, !.expired = FALSE, !.due = FALSE]]
        /\ journal' = [journal EXCEPT ![d][c] = "claimed"]
        /\ worker' = [worker EXCEPT ![w].pc = "reserve", ![w].claim = c]
  /\ UNCHANGED <<event, job, dead, outside>>

\* claim, in one transaction: a lost lease makes the delivery ambiguous, a
\* spent one is dead, any other gets a new lease.
Claim(w) == LET d == worker[w].d  r == delivery[d]  c == r.claim_seq + 1 IN
  /\ worker[w].pc = "claim"
  /\ \/ /\ ~Open(r)
        /\ Answer(w, "clear")
        /\ UNCHANGED <<delivery, journal>>
     \/ /\ Open(r) /\ r.status = "sending"
        /\ journal' = [journal EXCEPT ![d][r.claim_seq] = "ambiguous"]
        /\ delivery' = [delivery EXCEPT ![d] = Unleased(r, "ambiguous")]
        /\ Answer(w, "clear")
     \/ /\ Open(r) /\ r.status # "sending" /\ r.attempts >= MaxAttempts
        /\ delivery' = [delivery EXCEPT ![d] = Unleased(r, "dead_lettered")]
        /\ Answer(w, "clear")
        /\ UNCHANGED journal
     \/ /\ Open(r) /\ r.status # "sending" /\ r.attempts < MaxAttempts
        /\ delivery' = [delivery EXCEPT ![d] =
             [r EXCEPT !.status = "sending", !.attempts = @ + 1, !.claim_seq = c,
                       !.leased = TRUE, !.expired = FALSE, !.due = FALSE]]
        /\ journal' = [journal EXCEPT ![d][c] = "claimed"]
        /\ \/ worker' = [worker EXCEPT ![w].pc = "reserve", ![w].claim = c]
           \/ Goto(w, "retry")
  /\ UNCHANGED <<event, job, dead, outside>>

\* How often rate limits have deferred the delivery, its attempt under way
\* not counted.
Defers(r) == r.retry_seq - (r.attempts - 1)

\* reserve: the windows have room, or a limit or an error of Redis defers it.
Reserve(w) ==
  /\ worker[w].pc = "reserve"
  /\ \/ Goto(w, "send")
     \/ /\ Defers(delivery[worker[w].d]) < MaxDefers
        /\ Goto(w, "defer")
  /\ UNCHANGED <<tables, job, dead, outside>>

\* Fault: whoever has an answer may write it.
Holds_Anyone(w) == event[worker[w].d]

\* The fence of deferClaim and applyProviderResult.
Holds(w) == LET r == delivery[worker[w].d] IN
  r.status = "sending" /\ r.leased /\ r.claim_seq = worker[w].claim

\* deferClaim gives the attempt back.
DeferClaim(w) == LET d == worker[w].d  c == worker[w].claim IN
  /\ worker[w].pc = "defer"
  /\ IF journal[d][c] = "claimed" /\ Holds(w)
     THEN /\ journal' = [journal EXCEPT ![d][c] = "deferred"]
          /\ delivery' = [delivery EXCEPT ![d] =
               [Unleased(delivery[d], "retry_scheduled") EXCEPT
                 !.attempts = @ - 1, !.retry_seq = @ + 1]]
     ELSE UNCHANGED <<delivery, journal>>
  /\ Answer(w, "clear")
  /\ UNCHANGED <<event, job, dead, outside>>

Result(w, r) == worker' = [worker EXCEPT ![w].pc = "apply", ![w].result = r]

\* What the recipient gets of one call: Discord knows a nonce it has seen.
Reach(d) ==
  IF delivery[d].channel = "telegram"
  THEN received' = [received EXCEPT ![d] = @ + 1] /\ UNCHANGED nonce
  ELSE /\ received' = [received EXCEPT ![d] = IF nonce[d].known THEN @ ELSE @ + 1]
       /\ nonce' = [nonce EXCEPT ![d].known = TRUE]

\* A time-out, a lost answer or a server error says nothing about the effect:
\* errorResult reports it as unknown for Telegram and as none for Discord.
Unanswered(d) == IF delivery[d].channel = "telegram" THEN "unknown" ELSE "retryable"

Send(w) == LET d == worker[w].d IN
  /\ worker[w].pc = "send"
  /\ \/ Reach(d) /\ Result(w, "accepted")
     \/ Reach(d) /\ Result(w, Unanswered(d))
     \/ \E r \in {Unanswered(d), "retryable", "permanent"} :
          Result(w, r) /\ UNCHANGED <<received, nonce>>
  /\ UNCHANGED <<tables, job, dead>>

\* Fault: an answer that leaves the effect unknown is retried.
Applied_Retries(r, result) ==
  CASE result = "accepted" -> Unleased(r, "sent")
    [] result = "permanent" -> Unleased(r, "failed")
    [] OTHER -> [Unleased(r, IF r.attempts >= MaxAttempts THEN "dead_lettered"
                             ELSE "retry_scheduled") EXCEPT !.retry_seq = @ + 1]

\* What applyProviderResult makes of an answer.
Applied(r, result) ==
  CASE result = "accepted" -> Unleased(r, "sent")
    [] result = "unknown" -> Unleased(r, "ambiguous")
    [] result = "permanent" -> Unleased(r, "failed")
    [] OTHER -> [Unleased(r, IF r.attempts >= MaxAttempts THEN "dead_lettered"
                             ELSE "retry_scheduled") EXCEPT !.retry_seq = @ + 1]

\* applyProviderResult: a late answer is stale and changes nothing.
ApplyProviderResult(w) == LET d == worker[w].d  res == worker[w].result IN
  /\ worker[w].pc = "apply"
  /\ IF Holds(w)
     THEN /\ delivery' = [delivery EXCEPT ![d] = Applied(@, res)]
          /\ journal' = [journal EXCEPT ![d][worker[w].claim] =
               IF res = "unknown" THEN "ambiguous" ELSE res]
          /\ Answer(w, IF delivery'[d].status \in {"sent", "retry_scheduled"}
                       THEN "clear" ELSE "bury")
     ELSE Answer(w, "clear") /\ UNCHANGED <<delivery, journal>>
  /\ UNCHANGED <<event, job, dead, outside>>

\* The database refuses or is away before anything is written.
Fails(w) ==
  /\ worker[w].pc \in {"load", "insert", "look", "prefer", "claim", "defer", "apply"}
  /\ Goto(w, "retry")
  /\ UNCHANGED <<tables, job, dead, outside>>

\* handle said 'retry': the job stays in the group until its tries are spent.
Retry(w) == LET d == worker[w].d  s == worker[w].seq IN
  /\ worker[w].pc = "retry"
  /\ job' = [job EXCEPT ![d][s].tries = IF @ < MaxAttempts THEN @ + 1 ELSE @]
  /\ Goto(w, IF job[d][s].tries + 1 < MaxAttempts THEN "idle" ELSE "bury")
  /\ UNCHANGED <<tables, dead, outside>>

Bury(w) ==
  /\ worker[w].pc = "bury"
  /\ dead' = [dead EXCEPT ![worker[w].d][worker[w].seq] = TRUE]
  /\ Goto(w, "clear")
  /\ UNCHANGED <<tables, job, outside>>

ClearRetry(w) ==
  /\ worker[w].pc = "clear"
  /\ job' = [job EXCEPT ![worker[w].d][worker[w].seq].tries = 0]
  /\ Goto(w, "ack")
  /\ UNCHANGED <<tables, dead, outside>>

Ack(w) ==
  /\ worker[w].pc = "ack"
  /\ SetJob(worker[w].d, worker[w].seq, "acked")
  /\ Goto(w, "idle")
  /\ UNCHANGED <<tables, dead, outside>>

\* The process dies, or Redis fails outside handle, which ends the process.
Crash(w) ==
  /\ worker[w].pc # "idle"
  /\ Goto(w, "idle")
  /\ UNCHANGED <<tables, job, dead, outside>>

-----------------------------------------------------------------------------
(* Sweeping, time and the user.                                            *)

Lost(r) == r.status = "sending" /\ r.expired
Waiting(r) == r.status = "retry_scheduled" /\ r.due

\* Fault: rows are made pending and their jobs are lost.
Republish_NoJob(D) ==
  /\ D # {}
  /\ \A d \in D : Waiting(delivery[d]) /\ delivery[d].attempts < MaxAttempts
  /\ delivery' = [d \in Deliveries |->
       IF d \in D THEN [delivery[d] EXCEPT !.status = "pending", !.due = FALSE]
       ELSE delivery[d]]
  /\ UNCHANGED <<event, journal, job, dead, worker, outside>>

\* Fault: lost leases are left to the next claim.
Republish_RetriesOnly(D) ==
  /\ D # {}
  /\ \A d \in D : Waiting(delivery[d]) /\ delivery[d].attempts < MaxAttempts
  /\ delivery' = [d \in Deliveries |->
       IF d \in D THEN [delivery[d] EXCEPT !.status = "pending", !.due = FALSE]
       ELSE delivery[d]]
  /\ job' = [d \in Deliveries |->
       IF d \in D THEN [job[d] EXCEPT ![delivery[d].retry_seq].state = "queued"] ELSE job[d]]
  /\ UNCHANGED <<event, journal, dead, worker, outside>>

\* republishDue, in one transaction: lost leases become ambiguous, spent
\* retries dead, and those in D pending again with a new job; LIMIT and SKIP
\* LOCKED leave some for later.
Republish(D) ==
  /\ \A d \in D : Waiting(delivery[d]) /\ delivery[d].attempts < MaxAttempts
  /\ journal' = [d \in Deliveries |->
       IF Lost(delivery[d]) THEN [journal[d] EXCEPT ![delivery[d].claim_seq] = "ambiguous"]
       ELSE journal[d]]
  /\ delivery' = [d \in Deliveries |->
       LET r == delivery[d] IN
       CASE Lost(r) -> Unleased(r, "ambiguous")
         [] Waiting(r) /\ r.attempts >= MaxAttempts -> [r EXCEPT !.status = "dead_lettered"]
         [] d \in D -> [Unleased(r, "pending") EXCEPT !.due = FALSE]
         [] OTHER -> r]
  /\ job' = [d \in Deliveries |->
       IF d \in D THEN [job[d] EXCEPT ![delivery[d].retry_seq].state = "queued"] ELSE job[d]]
  /\ UNCHANGED <<event, dead, worker, outside>>

LeaseExpires(d) ==
  /\ delivery[d].status = "sending" /\ ~delivery[d].expired
  /\ delivery' = [delivery EXCEPT ![d].expired = TRUE]
  /\ UNCHANGED <<event, journal, job, dead, worker, outside>>

RetryFallsDue(d) ==
  /\ delivery[d].status = "retry_scheduled" /\ ~delivery[d].due
  /\ delivery' = [delivery EXCEPT ![d].due = TRUE]
  /\ UNCHANGED <<event, journal, job, dead, worker, outside>>

\* The user deletes the alert; its event, delivery and attempts go with it.
DeleteAlert(d) ==
  /\ event[d]
  /\ event' = [event EXCEPT ![d] = FALSE]
  /\ delivery' = [delivery EXCEPT ![d] = Unborn(@.channel)]
  /\ journal' = [journal EXCEPT ![d] = [c \in Claims |-> "none"]]
  /\ UNCHANGED <<job, dead, worker, outside>>

NonceForgotten(d) ==
  /\ nonce[d].known /\ nonce[d].forgotten < MaxForgets
  /\ nonce' = [nonce EXCEPT ![d] = [known |-> FALSE, forgotten |-> @.forgotten + 1]]
  /\ UNCHANGED <<tables, job, dead, worker, received>>

WorkerStep(w) ==
  \/ Load(w) \/ Insert(w) \/ Look(w) \/ MarkPreferenceFailure(w) \/ Claim(w)
  \/ Reserve(w) \/ DeferClaim(w) \/ Send(w) \/ ApplyProviderResult(w) \/ Fails(w)
  \/ Retry(w) \/ Bury(w) \/ ClearRetry(w) \/ Ack(w)

Next ==
  \/ \E d \in Deliveries, s \in Seqs : Publish(d, s) \/ GiveUp(d, s)
  \/ \E w \in Workers, d \in Deliveries, s \in Seqs : Read(w, d, s)
  \/ \E w \in Workers : WorkerStep(w) \/ Crash(w)
  \/ \E D \in SUBSET Deliveries : Republish(D)
  \/ \E d \in Deliveries :
       LeaseExpires(d) \/ RetryFallsDue(d) \/ DeleteAlert(d) \/ NonceForgotten(d)

Spec == Init /\ [][Next]_vars

\* What republishDue has to do for a delivery.
Sweep(d) ==
  /\ Lost(delivery[d]) \/ Waiting(delivery[d])
  /\ \E D \in SUBSET Deliveries : (Waiting(delivery[d]) => d \in D) /\ Republish(D)

\* The outbox settles its rows; a worker in handle gets on, since its calls
\* time out, and does not die for ever; every loop of a process sweeps first,
\* and then reads fresh and stale jobs in order; time passes.
FairSpec ==
  /\ Spec
  /\ <>[][\A w \in Workers : ~Crash(w)]_vars
  /\ \A w \in Workers : WF_vars(WorkerStep(w))
  /\ \A d \in Deliveries :
       /\ WF_vars(LeaseExpires(d)) /\ WF_vars(RetryFallsDue(d)) /\ WF_vars(Sweep(d))
       /\ \A s \in Seqs :
            /\ WF_vars(job[d][s].state = "queued" /\ (Publish(d, s) \/ GiveUp(d, s)))
            /\ SF_vars(\E w \in Workers : Read(w, d, s))

-----------------------------------------------------------------------------
\* Every variable has its type, and a row is leased exactly while it is
\* sending (notification_lease_check).
TypeOK ==
  /\ event \in [Deliveries -> BOOLEAN]
  /\ delivery \in [Deliveries -> DeliveryRows]
  /\ journal \in [Deliveries -> [Claims -> Attempts]]
  /\ job \in [Deliveries -> [Seqs -> Jobs]]
  /\ dead \in [Deliveries -> [Seqs -> BOOLEAN]]
  /\ worker \in [Workers -> [pc : Steps, d : Deliveries, seq : Seqs,
                             claim : {0} \cup Claims, result : Results]]
  /\ received \in [Deliveries -> Nat]
  /\ nonce \in [Deliveries -> [known : BOOLEAN, forgotten : 0..MaxForgets]]

\* A recipient gets a notification once, whatever is redelivered, lost or late:
\* on Telegram always, on Discord while it remembers the nonce.
AtMostOnce ==
  \A d \in Deliveries :
    received[d] <= IF delivery[d].channel = "telegram" THEN 1 ELSE 1 + nonce[d].forgotten

\* What is said of a delivery is true of the recipient: sent means received,
\* and a message a Telegram user got is never shown as failed, nor waiting to
\* be sent.
StatusIsTrue ==
  \A d \in Deliveries : event[d] =>
    /\ delivery[d].status = "sent" => received[d] >= 1
    /\ delivery[d].channel = "telegram" /\ received[d] >= 1
         => delivery[d].status \in {"sending", "sent", "ambiguous"}

\* The job a delivery waits for is in the outbox, on the stream, or recorded
\* as given up; it is never just gone, whoever acknowledged what meanwhile.
JobsAccountedFor ==
  \A d \in Deliveries : event[d] /\ delivery[d].status \in {"none", "pending"} =>
    LET s == delivery[d].retry_seq IN
    job[d][s].state \in {"queued", "stream", "failed"} \/ dead[d][s]

\* What is said of a delivery is true, and the job it waits for is somewhere.
DeliveryIsTrue == TypeOK /\ StatusIsTrue /\ JobsAccountedFor

\* The counter of a delivery and the journal of its attempts agree: deferrals
\* do not count, and the one claim under way is the last one of a row that is
\* sending.
AttemptsMatchJournal ==
  \A d \in Deliveries : LET j == journal[d]  r == delivery[d] IN
    /\ r.attempts = Cardinality({c \in Claims : j[c] \notin {"none", "deferred"}})
    /\ \A c \in Claims : j[c] = "claimed" <=> r.status = "sending" /\ r.claim_seq = c

\* A final status is final, for late answers, sweeps and redelivered jobs
\* alike; only the user can delete the delivery.
FinalStays ==
  [][\A d \in Deliveries :
       delivery[d].status \in Final /\ event'[d] => delivery'[d].status = delivery[d].status]_vars

\* A delivery is given up as dead only after as many refusals as it has
\* attempts: rate limits and lost jobs cost none.
GivenUpWhenSpent ==
  \A d \in Deliveries : delivery[d].status = "dead_lettered" =>
    Cardinality({c \in Claims : journal[d][c] = "retryable"}) = MaxAttempts

\* Attempts are what the journal says, and a delivery ends only when they are spent.
AttemptsAreTrue == AttemptsMatchJournal /\ GivenUpWhenSpent

\* The job the delivery waits for was given up, and an operator can see it.
Stranded(d) == LET s == delivery[d].retry_seq IN
  /\ delivery[d].status \in {"none", "pending"}
  /\ job[d][s].state = "failed" \/ dead[d][s]

\* Every delivery comes to an end, through lost leases and retries, unless its
\* job was given up or the alert deleted.
DeliveryEnds ==
  \A d \in Deliveries : <>(delivery[d].status \in Final \/ Stranded(d) \/ ~event[d])
=============================================================================

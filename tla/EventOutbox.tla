---------------------------- MODULE EventOutbox ----------------------------
(***************************************************************************)
(* The transactional outbox: a service writes an event beside its own      *)
(* change, in the same transaction; publisher processes claim due rows     *)
(* under a lease, append them to a Redis stream behind a deduplication     *)
(* marker, and then mark the row.  Between the append and the mark a       *)
(* process may die, lose a reply or outlive its lease.                     *)
(*                                                                         *)
(* A publisher names itself with a fresh UUID when it starts and keeps no  *)
(* task when it dies, so the name of its place in the pool stands for it.  *)
(* Backoff is left out: a pending row may be due at any time.  Batches are *)
(* any set of due rows, since SKIP LOCKED and the limit leave rows out.    *)
(***************************************************************************)
EXTENDS Integers

CONSTANTS
  Keys,         \* event keys (a stream and a key in it)
  Publishers,   \* outbox-worker processes
  MaxAttempts,  \* OUTBOX_MAX_ATTEMPTS
  MaxForgets,   \* bound: how often the marker of a key may expire
  Nobody        \* locked_by IS NULL

ASSUME OutboxAssumption ==
  /\ MaxAttempts \in Nat \ {0}
  /\ MaxForgets \in Nat
  /\ Nobody \notin Publishers

VARIABLES
  row,      \* event_outbox
  seen,     \* stream:seen:<stream>:<key> exists in Redis
  entries,  \* how often the event was appended to its stream
  task,     \* what each publisher is doing for the rows of its batch
  forgets   \* history: how often the marker has expired

vars == <<row, seen, entries, task, forgets>>

Rows == [status : {"absent", "pending", "publishing", "published", "failed"},
         attempts : 0..MaxAttempts,
         locked_by : Publishers \cup {Nobody},
         expired : BOOLEAN]    \* lease_until <= NOW()

\* at: where the callback of flushDue stands; attempts: as returned by claim.
Tasks == [at : {"none", "publish", "mark", "fail"}, attempts : 0..MaxAttempts]

Absent == [status |-> "absent", attempts |-> 0, locked_by |-> Nobody, expired |-> FALSE]
Idle == [at |-> "none", attempts |-> 0]

Init ==
  /\ row = [k \in Keys |-> Absent]
  /\ seen = [k \in Keys |-> FALSE]
  /\ entries = [k \in Keys |-> 0]
  /\ task = [p \in Publishers |-> [k \in Keys |-> Idle]]
  /\ forgets = [k \in Keys |-> 0]

-----------------------------------------------------------------------------
\* A service inserts the event with its own change.  A second enqueue of the
\* same event finds the row and changes nothing; one with another payload
\* fails and rolls its caller back.
Enqueue(k) ==
  /\ row[k].status = "absent"
  /\ row' = [row EXCEPT ![k] = [Absent EXCEPT !.status = "pending"]]
  /\ UNCHANGED <<seen, entries, task, forgets>>

\* Fault: a row is claimed only once it was given back.
Due_PendingOnly(k) == row[k].status = "pending" /\ row[k].attempts < MaxAttempts

\* Fault: the cap on attempts is not looked at.
Due_Uncapped(k) ==
  \/ row[k].status = "pending"
  \/ row[k].status = "publishing" /\ row[k].expired

Due(k) ==
  /\ row[k].attempts < MaxAttempts
  /\ \/ row[k].status = "pending"
     \/ row[k].status = "publishing" /\ row[k].expired

Claimed(r, p) ==
  [status |-> "publishing", attempts |-> r.attempts + 1, locked_by |-> p, expired |-> FALSE]

\* flushDue takes the next batch when the last one is done.
Claim(p, K) ==
  /\ K # {}
  /\ \A k \in Keys : task[p][k].at = "none"
  /\ \A k \in K : Due(k)
  /\ row' = [k \in Keys |-> IF k \in K THEN Claimed(row[k], p) ELSE row[k]]
  /\ task' = [task EXCEPT ![p] = [k \in Keys |->
       IF k \in K THEN [at |-> "publish", attempts |-> row[k].attempts + 1] ELSE @[k]]]
  /\ UNCHANGED <<seen, entries, forgets>>

Goto(p, k, at) == task' = [task EXCEPT ![p][k] = [@ EXCEPT !.at = at]]
Done(p, k) == task' = [task EXCEPT ![p][k] = Idle]

\* Fault: the marker is set but not looked at.
Append_Always(k) ==
  /\ seen' = [seen EXCEPT ![k] = TRUE]
  /\ entries' = [entries EXCEPT ![k] = @ + 1]

\* The script of publishOnce, in one go.
Append(k) ==
  /\ seen' = [seen EXCEPT ![k] = TRUE]
  /\ entries' = [entries EXCEPT ![k] = IF seen[k] THEN @ ELSE @ + 1]

Publish(p, k) ==
  /\ task[p][k].at = "publish"
  /\ Append(k)
  /\ Goto(p, k, "mark")
  /\ UNCHANGED <<row, forgets>>

\* Redis is not reached, or its answer is lost after the script ran.
PublishErrs(p, k) ==
  /\ task[p][k].at = "publish"
  /\ Append(k) \/ UNCHANGED <<seen, entries>>
  /\ Goto(p, k, "fail")
  /\ UNCHANGED <<row, forgets>>

\* The UPDATE of markPublished, which names the holder.
SetPublished(p, k) ==
  row' = [row EXCEPT ![k] =
    IF @.locked_by = p
    THEN [@ EXCEPT !.status = "published", !.locked_by = Nobody, !.expired = FALSE]
    ELSE @]

MarkPublished(p, k) ==
  /\ task[p][k].at = "mark"
  /\ SetPublished(p, k)
  /\ Done(p, k)
  /\ UNCHANGED <<seen, entries, forgets>>

\* The database fails before or after it commits; the catch block then marks
\* the row failed.
MarkErrs(p, k) ==
  /\ task[p][k].at = "mark"
  /\ SetPublished(p, k) \/ UNCHANGED row
  /\ Goto(p, k, "fail")
  /\ UNCHANGED <<seen, entries, forgets>>

\* Fault: markFailed does not name the holder.
SetFailed_Anyone(p, k) ==
  row' = [row EXCEPT ![k] =
    [@ EXCEPT !.status = IF task[p][k].attempts >= MaxAttempts THEN "failed" ELSE "pending",
              !.locked_by = Nobody, !.expired = FALSE]]

\* Fault: a failure gives the row back whatever its attempts.
SetFailed_Again(p, k) ==
  row' = [row EXCEPT ![k] =
    IF @.locked_by = p
    THEN [@ EXCEPT !.status = "pending", !.locked_by = Nobody, !.expired = FALSE]
    ELSE @]

\* Fault: a row whose publication failed is marked as if it had not.
SetFailed_Published(p, k) ==
  row' = [row EXCEPT ![k] =
    IF @.locked_by = p
    THEN [@ EXCEPT !.status = "published", !.locked_by = Nobody, !.expired = FALSE]
    ELSE @]

\* The UPDATE of markFailed, with the attempts the claim returned.
SetFailed(p, k) ==
  row' = [row EXCEPT ![k] =
    IF @.locked_by = p
    THEN [@ EXCEPT !.status = IF task[p][k].attempts >= MaxAttempts THEN "failed" ELSE "pending",
                   !.locked_by = Nobody, !.expired = FALSE]
    ELSE @]

MarkFailed(p, k) ==
  /\ task[p][k].at = "fail"
  /\ SetFailed(p, k)
  /\ Done(p, k)
  /\ UNCHANGED <<seen, entries, forgets>>

\* An error in markFailed leaves flushDue; the process goes on with the other
\* rows of the batch until it exits, and is started again.
MarkFailedErrs(p, k) ==
  /\ task[p][k].at = "fail"
  /\ Done(p, k)
  /\ UNCHANGED <<row, seen, entries, forgets>>

Crash(p) ==
  /\ \E k \in Keys : task[p][k].at # "none"
  /\ task' = [task EXCEPT ![p] = [k \in Keys |-> Idle]]
  /\ UNCHANGED <<row, seen, entries, forgets>>

LeaseExpires(k) ==
  /\ row[k].status = "publishing" /\ ~row[k].expired
  /\ row' = [row EXCEPT ![k].expired = TRUE]
  /\ UNCHANGED <<seen, entries, task, forgets>>

\* Published rows go after seven days.
Prune(k) ==
  /\ row[k].status = "published"
  /\ row' = [row EXCEPT ![k] = Absent]
  /\ UNCHANGED <<seen, entries, task, forgets>>

\* The marker has a time to live (OUTBOX_DEDUP_TTL_SEC).
Forget(k) ==
  /\ seen[k] /\ forgets[k] < MaxForgets
  /\ seen' = [seen EXCEPT ![k] = FALSE]
  /\ forgets' = [forgets EXCEPT ![k] = @ + 1]
  /\ UNCHANGED <<row, entries, task>>

TaskStep(p, k) ==
  \/ Publish(p, k) \/ PublishErrs(p, k)
  \/ MarkPublished(p, k) \/ MarkErrs(p, k)
  \/ MarkFailed(p, k) \/ MarkFailedErrs(p, k)

Next ==
  \/ \E k \in Keys : Enqueue(k) \/ LeaseExpires(k) \/ Prune(k) \/ Forget(k)
  \/ \E p \in Publishers : Crash(p)
  \/ \E p \in Publishers, K \in SUBSET Keys : Claim(p, K)
  \/ \E p \in Publishers, k \in Keys : TaskStep(p, k)

Spec == Init /\ [][Next]_vars

\* Leases run out, a claimed row's callback returns or its process dies, and a
\* publisher polls for ever, taking the oldest due rows first: a row that stays
\* due is in some batch.
FairSpec ==
  /\ Spec
  /\ \A k \in Keys :
       /\ WF_vars(LeaseExpires(k))
       /\ SF_vars(\E p \in Publishers, K \in SUBSET Keys : k \in K /\ Claim(p, K))
       /\ \A p \in Publishers : WF_vars(TaskStep(p, k))

-----------------------------------------------------------------------------
\* Every variable has its type.
TypeOK ==
  /\ row \in [Keys -> Rows]
  /\ seen \in [Keys -> BOOLEAN]
  /\ entries \in [Keys -> Nat]
  /\ task \in [Publishers -> [Keys -> Tasks]]
  /\ forgets \in [Keys -> 0..MaxForgets]

\* A row that says published is on its stream, whoever said so and however
\* many claims, lost replies and deaths came before: what prune deletes was
\* delivered.
PublishedIsOnStream == \A k \in Keys : row[k].status = "published" => entries[k] >= 1

\* However often an event is claimed and published again, its readers see it
\* once for each life of the marker.
OncePerMarker == \A k \in Keys : entries[k] <= 1 + forgets[k]

\* A row that waits has attempts left, and only a row without any has failed:
\* a holder that lost its row cannot put it back or give it up with the count
\* it once read.
ExhaustedIsFailed ==
  \A k \in Keys :
    /\ row[k].status = "pending" => row[k].attempts < MaxAttempts
    /\ row[k].status = "failed" => row[k].attempts = MaxAttempts

\* What the rows of the outbox say of the stream is so, and no event is there twice
\* or given up early.
StreamIsTrue == PublishedIsOnStream /\ OncePerMarker /\ ExhaustedIsFailed

\* A published row is never taken back, though its holder may go on to mark it
\* failed when the answer to markPublished was lost.
PublishedStays ==
  [][\A k \in Keys : row[k].status = "published" => row'[k].status \in {"published", "absent"}]_vars

Settled(k) == row[k].status \in {"published", "failed"}
Spent(k) == row[k].attempts = MaxAttempts

\* An event that was enqueued is published, or failed, or out of attempts: no
\* death or lost lease leaves a row behind that still has attempts.  (A row
\* whose last holder dies stays publishing: nothing claims or fails it.)
EventsSettle == \A k \in Keys : row[k].status = "pending" ~> Settled(k) \/ Spent(k)
=============================================================================

---------------------- MODULE NotificationDeliveryProofs ----------------------
(***************************************************************************)
(* Proofs about NotificationDelivery, for any number of deliveries and     *)
(* workers and any limits.                                                 *)
(***************************************************************************)
EXTENDS NotificationDelivery, FiniteSetTheorems, TLAPS

\* A worker that has a claim: it may send, or has sent.
Busy(w) == worker[w].pc \in {"reserve", "defer", "send", "apply"}

\* The claims of a delivery that count as attempts.
Counted(d) == {c \in Claims : journal[d][c] \notin {"none", "deferred"}}

\* Sequence numbers follow the status: each claim ends with a retry, a
\* deferral, or for ever.
SeqInv(d) == LET r == delivery[d] IN
  /\ ~event[d] => r.status = "none"
  /\ r.status \in {"none", "pending", "retry_scheduled"} =>
       r.claim_seq = r.retry_seq /\ r.retry_seq <= r.attempts + MaxDefers
  /\ r.status = "sending" =>
       /\ r.claim_seq = r.retry_seq + 1
       /\ r.attempts >= 1 /\ r.retry_seq < r.attempts + MaxDefers

\* The journal has the last claim under way and nothing after it; before a
\* last word every claim was refused or deferred.
JournalInv(d) == LET r == delivery[d]  j == journal[d] IN
  /\ Cardinality(Counted(d)) = r.attempts
  /\ \A c \in Claims : c > r.claim_seq => j[c] = "none"
  /\ \A c \in Claims : j[c] = "claimed" <=> r.status = "sending" /\ r.claim_seq = c
  /\ r.status \in {"none", "pending", "retry_scheduled", "sending", "dead_lettered"} =>
       \A c \in Claims : j[c] \in {"none", "deferred", "retryable", "claimed"}
  /\ r.status = "dead_lettered" => r.attempts = MaxAttempts

\* What the recipient has, and what is said of it.
ReceiptInv(d) ==
  /\ delivery[d].channel = "telegram" => received[d] <= 1
  /\ delivery[d].channel = "discord" =>
       received[d] <= nonce[d].forgotten + (IF nonce[d].known THEN 1 ELSE 0)
  /\ nonce[d].known => received[d] >= 1
  /\ event[d] /\ delivery[d].status = "sent" => received[d] >= 1
  /\ event[d] /\ delivery[d].channel = "telegram" /\ received[d] >= 1 =>
       delivery[d].status \in {"sending", "sent", "ambiguous"}

\* Jobs are made in order, the one of a retry only when it is republished.
JobInv(d) == event[d] =>
  /\ \A s \in Seqs : job[d][s].state # "none" =>
       /\ s <= delivery[d].retry_seq
       /\ delivery[d].status = "retry_scheduled" => s < delivery[d].retry_seq
  /\ delivery[d].status \in {"none", "pending"} =>
       LET s == delivery[d].retry_seq IN
       job[d][s].state \in {"queued", "stream", "failed"} \/ dead[d][s]

RowInv(d) == SeqInv(d) /\ JournalInv(d) /\ ReceiptInv(d) /\ JobInv(d)

\* A worker with a claim is the one its row is leased to, or the row is
\* ambiguous; one that is done with its job leaves nothing waiting for it.
WorkerInv(w) == LET d == worker[w].d  r == delivery[d] IN
  /\ worker[w].pc # "idle" => job[d][worker[w].seq].state # "none"
  /\ event[d] /\ worker[w].pc \in {"prefer", "claim"} => r.status # "none"
  /\ Busy(w) => worker[w].claim \in Claims
  /\ event[d] /\ Busy(w) => r.status \in {"sending", "ambiguous"} /\ r.claim_seq = worker[w].claim
  /\ worker[w].pc = "defer" /\ r.status = "sending" => Defers(r) < MaxDefers
  /\ r.channel = "telegram" /\ received[d] >= 1 /\ Busy(w) =>
       worker[w].pc = "apply" /\ worker[w].result \in {"accepted", "unknown"}
  /\ worker[w].pc = "apply" =>
       worker[w].result # "none" /\ (worker[w].result = "accepted" => received[d] >= 1)
  /\ worker[w].pc \in {"clear", "ack"} /\ event[d] /\ worker[w].seq = r.retry_seq =>
       r.status \notin {"none", "pending"} \/ dead[d][worker[w].seq]

\* No two workers have claims of one delivery.
OneBusy == \A v, w \in Workers : Busy(v) /\ Busy(w) /\ worker[v].d = worker[w].d => v = w

Inv ==
  /\ TypeOK
  /\ \A d \in Deliveries : RowInv(d)
  /\ \A w \in Workers : WorkerInv(w)
  /\ OneBusy

-----------------------------------------------------------------------------
(* Lemmas.                                                                 *)

\* Where a worker goes, and what it takes along.
LEMMA Moved ==
  ASSUME TypeOK, NEW w \in Workers, NEW pc \in Steps, Goto(w, pc)
  PROVE  /\ worker' \in [Workers -> [pc : Steps, d : Deliveries, seq : Seqs,
                                     claim : {0} \cup Claims, result : Results]]
         /\ \A v \in Workers : v # w => worker'[v] = worker[v]
         /\ worker'[w].d = worker[w].d /\ worker'[w].pc = pc
         /\ pc # "idle" => worker'[w].seq = worker[w].seq
         /\ pc \in {"send", "defer"} => worker'[w].claim = worker[w].claim
<1>1. /\ worker[w] \in [pc : Steps, d : Deliveries, seq : Seqs,
                        claim : {0} \cup Claims, result : Results]
      /\ 0 \in Seqs
  BY DeliveryAssumption DEF TypeOK, Seqs
<1> DEFINE new == IF pc \in {"send", "defer"} THEN [worker[w] EXCEPT !.pc = pc]
                  ELSE [Idle(worker[w].d) EXCEPT !.pc = pc,
                                                 !.seq = IF pc = "idle" THEN 0 ELSE worker[w].seq]
<1>2. worker' = [worker EXCEPT ![w] = new]
  BY DEF Goto
<1>3. CASE pc \in {"send", "defer"}
  <2>1. new = [worker[w] EXCEPT !.pc = pc]
    BY <1>3
  <2>2. /\ new \in [pc : Steps, d : Deliveries, seq : Seqs,
                    claim : {0} \cup Claims, result : Results]
        /\ new.d = worker[w].d /\ new.pc = pc /\ new.seq = worker[w].seq
        /\ new.claim = worker[w].claim
    BY <1>1, <2>1
  <2> QED BY <1>2, <2>2 DEF TypeOK
<1>4. CASE pc \notin {"send", "defer"}
  <2>1. new = [Idle(worker[w].d) EXCEPT !.pc = pc,
                                        !.seq = IF pc = "idle" THEN 0 ELSE worker[w].seq]
    BY <1>4
  <2>2. /\ new \in [pc : Steps, d : Deliveries, seq : Seqs,
                    claim : {0} \cup Claims, result : Results]
        /\ new.d = worker[w].d /\ new.pc = pc /\ (pc # "idle" => new.seq = worker[w].seq)
    BY <1>1, <2>1 DEF Idle, Results
  <2> QED BY <1>2, <1>4, <2>2 DEF TypeOK
<1> QED BY <1>3, <1>4

\* A worker that does not move keeps its part of the invariant as long as its
\* delivery changes only as others may change it.
Steady(w) == LET d == worker[w].d  s == worker[w].seq  r == delivery[d]  n == delivery'[d] IN
  /\ event'[d] => event[d]
  /\ job[d][s].state # "none" => job'[d][s].state # "none"
  /\ n.channel = r.channel
  /\ event'[d] /\ r.status # "none" => n.status # "none"
  /\ event'[d] /\ Busy(w) /\ r.status \in {"sending", "ambiguous"} =>
       n.status \in {"sending", "ambiguous"} /\ n.claim_seq = r.claim_seq
  /\ Busy(w) /\ n.status = "sending" =>
       r.status = "sending" /\ n.attempts = r.attempts /\ n.retry_seq = r.retry_seq
  /\ received'[d] >= received[d]
  /\ Busy(w) => received'[d] = received[d]
  /\ dead[d][s] => dead'[d][s]
  /\ worker[w].pc \in {"clear", "ack"} /\ event'[d] /\ s = n.retry_seq
       /\ n.status \in {"none", "pending"} =>
       (s = r.retry_seq /\ r.status \in {"none", "pending"}) \/ dead'[d][s]

\* A worker that rests, when its row and its job are as it needs them.
LEMMA SteadyKeeps ==
  ASSUME TypeOK, TypeOK', NEW w \in Workers, WorkerInv(w), worker'[w] = worker[w], Steady(w)
  PROVE  WorkerInv(w)'
BY DEF TypeOK, WorkerInv, Steady, Busy, Defers

\* With the rows as they are, a worker that does not move keeps its part.
LEMMA SteadyStill ==
  ASSUME TypeOK, NEW w \in Workers, UNCHANGED <<tables, job, dead, outside>>
  PROVE  Steady(w)
BY DEF TypeOK, Steady, tables, outside

\* Nor do jobs that move disturb it.
LEMMA SteadyJobs ==
  ASSUME TypeOK, NEW w \in Workers, UNCHANGED <<tables, dead, outside>>,
         \A d \in Deliveries, s \in Seqs : job[d][s].state # "none" => job'[d][s].state # "none"
  PROVE  Steady(w)
<1>1. /\ worker[w].d \in Deliveries /\ worker[w].seq \in Seqs
      /\ received[worker[w].d] \in Nat
  BY DEF TypeOK
<1>2. event' = event /\ delivery' = delivery /\ received' = received /\ dead' = dead
  BY DEF tables, outside
<1> QED BY <1>1, <1>2 DEF Steady

\* A row of which nothing changes keeps its part.
LEMMA RowStill ==
  ASSUME NEW d \in Deliveries, RowInv(d), event'[d] = event[d], delivery'[d] = delivery[d],
         journal'[d] = journal[d], received'[d] = received[d], nonce'[d] = nonce[d],
         job'[d] = job[d], dead'[d] = dead[d]
  PROVE  RowInv(d)'
BY DEF RowInv, SeqInv, JournalInv, Counted, ReceiptInv, JobInv

\* Only the mover may become busy, and only from a claim.
LEMMA BusyStays ==
  ASSUME OneBusy, NEW w \in Workers, \A v \in Workers : v # w => worker'[v] = worker[v],
         Busy(w)' => Busy(w) /\ worker'[w].d = worker[w].d
  PROVE  OneBusy'
BY DEF OneBusy, Busy

\* A row of which only jobs move, or get buried, keeps its part.
LEMMA RowJobs ==
  ASSUME TypeOK, NEW d \in Deliveries, RowInv(d), event'[d] = event[d],
         delivery'[d] = delivery[d], journal'[d] = journal[d],
         received'[d] = received[d], nonce'[d] = nonce[d],
         \A s \in Seqs : job'[d][s].state = job[d][s].state,
         \A s \in Seqs : dead[d][s] => dead'[d][s]
  PROVE  RowInv(d)'
<1>1. SeqInv(d)' /\ ReceiptInv(d)'
  BY DEF RowInv, SeqInv, ReceiptInv
<1>2. JournalInv(d)'
  BY DEF RowInv, JournalInv, Counted
<1>3. delivery[d].retry_seq \in Seqs
  BY DEF TypeOK, DeliveryRows
<1>4. JobInv(d)'
  BY <1>3 DEF RowInv, JobInv
<1> QED BY <1>1, <1>2, <1>4 DEF RowInv

\* The steps of a worker that leave the tables and the recipient alone.
LEMMA Walk ==
  ASSUME Inv, TypeOK', NEW w \in Workers, NEW pc \in Steps \ {"reserve", "apply"}, Goto(w, pc),
         UNCHANGED <<tables, outside>>,
         \A d \in Deliveries, s \in Seqs : job'[d][s].state = job[d][s].state,
         \A d \in Deliveries, s \in Seqs : dead[d][s] => dead'[d][s],
         pc # "idle" => worker[w].pc # "idle",
         pc \in {"send", "defer"} => worker[w].pc = "reserve",
         pc = "defer" => Defers(delivery[worker[w].d]) < MaxDefers,
         pc \in {"prefer", "claim"} /\ event[worker[w].d] => delivery[worker[w].d].status # "none",
         pc \in {"clear", "ack"} /\ event[worker[w].d]
             /\ worker[w].seq = delivery[worker[w].d].retry_seq =>
           \/ delivery[worker[w].d].status \notin {"none", "pending"}
           \/ dead'[worker[w].d][worker[w].seq]
  PROVE  (\A d \in Deliveries : RowInv(d)') /\ (\A v \in Workers : WorkerInv(v)') /\ OneBusy'
<1>1. /\ \A v \in Workers : v # w => worker'[v] = worker[v]
      /\ worker'[w].d = worker[w].d /\ worker'[w].pc = pc
      /\ pc # "idle" => worker'[w].seq = worker[w].seq
      /\ pc \in {"send", "defer"} => worker'[w].claim = worker[w].claim
  BY Moved DEF Inv
<1>2. ASSUME NEW d \in Deliveries PROVE RowInv(d)'
  BY <1>2, RowJobs DEF Inv, tables, outside
<1>3. ASSUME NEW v \in Workers, v # w PROVE WorkerInv(v)'
  <2>1. worker[v].d \in Deliveries /\ worker[v].seq \in Seqs
    BY DEF Inv, TypeOK
  <2>2. Steady(v)
    BY <2>1 DEF Inv, TypeOK, Steady, tables, outside
  <2> QED BY <1>1, <1>3, <2>2, SteadyKeeps DEF Inv
<1>4. WorkerInv(w)'
  <2>1. WorkerInv(w) /\ worker[w].d \in Deliveries /\ worker[w].seq \in Seqs
    BY DEF Inv, TypeOK
  <2> QED BY <1>1, <2>1 DEF WorkerInv, Busy, tables, outside, Steps, Defers
<1>5. OneBusy'
  <2>1. Busy(w)' => Busy(w)
    BY <1>1 DEF Busy
  <2> QED BY <1>1, <2>1, BusyStays DEF Inv
<1> QED BY <1>2, <1>3, <1>4, <1>5

-----------------------------------------------------------------------------
(* Type correctness.                                                       *)

\* The fields of a row, without the rule for its lease.
Fields ==
  [channel : Channels, status : Statuses, attempts : 0 .. MaxAttempts,
   claim_seq : {0} \cup Claims, retry_seq : Seqs, leased : BOOLEAN,
   due : BOOLEAN, expired : BOOLEAN]

\* What the types say of a row.
LEMMA RowTyped ==
  ASSUME TypeOK, NEW d \in Deliveries
  PROVE  /\ delivery[d] \in DeliveryRows /\ delivery[d] \in Fields
         /\ delivery[d].channel \in Channels /\ delivery[d].status \in Statuses
         /\ delivery[d].attempts \in 0 .. MaxAttempts
         /\ delivery[d].claim_seq \in {0} \cup Claims
         /\ delivery[d].retry_seq \in Seqs
         /\ delivery[d].leased \in BOOLEAN /\ delivery[d].due \in BOOLEAN
         /\ delivery[d].expired \in BOOLEAN
         /\ delivery[d].leased <=> delivery[d].status = "sending"
BY DEF TypeOK, DeliveryRows, Fields

\* What is a row, told by its fields.
LEMMA FieldsAreRow ==
  ASSUME NEW r \in Fields, r.leased <=> r.status = "sending"
  PROVE  r \in DeliveryRows
BY DEF Fields, DeliveryRows

\* A row whose lease is taken off it.
LEMMA UnleasedIs ==
  ASSUME NEW r \in Fields, NEW status \in Statuses
  PROVE  /\ Unleased(r, status) \in Fields
         /\ Unleased(r, status).status = status /\ ~Unleased(r, status).leased
         /\ Unleased(r, status).channel = r.channel
         /\ Unleased(r, status).attempts = r.attempts
         /\ Unleased(r, status).claim_seq = r.claim_seq
         /\ Unleased(r, status).retry_seq = r.retry_seq
BY DEF Unleased, Fields

\* A row that is claimed.
Claimed(r) == [r EXCEPT !.status = "sending", !.attempts = @ + 1, !.claim_seq = r.claim_seq + 1,
                        !.leased = TRUE, !.expired = FALSE, !.due = FALSE]
\* The fields of a row that was claimed.
LEMMA ClaimedIs ==
  ASSUME NEW r \in Fields, r.attempts + 1 \in 0 .. MaxAttempts, r.claim_seq + 1 \in Claims
  PROVE  /\ Claimed(r) \in Fields
         /\ Claimed(r).status = "sending" /\ Claimed(r).leased
         /\ Claimed(r).channel = r.channel
         /\ Claimed(r).attempts = r.attempts + 1
         /\ Claimed(r).claim_seq = r.claim_seq + 1
         /\ Claimed(r).retry_seq = r.retry_seq
BY DEF Claimed, Fields, Statuses

\* A row whose attempt was refused, and one whose attempt was deferred.
LEMMA RetriedIs ==
  ASSUME NEW r \in Fields, r.retry_seq + 1 \in Seqs
  PROVE  LET n == [r EXCEPT !.retry_seq = @ + 1] IN
         /\ n \in Fields /\ n.status = r.status /\ n.leased = r.leased
         /\ n.channel = r.channel /\ n.attempts = r.attempts
         /\ n.claim_seq = r.claim_seq /\ n.retry_seq = r.retry_seq + 1
BY DEF Fields
\* The fields of a row whose claim was deferred.
LEMMA DeferredIs ==
  ASSUME NEW r \in Fields, r.retry_seq + 1 \in Seqs, r.attempts - 1 \in 0 .. MaxAttempts
  PROVE  LET n == [r EXCEPT !.attempts = @ - 1, !.retry_seq = @ + 1] IN
         /\ n \in Fields /\ n.status = r.status /\ n.leased = r.leased
         /\ n.channel = r.channel /\ n.attempts = r.attempts - 1
         /\ n.claim_seq = r.claim_seq /\ n.retry_seq = r.retry_seq + 1
BY DEF Fields

\* The status an answer leads to, and what goes with it.
After(r, result) ==
  IF result = "accepted" THEN "sent" ELSE IF result = "unknown" THEN "ambiguous"
  ELSE IF result = "permanent" THEN "failed"
  ELSE IF r.attempts >= MaxAttempts THEN "dead_lettered" ELSE "retry_scheduled"
Refused(result) == result \notin {"accepted", "unknown", "permanent"}
\* The fields of a row to which an answer was applied.
LEMMA AppliedIs ==
  ASSUME NEW r \in Fields, NEW result, r.retry_seq + 1 \in Seqs
  PROVE  LET n == Applied(r, result) IN
         /\ n \in Fields /\ n.status = After(r, result) /\ ~n.leased
         /\ n.channel = r.channel /\ n.attempts = r.attempts /\ n.claim_seq = r.claim_seq
         /\ n.retry_seq = IF Refused(result) THEN r.retry_seq + 1 ELSE r.retry_seq
<1> DEFINE u == Unleased(r, After(r, result))
<1>1. /\ After(r, result) \in Statuses
      /\ After(r, result) # "sending"
  BY DEF After, Statuses, Final
<1>2. /\ u \in Fields /\ u.status = After(r, result) /\ ~u.leased
      /\ u.channel = r.channel /\ u.attempts = r.attempts
      /\ u.claim_seq = r.claim_seq /\ u.retry_seq = r.retry_seq
  BY <1>1, UnleasedIs
<1>3. Applied(r, result) = IF Refused(result) THEN [u EXCEPT !.retry_seq = @ + 1] ELSE u
  <2>1. CASE result = "accepted" BY <2>1 DEF Applied, After, Refused
  <2>2. CASE result = "unknown" BY <2>2 DEF Applied, After, Refused
  <2>3. CASE result = "permanent" BY <2>3 DEF Applied, After, Refused
  <2>4. CASE Refused(result) BY <2>4 DEF Applied, After, Refused
  <2> QED BY <2>1, <2>2, <2>3, <2>4 DEF Refused
<1>4. CASE Refused(result)
  <2> HIDE DEF u
  <2> QED BY <1>2, <1>3, <1>4, RetriedIs
<1>5. CASE ~Refused(result)
  BY <1>2, <1>3, <1>5
<1> QED BY <1>4, <1>5

-----------------------------------------------------------------------------
(* The steps of a worker that leave the tables alone.                      *)

\* Walk, with the types.
LEMMA WalkKeeps ==
  ASSUME Inv, NEW w \in Workers, NEW pc \in Steps \ {"reserve", "apply"}, Goto(w, pc),
         UNCHANGED <<tables, outside>>,
         job' \in [Deliveries -> [Seqs -> Jobs]], dead' \in [Deliveries -> [Seqs -> BOOLEAN]],
         \A d \in Deliveries, s \in Seqs : job'[d][s].state = job[d][s].state,
         \A d \in Deliveries, s \in Seqs : dead[d][s] => dead'[d][s],
         pc # "idle" => worker[w].pc # "idle",
         pc \in {"send", "defer"} => worker[w].pc = "reserve",
         pc = "defer" => Defers(delivery[worker[w].d]) < MaxDefers,
         pc \in {"prefer", "claim"} /\ event[worker[w].d] => delivery[worker[w].d].status # "none",
         pc \in {"clear", "ack"} /\ event[worker[w].d]
             /\ worker[w].seq = delivery[worker[w].d].retry_seq =>
           \/ delivery[worker[w].d].status \notin {"none", "pending"}
           \/ dead'[worker[w].d][worker[w].seq]
  PROVE  Inv'
<1>1. TypeOK'
  <2>1. worker' \in [Workers -> [pc : Steps, d : Deliveries, seq : Seqs,
                                 claim : {0} \cup Claims, result : Results]]
    BY Moved DEF Inv
  <2> QED BY <2>1 DEF Inv, TypeOK, tables, outside
<1> QED BY <1>1, Walk DEF Inv

\* Nothing but the worker moves.
LEMMA WalkOnly ==
  ASSUME Inv, NEW w \in Workers, NEW pc \in Steps \ {"reserve", "apply"}, Goto(w, pc),
         UNCHANGED <<tables, job, dead, outside>>,
         pc # "idle" => worker[w].pc # "idle",
         pc \in {"send", "defer"} => worker[w].pc = "reserve",
         pc = "defer" => Defers(delivery[worker[w].d]) < MaxDefers,
         pc \in {"prefer", "claim"} /\ event[worker[w].d] => delivery[worker[w].d].status # "none",
         pc \in {"clear", "ack"} /\ event[worker[w].d]
             /\ worker[w].seq = delivery[worker[w].d].retry_seq =>
           \/ delivery[worker[w].d].status \notin {"none", "pending"}
           \/ dead[worker[w].d][worker[w].seq]
  PROVE  Inv'
<1>1. /\ job' \in [Deliveries -> [Seqs -> Jobs]]
      /\ dead' \in [Deliveries -> [Seqs -> BOOLEAN]]
  BY DEF Inv, TypeOK
<1> QED BY <1>1, WalkKeeps

\* The event of the job is looked up.
LEMMA LoadKeeps == ASSUME Inv, NEW w \in Workers, Load(w) PROVE Inv'
<1>1. PICK pc \in {"insert", "bury", "retry"} : Goto(w, pc)
  BY DEF Load, Answer
<1> QED BY <1>1, WalkOnly DEF Load, Steps

\* The row is read again.
LEMMA LookKeeps == ASSUME Inv, NEW w \in Workers, Look(w) PROVE Inv'
<1>1. worker[w].d \in Deliveries
  BY DEF Inv, TypeOK
<1>2. PICK pc \in {"claim", "retry", "prefer", "clear"} :
        Goto(w, pc) /\ (pc = "clear" => ~Open(delivery[worker[w].d]))
  BY DEF Look, Answer
<1> QED BY <1>1, <1>2, WalkOnly DEF Look, Open, Steps

\* A rate is reserved, or not.
LEMMA ReserveKeeps == ASSUME Inv, NEW w \in Workers, Reserve(w) PROVE Inv'
<1>1. PICK pc \in {"send", "defer"} :
        Goto(w, pc) /\ (pc = "defer" => Defers(delivery[worker[w].d]) < MaxDefers)
  BY DEF Reserve
<1> QED BY <1>1, WalkOnly DEF Reserve, Steps

\* A call of handle fails.
LEMMA FailsKeeps == ASSUME Inv, NEW w \in Workers, Fails(w) PROVE Inv'
BY WalkOnly DEF Fails, Steps

\* A worker dies.
LEMMA CrashKeeps == ASSUME Inv, NEW w \in Workers, Crash(w) PROVE Inv'
BY WalkOnly DEF Crash, Steps

\* A job whose counter or state is set.
LEMMA JobTries ==
  ASSUME TypeOK, NEW d \in Deliveries, NEW s \in Seqs, NEW n \in 0 .. MaxAttempts,
         job' = [job EXCEPT ![d][s].tries = n]
  PROVE  /\ job' \in [Deliveries -> [Seqs -> Jobs]]
         /\ \A e \in Deliveries, i \in Seqs : job'[e][i].state = job[e][i].state
<1>1. /\ job \in [Deliveries -> [Seqs -> Jobs]]
      /\ job[d] \in [Seqs -> Jobs] /\ job[d][s] \in Jobs
  BY DEF TypeOK
<1> DEFINE new == [job[d][s] EXCEPT !.tries = n]
           row == [job[d] EXCEPT ![s] = new]
<1>2. new \in Jobs /\ new.state = job[d][s].state
  <2>1. \A j \in Jobs : [j EXCEPT !.tries = n] \in Jobs /\ [j EXCEPT !.tries = n].state = j.state
    BY DEF Jobs
  <2> QED BY <1>1, <2>1
<1>3. job' = [job EXCEPT ![d] = row]
  OBVIOUS
<1> HIDE DEF new
<1>4. /\ row \in [Seqs -> Jobs]
      /\ \A i \in Seqs : row[i].state = job[d][i].state
  BY <1>1, <1>2
<1> HIDE DEF row
<1> QED BY <1>1, <1>3, <1>4

\* Moving a job along leaves everything else.
LEMMA JobState ==
  ASSUME TypeOK, NEW d \in Deliveries, NEW s \in Seqs,
         NEW state \in {"queued", "failed", "stream", "acked"}, SetJob(d, s, state)
  PROVE  /\ job' \in [Deliveries -> [Seqs -> Jobs]]
         /\ \A e \in Deliveries, i \in Seqs :
              job'[e][i].state = IF e = d /\ i = s THEN state ELSE job[e][i].state
<1>1. /\ job \in [Deliveries -> [Seqs -> Jobs]]
      /\ job[d] \in [Seqs -> Jobs] /\ job[d][s] \in Jobs
  BY DEF TypeOK
<1> DEFINE new == [job[d][s] EXCEPT !.state = state]
           row == [job[d] EXCEPT ![s] = new]
<1>2. new \in Jobs /\ new.state = state
  <2>1. \A j \in Jobs : [j EXCEPT !.state = state] \in Jobs /\ [j EXCEPT !.state = state].state = state
    BY DEF Jobs
  <2> QED BY <1>1, <2>1
<1>3. job' = [job EXCEPT ![d] = row]
  BY DEF SetJob
<1> HIDE DEF new
<1>4. /\ row \in [Seqs -> Jobs]
      /\ \A i \in Seqs : row[i].state = IF i = s THEN state ELSE job[d][i].state
  BY <1>1, <1>2
<1> HIDE DEF row
<1> QED BY <1>1, <1>3, <1>4

\* The failed job is counted and left to the stream.
LEMMA RetryKeeps == ASSUME Inv, NEW w \in Workers, Retry(w) PROVE Inv'
<1>1. worker[w].d \in Deliveries /\ worker[w].seq \in Seqs
  BY DEF Inv, TypeOK
<1>2. /\ job' \in [Deliveries -> [Seqs -> Jobs]]
      /\ \A d \in Deliveries, s \in Seqs : job'[d][s].state = job[d][s].state
  <2>1. job[worker[w].d][worker[w].seq].tries \in 0 .. MaxAttempts
    BY <1>1 DEF Inv, TypeOK, Jobs
  <2> DEFINE n == IF job[worker[w].d][worker[w].seq].tries < MaxAttempts
                  THEN job[worker[w].d][worker[w].seq].tries + 1
                  ELSE job[worker[w].d][worker[w].seq].tries
  <2>2. n \in 0 .. MaxAttempts
    BY <2>1, DeliveryAssumption
  <2>3. job' = [job EXCEPT ![worker[w].d][worker[w].seq].tries = n]
    BY DEF Retry
  <2> HIDE DEF n
  <2> QED BY <1>1, <2>2, <2>3, JobTries DEF Inv
<1>3. PICK pc \in {"idle", "bury"} : Goto(w, pc)
  BY DEF Retry
<1>4. dead' \in [Deliveries -> [Seqs -> BOOLEAN]] /\ UNCHANGED <<tables, dead, outside>>
  BY DEF Inv, TypeOK, Retry
<1> QED BY <1>2, <1>3, <1>4, WalkKeeps DEF Retry, Steps

\* The job is copied to the dead letters.
LEMMA BuryKeeps == ASSUME Inv, NEW w \in Workers, Bury(w) PROVE Inv'
<1>1. worker[w].d \in Deliveries /\ worker[w].seq \in Seqs
  BY DEF Inv, TypeOK
<1>2. /\ dead' \in [Deliveries -> [Seqs -> BOOLEAN]]
      /\ \A d \in Deliveries, s \in Seqs : dead[d][s] => dead'[d][s]
      /\ dead'[worker[w].d][worker[w].seq]
  BY <1>1 DEF Inv, TypeOK, Bury
<1>3. job' \in [Deliveries -> [Seqs -> Jobs]] /\ UNCHANGED <<tables, job, outside>>
  BY DEF Inv, TypeOK, Bury
<1> QED BY <1>2, <1>3, WalkKeeps DEF Bury, Steps

\* The counter of the job is cleared.
LEMMA ClearKeeps == ASSUME Inv, NEW w \in Workers, ClearRetry(w) PROVE Inv'
<1>1. /\ worker[w].d \in Deliveries /\ worker[w].seq \in Seqs /\ WorkerInv(w)
  BY DEF Inv, TypeOK
<1>2. /\ job' \in [Deliveries -> [Seqs -> Jobs]]
      /\ \A d \in Deliveries, s \in Seqs : job'[d][s].state = job[d][s].state
  <2>1. 0 \in 0 .. MaxAttempts
    BY DeliveryAssumption
  <2> QED BY <1>1, <2>1, JobTries DEF Inv, ClearRetry
<1>3. dead' \in [Deliveries -> [Seqs -> BOOLEAN]] /\ UNCHANGED <<tables, dead, outside>>
  BY DEF Inv, TypeOK, ClearRetry
<1> QED BY <1>1, <1>2, <1>3, WalkKeeps DEF ClearRetry, WorkerInv, Steps

-----------------------------------------------------------------------------
(* Jobs and time.                                                          *)

\* With the workers at rest it is enough that their deliveries are steady.
LEMMA RestKeeps ==
  ASSUME Inv, TypeOK', UNCHANGED worker, \A d \in Deliveries : RowInv(d)',
         \A w \in Workers : Steady(w)
  PROVE  Inv'
<1>1. ASSUME NEW w \in Workers PROVE WorkerInv(w)'
  BY <1>1, SteadyKeeps DEF Inv
<1>2. OneBusy'
  BY DEF Inv, OneBusy, Busy
<1> QED BY <1>1, <1>2 DEF Inv

\* A row of which only jobs that were made move, and the one it waits for not
\* away.
LEMMA RowJobMoves ==
  ASSUME TypeOK, NEW d \in Deliveries, RowInv(d), event'[d] = event[d],
         delivery'[d] = delivery[d], journal'[d] = journal[d],
         received'[d] = received[d], nonce'[d] = nonce[d], dead'[d] = dead[d],
         \A s \in Seqs : job'[d][s].state # "none" => job[d][s].state # "none",
         event[d] /\ delivery[d].status \in {"none", "pending"} =>
           LET s == delivery[d].retry_seq IN
           job'[d][s].state \in {"queued", "stream", "failed"} \/ dead[d][s]
  PROVE  RowInv(d)'
<1>1. SeqInv(d)' /\ ReceiptInv(d)'
  BY DEF RowInv, SeqInv, ReceiptInv
<1>2. JournalInv(d)'
  BY DEF RowInv, JournalInv, Counted
<1>3. JobInv(d)'
  BY DEF RowInv, JobInv
<1> QED BY <1>1, <1>2, <1>3 DEF RowInv

\* The outbox appends a job, or gives it up.
LEMMA PublishKeeps ==
  ASSUME Inv, NEW d \in Deliveries, NEW s \in Seqs, Publish(d, s) \/ GiveUp(d, s)
  PROVE  Inv'
<1>1. PICK state \in {"stream", "failed"} : SetJob(d, s, state)
  BY DEF Publish, GiveUp
<1>2. /\ job' \in [Deliveries -> [Seqs -> Jobs]]
      /\ \A e \in Deliveries, i \in Seqs :
           job'[e][i].state = IF e = d /\ i = s THEN state ELSE job[e][i].state
  BY <1>1, JobState DEF Inv
<1>3. job[d][s].state # "none" /\ UNCHANGED <<tables, dead, worker, outside>>
  BY DEF Publish, GiveUp
<1>4. TypeOK'
  BY <1>2, <1>3 DEF Inv, TypeOK, tables, outside
<1>5. ASSUME NEW e \in Deliveries PROVE RowInv(e)'
  <2>1. /\ RowInv(e) /\ JobInv(e) /\ delivery[e].retry_seq \in Seqs
    BY RowTyped DEF Inv, RowInv
  <2> QED BY <1>2, <1>3, <2>1, RowJobMoves DEF Inv, JobInv, tables, outside
<1>6. ASSUME NEW w \in Workers PROVE Steady(w)
  <2>1. \A e \in Deliveries, i \in Seqs : job[e][i].state # "none" => job'[e][i].state # "none"
    BY <1>2
  <2> QED BY <1>3, <2>1, SteadyJobs DEF Inv
<1> QED BY <1>3, <1>4, <1>5, <1>6, RestKeeps

\* The job is acknowledged.
LEMMA AckKeeps == ASSUME Inv, NEW w \in Workers, Ack(w) PROVE Inv'
<1> DEFINE d == worker[w].d
           s == worker[w].seq
<1>1. d \in Deliveries /\ s \in Seqs /\ WorkerInv(w) /\ worker[w].pc = "ack"
  BY DEF Inv, TypeOK, Ack
<1>2. /\ job' \in [Deliveries -> [Seqs -> Jobs]]
      /\ \A e \in Deliveries, i \in Seqs :
           job'[e][i].state = IF e = d /\ i = s THEN "acked" ELSE job[e][i].state
  BY <1>1, JobState DEF Inv, Ack
<1>3. Goto(w, "idle") /\ UNCHANGED <<tables, dead, outside>>
  BY DEF Ack
<1>4. /\ worker' \in [Workers -> [pc : Steps, d : Deliveries, seq : Seqs,
                                  claim : {0} \cup Claims, result : Results]]
      /\ \A v \in Workers : v # w => worker'[v] = worker[v]
      /\ worker'[w].d = d /\ worker'[w].pc = "idle"
  BY <1>3, Moved DEF Inv, Steps
<1>5. TypeOK'
  BY <1>2, <1>3, <1>4 DEF Inv, TypeOK, tables, outside
<1>6. job[d][s].state # "none"
  BY <1>1 DEF WorkerInv
<1>7. ASSUME NEW e \in Deliveries PROVE RowInv(e)'
  <2>1. /\ RowInv(e) /\ JobInv(e) /\ delivery[e].retry_seq \in Seqs
    BY RowTyped DEF Inv, RowInv
  <2>2. event[e] /\ delivery[e].status \in {"none", "pending"} =>
          \/ job'[e][delivery[e].retry_seq].state \in {"queued", "stream", "failed"}
          \/ dead[e][delivery[e].retry_seq]
    BY <1>1, <1>2, <2>1 DEF WorkerInv, JobInv
  <2>3. \A i \in Seqs : job'[e][i].state # "none" => job[e][i].state # "none"
    BY <1>2, <1>6
  <2> QED BY <1>3, <2>1, <2>2, <2>3, RowJobMoves DEF Inv, tables, outside
<1>8. ASSUME NEW v \in Workers PROVE WorkerInv(v)'
  <2>1. CASE v = w
    BY <1>4, <2>1 DEF WorkerInv, Busy
  <2>2. CASE v # w
    <3>1. \A e \in Deliveries, i \in Seqs : job[e][i].state # "none" => job'[e][i].state # "none"
      BY <1>2
    <3>2. Steady(v)
      BY <1>3, <3>1, SteadyJobs DEF Inv
    <3> QED BY <1>4, <1>5, <2>2, <3>2, SteadyKeeps DEF Inv
  <2> QED BY <2>1, <2>2
<1>9. OneBusy'
  <2>1. ~Busy(w)'
    BY <1>4 DEF Busy
  <2> QED BY <1>4, <2>1, BusyStays DEF Inv
<1> QED BY <1>5, <1>7, <1>8, <1>9 DEF Inv

\* A worker takes a job.
LEMMA ReadKeeps ==
  ASSUME Inv, NEW w \in Workers, NEW d \in Deliveries, NEW s \in Seqs, Read(w, d, s)
  PROVE  Inv'
<1> DEFINE new == [Idle(d) EXCEPT !.pc = "load", !.seq = s]
<1>1. /\ new \in [pc : Steps, d : Deliveries, seq : Seqs, claim : {0} \cup Claims, result : Results]
      /\ new.pc = "load" /\ new.d = d /\ new.seq = s
  BY DEF Idle, Steps, Results
<1>2. worker' = [worker EXCEPT ![w] = new] /\ UNCHANGED <<tables, job, dead, outside>>
  BY DEF Read
<1> HIDE DEF new
<1>3. /\ worker' \in [Workers -> [pc : Steps, d : Deliveries, seq : Seqs,
                                  claim : {0} \cup Claims, result : Results]]
      /\ \A v \in Workers : v # w => worker'[v] = worker[v]
      /\ worker'[w] = new
  BY <1>1, <1>2 DEF Inv, TypeOK
<1>4. TypeOK'
  BY <1>2, <1>3 DEF Inv, TypeOK, tables, outside
<1>5. ASSUME NEW e \in Deliveries PROVE RowInv(e)'
  BY <1>2, RowStill DEF Inv, tables, outside
<1>6. ASSUME NEW v \in Workers, v # w PROVE WorkerInv(v)'
  <2>1. Steady(v)
    BY <1>2, SteadyStill DEF Inv
  <2> QED BY <1>3, <1>4, <1>6, <2>1, SteadyKeeps DEF Inv
<1>7. WorkerInv(w)' /\ ~Busy(w)'
  <2>1. job'[d][s].state = "stream"
    BY <1>2 DEF Read
  <2> QED BY <1>1, <1>3, <2>1 DEF WorkerInv, Busy
<1>8. OneBusy'
  BY <1>3, <1>7, BusyStays DEF Inv
<1> QED BY <1>4, <1>5, <1>6, <1>7, <1>8 DEF Inv

\* A row whose timers alone move keeps its part.
LEMMA RowTimers ==
  ASSUME TypeOK, NEW d \in Deliveries, RowInv(d), event'[d] = event[d],
         delivery'[d].status = delivery[d].status, delivery'[d].channel = delivery[d].channel,
         delivery'[d].attempts = delivery[d].attempts,
         delivery'[d].claim_seq = delivery[d].claim_seq,
         delivery'[d].retry_seq = delivery[d].retry_seq,
         journal'[d] = journal[d], received'[d] = received[d], nonce'[d] = nonce[d],
         job'[d] = job[d], dead'[d] = dead[d]
  PROVE  RowInv(d)'
BY DEF RowInv, SeqInv, JournalInv, Counted, ReceiptInv, JobInv

\* The fields of a row whose lease or retry time has come.
LEMMA TimersAre ==
  ASSUME NEW r \in Fields
  PROVE  /\ [r EXCEPT !.expired = TRUE] \in Fields /\ [r EXCEPT !.due = TRUE] \in Fields
         /\ \A n \in {[r EXCEPT !.expired = TRUE], [r EXCEPT !.due = TRUE]} :
              /\ n.status = r.status /\ n.channel = r.channel /\ n.attempts = r.attempts
              /\ n.claim_seq = r.claim_seq /\ n.retry_seq = r.retry_seq /\ n.leased = r.leased
<1>1. /\ [r EXCEPT !.expired = TRUE] \in Fields /\ [r EXCEPT !.due = TRUE] \in Fields
  BY DEF Fields
<1>2. LET n == [r EXCEPT !.expired = TRUE] IN
      /\ n.status = r.status /\ n.channel = r.channel /\ n.attempts = r.attempts
      /\ n.claim_seq = r.claim_seq /\ n.retry_seq = r.retry_seq /\ n.leased = r.leased
  BY DEF Fields
<1>3. LET n == [r EXCEPT !.due = TRUE] IN
      /\ n.status = r.status /\ n.channel = r.channel /\ n.attempts = r.attempts
      /\ n.claim_seq = r.claim_seq /\ n.retry_seq = r.retry_seq /\ n.leased = r.leased
  BY DEF Fields
<1> QED BY <1>1, <1>2, <1>3

\* A lease expires, a retry falls due.
LEMMA TimeKeeps ==
  ASSUME Inv, NEW d \in Deliveries, LeaseExpires(d) \/ RetryFallsDue(d)
  PROVE  Inv'
<1>1. delivery[d] \in Fields /\ (delivery[d].leased <=> delivery[d].status = "sending")
  BY RowTyped DEF Inv
<1>2. PICK n \in {[delivery[d] EXCEPT !.expired = TRUE], [delivery[d] EXCEPT !.due = TRUE]} :
        delivery' = [delivery EXCEPT ![d] = n]
  BY DEF LeaseExpires, RetryFallsDue
<1>3. /\ n \in Fields
      /\ n.status = delivery[d].status /\ n.channel = delivery[d].channel
      /\ n.attempts = delivery[d].attempts /\ n.claim_seq = delivery[d].claim_seq
      /\ n.retry_seq = delivery[d].retry_seq /\ n.leased = delivery[d].leased
  BY <1>1, <1>2, TimersAre
<1>4. n \in DeliveryRows
  BY <1>1, <1>3, FieldsAreRow
<1>5. UNCHANGED <<event, journal, job, dead, worker, received, nonce>>
  BY DEF LeaseExpires, RetryFallsDue, outside
<1>6. /\ delivery' \in [Deliveries -> DeliveryRows]
      /\ delivery'[d] = n /\ \A e \in Deliveries : e # d => delivery'[e] = delivery[e]
  BY <1>2, <1>4 DEF Inv, TypeOK
<1>7. TypeOK'
  BY <1>5, <1>6 DEF Inv, TypeOK
<1>8. ASSUME NEW e \in Deliveries PROVE RowInv(e)'
  <2>1. CASE e = d BY <1>3, <1>5, <1>6, <2>1, RowTimers DEF Inv
  <2>2. CASE e # d BY <1>5, <1>6, <2>2, RowStill DEF Inv
  <2> QED BY <2>1, <2>2
<1>9. ASSUME NEW w \in Workers PROVE Steady(w)
  <2>1. worker[w].d \in Deliveries /\ received[worker[w].d] \in Nat
    BY DEF Inv, TypeOK
  <2>2. /\ delivery'[worker[w].d].status = delivery[worker[w].d].status
        /\ delivery'[worker[w].d].channel = delivery[worker[w].d].channel
        /\ delivery'[worker[w].d].attempts = delivery[worker[w].d].attempts
        /\ delivery'[worker[w].d].claim_seq = delivery[worker[w].d].claim_seq
        /\ delivery'[worker[w].d].retry_seq = delivery[worker[w].d].retry_seq
    BY <1>3, <1>6, <2>1
  <2> QED BY <1>5, <2>1, <2>2 DEF Steady
<1> QED BY <1>5, <1>7, <1>8, <1>9, RestKeeps

\* Discord forgets the nonce.
LEMMA NonceKeeps ==
  ASSUME Inv, NEW d \in Deliveries, NonceForgotten(d)
  PROVE  Inv'
<1>1. /\ nonce[d] \in [known : BOOLEAN, forgotten : 0 .. MaxForgets]
      /\ nonce[d].known /\ nonce[d].forgotten + 1 \in 0 .. MaxForgets
  BY DeliveryAssumption DEF Inv, TypeOK, NonceForgotten
<1>2. UNCHANGED <<event, delivery, journal, job, dead, worker, received>>
  BY DEF NonceForgotten, tables
<1>3. /\ nonce' \in [Deliveries -> [known : BOOLEAN, forgotten : 0 .. MaxForgets]]
      /\ ~nonce'[d].known /\ nonce'[d].forgotten = nonce[d].forgotten + 1
      /\ \A e \in Deliveries : e # d => nonce'[e] = nonce[e]
  BY <1>1 DEF Inv, TypeOK, NonceForgotten
<1>4. TypeOK'
  BY <1>2, <1>3 DEF Inv, TypeOK
<1>5. RowInv(d)'
  <2>1. SeqInv(d)' /\ JobInv(d)'
    BY <1>2 DEF Inv, RowInv, SeqInv, JobInv
  <2>2. JournalInv(d)'
    <3>1. JournalInv(d)
      BY DEF Inv, RowInv
    <3> QED BY <1>2, <3>1 DEF JournalInv, Counted
  <2>3. ReceiptInv(d)'
    <3>1. RowInv(d)
      BY DEF Inv
    <3> QED BY <1>1, <1>2, <1>3, <3>1 DEF RowInv, ReceiptInv
  <2> QED BY <2>1, <2>2, <2>3 DEF RowInv
<1>6. ASSUME NEW e \in Deliveries PROVE RowInv(e)'
  BY <1>2, <1>3, <1>5, RowStill DEF Inv
<1>7. ASSUME NEW w \in Workers PROVE Steady(w)
  <2>1. received[worker[w].d] \in Nat
    BY DEF Inv, TypeOK
  <2> QED BY <1>2, <2>1 DEF Steady
<1> QED BY <1>2, <1>4, <1>6, <1>7, RestKeeps

\* The alert is deleted with its events and deliveries.
LEMMA DeleteKeeps ==
  ASSUME Inv, NEW d \in Deliveries, DeleteAlert(d)
  PROVE  Inv'
<1> DEFINE n == Unborn(delivery[d].channel)
           none == [c \in Claims |-> "none"]
<1>1. /\ n \in DeliveryRows /\ n.status = "none" /\ n.channel = delivery[d].channel
      /\ n.attempts = 0 /\ n.claim_seq = 0 /\ n.retry_seq = 0
  BY RowTyped, DeliveryAssumption DEF Inv, Unborn, DeliveryRows, Statuses, Seqs
<1>2. /\ event' = [event EXCEPT ![d] = FALSE] /\ delivery' = [delivery EXCEPT ![d] = n]
      /\ journal' = [journal EXCEPT ![d] = none]
      /\ UNCHANGED <<job, dead, worker, received, nonce>>
  BY DEF DeleteAlert, outside
<1>3. none \in [Claims -> Attempts] /\ \A c \in Claims : none[c] = "none"
  BY DEF Attempts
<1> HIDE DEF n, none
<1>4. /\ event' \in [Deliveries -> BOOLEAN] /\ delivery' \in [Deliveries -> DeliveryRows]
      /\ journal' \in [Deliveries -> [Claims -> Attempts]]
      /\ ~event'[d] /\ delivery'[d] = n /\ journal'[d] = none
      /\ \A e \in Deliveries : e # d => /\ event'[e] = event[e] /\ delivery'[e] = delivery[e]
                                        /\ journal'[e] = journal[e]
  BY <1>1, <1>2, <1>3 DEF Inv, TypeOK
<1>5. TypeOK'
  BY <1>2, <1>4 DEF Inv, TypeOK
<1>6. RowInv(d)'
  <2>1. SeqInv(d)' /\ JobInv(d)'
    BY <1>1, <1>4, DeliveryAssumption DEF SeqInv, JobInv
  <2>2. JournalInv(d)'
    <3>1. Counted(d)' = {}
      BY <1>3, <1>4 DEF Counted
    <3> QED BY <1>1, <1>3, <1>4, <3>1, FS_EmptySet DEF JournalInv
  <2>3. ReceiptInv(d)'
    BY <1>1, <1>2, <1>4 DEF Inv, RowInv, ReceiptInv
  <2> QED BY <2>1, <2>2, <2>3 DEF RowInv
<1>7. ASSUME NEW e \in Deliveries PROVE RowInv(e)'
  BY <1>2, <1>4, <1>6, RowStill DEF Inv
<1>8. ASSUME NEW w \in Workers PROVE Steady(w)
  <2>1. /\ worker[w].d \in Deliveries /\ received[worker[w].d] \in Nat
    BY DEF Inv, TypeOK
  <2>2. CASE worker[w].d = d
    BY <1>1, <1>2, <1>4, <2>1, <2>2 DEF Steady
  <2>3. CASE worker[w].d # d
    BY <1>2, <1>4, <2>1, <2>3 DEF Steady
  <2> QED BY <2>2, <2>3
<1> QED BY <1>2, <1>5, <1>7, <1>8, RestKeeps

-----------------------------------------------------------------------------
(* Rows that change.                                                       *)

\* The fields of a row that gets a status.
LEMMA StatusIs ==
  ASSUME NEW r \in Fields, NEW status \in Statuses
  PROVE  LET n == [r EXCEPT !.status = status] IN
         /\ n \in Fields /\ n.status = status /\ n.channel = r.channel
         /\ n.attempts = r.attempts /\ n.claim_seq = r.claim_seq
         /\ n.retry_seq = r.retry_seq /\ n.leased = r.leased
BY DEF Fields

\* One entry of the journal is set.
LEMMA JournalSet ==
  ASSUME TypeOK, NEW d \in Deliveries, NEW c \in Claims, NEW x \in Attempts,
         journal' = [journal EXCEPT ![d][c] = x]
  PROVE  /\ journal' \in [Deliveries -> [Claims -> Attempts]]
         /\ \A i \in Claims : journal'[d][i] = IF i = c THEN x ELSE journal[d][i]
         /\ \A e \in Deliveries : e # d => journal'[e] = journal[e]
<1>1. journal \in [Deliveries -> [Claims -> Attempts]] /\ journal[d] \in [Claims -> Attempts]
  BY DEF TypeOK
<1> DEFINE row == [journal[d] EXCEPT ![c] = x]
<1>2. row \in [Claims -> Attempts] /\ \A i \in Claims : row[i] = IF i = c THEN x ELSE journal[d][i]
  BY <1>1
<1>3. journal' = [journal EXCEPT ![d] = row]
  OBVIOUS
<1> HIDE DEF row
<1> QED BY <1>1, <1>2, <1>3

\* One row is set.
LEMMA RowSet ==
  ASSUME TypeOK, NEW d \in Deliveries, NEW n \in DeliveryRows, delivery' = [delivery EXCEPT ![d] = n]
  PROVE  /\ delivery' \in [Deliveries -> DeliveryRows] /\ delivery'[d] = n
         /\ \A e \in Deliveries : e # d => delivery'[e] = delivery[e]
BY DEF TypeOK

\* Counted claims are finitely many.
LEMMA ClaimsAreFinite ==
  ASSUME NEW d \in Deliveries
  PROVE  IsFiniteSet(Claims) /\ IsFiniteSet(Counted(d))
<1>1. IsFiniteSet(Claims)
  <2>1. 1 \in Int /\ MaxAttempts + MaxDefers \in Int
    BY DeliveryAssumption
  <2> QED BY <2>1, FS_Interval DEF Claims
<1>2. Counted(d) \subseteq Claims
  BY DEF Counted
<1> QED BY <1>1, <1>2, FS_Subset

\* A worker moves and a row changes.
LEMMA MoveKeeps ==
  ASSUME Inv, TypeOK', NEW w \in Workers, NEW d \in Deliveries,
         \A v \in Workers : v # w => worker'[v] = worker[v] /\ Steady(v),
         RowInv(d)',
         \A e \in Deliveries : e # d =>
           /\ event'[e] = event[e] /\ delivery'[e] = delivery[e] /\ journal'[e] = journal[e]
           /\ received'[e] = received[e] /\ nonce'[e] = nonce[e]
           /\ job'[e] = job[e] /\ dead'[e] = dead[e],
         WorkerInv(w)', OneBusy'
  PROVE  Inv'
<1>1. ASSUME NEW e \in Deliveries PROVE RowInv(e)'
  BY <1>1, RowStill DEF Inv
<1>2. ASSUME NEW v \in Workers PROVE WorkerInv(v)'
  BY <1>2, SteadyKeeps DEF Inv
<1> QED BY <1>1, <1>2 DEF Inv

\* A lease that is lost leaves its row ambiguous.
LEMMA RowLost ==
  ASSUME TypeOK, NEW d \in Deliveries, RowInv(d), delivery[d].status = "sending",
         event'[d] = event[d], delivery'[d] = Unleased(delivery[d], "ambiguous"),
         \A c \in Claims : journal'[d][c] =
           IF c = delivery[d].claim_seq THEN "ambiguous" ELSE journal[d][c],
         received'[d] = received[d], nonce'[d] = nonce[d],
         \A s \in Seqs : job'[d][s] = job[d][s], dead'[d] = dead[d]
  PROVE  RowInv(d)' /\ Unleased(delivery[d], "ambiguous") \in DeliveryRows
<1> DEFINE n == Unleased(delivery[d], "ambiguous")
<1>1. /\ n \in Fields /\ n.status = "ambiguous" /\ ~n.leased
      /\ n.channel = delivery[d].channel /\ n.attempts = delivery[d].attempts
      /\ n.claim_seq = delivery[d].claim_seq /\ n.retry_seq = delivery[d].retry_seq
  BY RowTyped, UnleasedIs DEF Statuses, Final
<1>2. n \in DeliveryRows
  BY <1>1, FieldsAreRow
<1> HIDE DEF n
<1>3. delivery'[d] = n
  BY DEF n
<1>4. SeqInv(d)' /\ JobInv(d)'
  BY <1>1, <1>3 DEF RowInv, SeqInv, JobInv
<1>5. ReceiptInv(d)'
  <2>1. ReceiptInv(d)
    BY DEF RowInv
  <2> QED BY <1>1, <1>3, <2>1 DEF ReceiptInv
<1>6. JournalInv(d)'
  <2>1. JournalInv(d) /\ SeqInv(d) /\ delivery[d].retry_seq \in Seqs
    BY RowTyped DEF RowInv
  <2>2. delivery[d].claim_seq \in Claims
    BY <2>1, RowTyped DEF SeqInv, Seqs, Claims
  <2>3. journal[d][delivery[d].claim_seq] = "claimed"
    BY <2>1, <2>2 DEF JournalInv
  <2>4. Counted(d)' = Counted(d)
    BY <2>2, <2>3 DEF Counted
  <2>5. Cardinality(Counted(d)') = delivery'[d].attempts
    BY <1>1, <1>3, <2>1, <2>4 DEF JournalInv
  <2>6. \A c \in Claims : c > delivery'[d].claim_seq => journal'[d][c] = "none"
    BY <1>1, <1>3, <2>1, <2>2 DEF JournalInv, Claims
  <2>7. \A c \in Claims : journal'[d][c] # "claimed"
    BY <2>1 DEF JournalInv
  <2> QED BY <1>1, <1>3, <2>5, <2>6, <2>7 DEF JournalInv
<1> QED BY <1>2, <1>4, <1>5, <1>6, n = Unleased(delivery[d], "ambiguous") DEF RowInv, n

\* A row that waits may be closed: as failed, or as dead when its attempts are
\* spent.
LEMMA RowClosed ==
  ASSUME TypeOK, NEW d \in Deliveries, RowInv(d),
         delivery[d].status \in {"pending", "retry_scheduled"},
         delivery'[d].status \in {"failed", "dead_lettered"},
         delivery'[d].status = "dead_lettered" => delivery[d].attempts >= MaxAttempts,
         event'[d] = event[d], delivery'[d].channel = delivery[d].channel,
         delivery'[d].attempts = delivery[d].attempts,
         delivery'[d].claim_seq = delivery[d].claim_seq,
         delivery'[d].retry_seq = delivery[d].retry_seq,
         journal'[d] = journal[d], received'[d] = received[d], nonce'[d] = nonce[d],
         job'[d] = job[d], dead'[d] = dead[d]
  PROVE  RowInv(d)'
<1>1. /\ SeqInv(d) /\ JournalInv(d) /\ ReceiptInv(d) /\ JobInv(d)
      /\ delivery[d].attempts \in 0 .. MaxAttempts
  BY RowTyped DEF RowInv
<1>2. SeqInv(d)' /\ JobInv(d)'
  BY <1>1 DEF SeqInv, JobInv
<1>3. ReceiptInv(d)'
  BY <1>1 DEF ReceiptInv
<1>4. JournalInv(d)'
  <2>1. Counted(d)' = Counted(d)
    BY DEF Counted
  <2>2. delivery'[d].status = "dead_lettered" => delivery'[d].attempts = MaxAttempts
    BY <1>1, DeliveryAssumption
  <2> QED BY <1>1, <2>1, <2>2 DEF JournalInv
<1> QED BY <1>2, <1>3, <1>4 DEF RowInv

\* The row is created.
LEMMA InsertKeeps ==
  ASSUME Inv, NEW w \in Workers, NEW d \in Deliveries, worker[w].d = d, Insert(w)
  PROVE  Inv'
<1> DEFINE n == [delivery[d] EXCEPT !.status = IF @ = "none" THEN "pending" ELSE @]
           st == IF delivery[d].status = "none" THEN "pending" ELSE delivery[d].status
<1>1. /\ d \in Deliveries /\ worker[w].pc = "insert" /\ event[d]
      /\ delivery[d] \in Fields /\ st \in Statuses
      /\ (delivery[d].leased <=> delivery[d].status = "sending")
      /\ RowInv(d) /\ WorkerInv(w) /\ received[d] \in Nat
  <2>1. d \in Deliveries /\ worker[w].pc = "insert" /\ event[d] /\ WorkerInv(w) /\ received[d] \in Nat
    BY DEF Inv, TypeOK, Insert
  <2> QED BY <2>1, RowTyped DEF Inv, Statuses
<1>2. /\ n \in Fields /\ n.status = st /\ n.channel = delivery[d].channel
      /\ n.attempts = delivery[d].attempts /\ n.claim_seq = delivery[d].claim_seq
      /\ n.retry_seq = delivery[d].retry_seq /\ n.leased = delivery[d].leased
  BY <1>1, StatusIs
<1>3. n \in DeliveryRows
  <2> HIDE DEF n
  <2> QED BY <1>1, <1>2, FieldsAreRow
<1>4. delivery' = [delivery EXCEPT ![d] = n] /\ UNCHANGED <<event, journal, job, dead, received, nonce>>
  BY DEF Insert, outside
<1> HIDE DEF n
<1>5. /\ delivery' \in [Deliveries -> DeliveryRows] /\ delivery'[d] = n
      /\ \A e \in Deliveries : e # d => delivery'[e] = delivery[e]
  BY <1>1, <1>3, <1>4, RowSet DEF Inv
<1>6. PICK pc \in {"look", "retry"} : Goto(w, pc)
  BY DEF Insert, Answer
<1>7. /\ worker' \in [Workers -> [pc : Steps, d : Deliveries, seq : Seqs,
                                  claim : {0} \cup Claims, result : Results]]
      /\ \A v \in Workers : v # w => worker'[v] = worker[v]
      /\ worker'[w].d = d /\ worker'[w].pc = pc /\ worker'[w].seq = worker[w].seq
  BY <1>6, Moved DEF Inv, Steps
<1>8. TypeOK'
  BY <1>4, <1>5, <1>7 DEF Inv, TypeOK
<1>9. RowInv(d)'
  <2>1. SeqInv(d) /\ JournalInv(d) /\ ReceiptInv(d) /\ JobInv(d)
    BY <1>1 DEF RowInv
  <2>2. SeqInv(d)' /\ JobInv(d)'
    BY <1>1, <1>2, <1>4, <1>5, <2>1 DEF SeqInv, JobInv
  <2>3. ReceiptInv(d)'
    BY <1>1, <1>2, <1>4, <1>5, <2>1 DEF ReceiptInv
  <2>4. JournalInv(d)'
    <3>1. Counted(d)' = Counted(d)
      BY <1>4 DEF Counted
    <3> QED BY <1>1, <1>2, <1>4, <1>5, <2>1, <3>1 DEF JournalInv
  <2> QED BY <2>2, <2>3, <2>4 DEF RowInv
<1>10. ASSUME NEW v \in Workers PROVE Steady(v)
  <2>1. worker[v].d \in Deliveries /\ received[worker[v].d] \in Nat
    BY DEF Inv, TypeOK
  <2>2. CASE worker[v].d = d
    BY <1>1, <1>2, <1>4, <1>5, <2>1, <2>2 DEF Steady
  <2>3. CASE worker[v].d # d
    BY <1>4, <1>5, <2>1, <2>3 DEF Steady
  <2> QED BY <2>2, <2>3
<1>11. WorkerInv(w)'
  BY <1>1, <1>4, <1>7 DEF WorkerInv, Busy
<1>12. OneBusy'
  <2>1. ~Busy(w)'
    BY <1>7 DEF Busy
  <2> QED BY <1>7, <2>1, BusyStays DEF Inv
<1> QED BY <1>1, <1>4, <1>5, <1>7, <1>8, <1>9, <1>10, <1>11, <1>12, MoveKeeps

\* A preference ends the delivery before any claim.
LEMMA MarkKeeps ==
  ASSUME Inv, NEW w \in Workers, NEW d \in Deliveries, worker[w].d = d, MarkPreferenceFailure(w)
  PROVE  Inv'
<1> DEFINE n == [delivery[d] EXCEPT !.status =
                   IF @ \in {"pending", "retry_scheduled"} THEN "failed" ELSE @]
           st == IF delivery[d].status \in {"pending", "retry_scheduled"} THEN "failed"
                 ELSE delivery[d].status
<1>1. /\ d \in Deliveries /\ worker[w].pc = "prefer"
      /\ delivery[d] \in Fields /\ st \in Statuses
      /\ (delivery[d].leased <=> delivery[d].status = "sending")
      /\ RowInv(d) /\ WorkerInv(w) /\ received[d] \in Nat
  <2>1. d \in Deliveries /\ worker[w].pc = "prefer" /\ WorkerInv(w) /\ received[d] \in Nat
    BY DEF Inv, TypeOK, MarkPreferenceFailure
  <2> QED BY <2>1, RowTyped DEF Inv, Statuses, Final
<1>2. /\ n \in Fields /\ n.status = st /\ n.channel = delivery[d].channel
      /\ n.attempts = delivery[d].attempts /\ n.claim_seq = delivery[d].claim_seq
      /\ n.retry_seq = delivery[d].retry_seq /\ n.leased = delivery[d].leased
  BY <1>1, StatusIs
<1>3. n \in DeliveryRows
  <2> HIDE DEF n
  <2> QED BY <1>1, <1>2, FieldsAreRow
<1>4. delivery' = [delivery EXCEPT ![d] = n] /\ UNCHANGED <<event, journal, job, dead, received, nonce>>
  BY DEF MarkPreferenceFailure, outside
<1> HIDE DEF n
<1>5. /\ delivery' \in [Deliveries -> DeliveryRows] /\ delivery'[d] = n
      /\ \A e \in Deliveries : e # d => delivery'[e] = delivery[e]
  BY <1>1, <1>3, <1>4, RowSet DEF Inv
<1>6. PICK pc \in {"clear", "retry"} : Goto(w, pc)
  BY DEF MarkPreferenceFailure, Answer
<1>7. /\ worker' \in [Workers -> [pc : Steps, d : Deliveries, seq : Seqs,
                                  claim : {0} \cup Claims, result : Results]]
      /\ \A v \in Workers : v # w => worker'[v] = worker[v]
      /\ worker'[w].d = d /\ worker'[w].pc = pc /\ worker'[w].seq = worker[w].seq
  BY <1>6, Moved DEF Inv, Steps
<1>8. TypeOK'
  BY <1>4, <1>5, <1>7 DEF Inv, TypeOK
<1>9. RowInv(d)'
  <2>1. CASE delivery[d].status \in {"pending", "retry_scheduled"}
    <3>1. st = "failed" /\ TypeOK
      BY <2>1 DEF Inv
    <3> HIDE DEF st
    <3>2. /\ delivery'[d].status = "failed" /\ delivery'[d].channel = delivery[d].channel
          /\ delivery'[d].attempts = delivery[d].attempts
          /\ delivery'[d].claim_seq = delivery[d].claim_seq
          /\ delivery'[d].retry_seq = delivery[d].retry_seq
      BY <1>2, <1>5, <3>1
    <3>3. /\ event'[d] = event[d] /\ journal'[d] = journal[d] /\ received'[d] = received[d]
          /\ nonce'[d] = nonce[d] /\ job'[d] = job[d] /\ dead'[d] = dead[d]
      BY <1>4
    <3>4. /\ TypeOK /\ RowInv(d)
          /\ delivery'[d].status \in {"failed", "dead_lettered"}
          /\ delivery'[d].status # "dead_lettered"
      BY <1>1, <3>1, <3>2
    <3> QED BY <2>1, <3>2, <3>3, <3>4, RowClosed
  <2>2. CASE delivery[d].status \notin {"pending", "retry_scheduled"}
    <3>1. st = delivery[d].status /\ TypeOK
      BY <2>2 DEF Inv
    <3> HIDE DEF st
    <3> QED BY <1>1, <1>2, <1>4, <1>5, <3>1, RowTimers
  <2> QED BY <2>1, <2>2
<1>10. ASSUME NEW v \in Workers PROVE Steady(v)
  <2>1. worker[v].d \in Deliveries /\ received[worker[v].d] \in Nat
    BY DEF Inv, TypeOK
  <2>2. CASE worker[v].d = d
    BY <1>1, <1>2, <1>4, <1>5, <2>1, <2>2 DEF Steady
  <2>3. CASE worker[v].d # d
    BY <1>4, <1>5, <2>1, <2>3 DEF Steady
  <2> QED BY <2>2, <2>3
<1>11. WorkerInv(w)'
  BY <1>1, <1>2, <1>4, <1>5, <1>7 DEF WorkerInv, Busy
<1>12. OneBusy'
  <2>1. ~Busy(w)'
    BY <1>7 DEF Busy
  <2> QED BY <1>7, <2>1, BusyStays DEF Inv
<1> QED BY <1>1, <1>4, <1>5, <1>7, <1>8, <1>9, <1>10, <1>11, <1>12, MoveKeeps

\* A claim that finds its row closed, or closes it.
LEMMA ClaimShut ==
  ASSUME Inv, NEW w \in Workers, NEW d \in Deliveries, worker[w].d = d, worker[w].pc = "claim",
         ~Open(delivery[d]), Answer(w, "clear"), UNCHANGED <<tables, job, dead, outside>>
  PROVE  Inv'
<1>1. PICK pc \in {"clear", "retry"} : Goto(w, pc)
  BY DEF Answer
<1>2. WorkerInv(w) /\ delivery[d].status \in Statuses /\ delivery[d].leased \in BOOLEAN
  BY RowTyped DEF Inv
<1>3. event[d] => delivery[d].status \notin {"none", "pending"}
  BY <1>2 DEF WorkerInv, Open
<1> QED BY <1>1, <1>3, WalkOnly DEF Steps

\* A claim finds the lease of another holder gone: whether it sent is unknown.
LEMMA ClaimLost ==
  ASSUME Inv, NEW w \in Workers, NEW d \in Deliveries, worker[w].d = d, worker[w].pc = "claim",
         delivery[d].status = "sending",
         journal' = [journal EXCEPT ![d][delivery[d].claim_seq] = "ambiguous"],
         delivery' = [delivery EXCEPT ![d] = Unleased(delivery[d], "ambiguous")],
         Answer(w, "clear"), UNCHANGED <<event, job, dead, outside>>
  PROVE  Inv'
<1> DEFINE n == Unleased(delivery[d], "ambiguous")
<1>1. /\ RowInv(d) /\ SeqInv(d) /\ WorkerInv(w) /\ TypeOK
      /\ n \in Fields /\ n.status = "ambiguous" /\ ~n.leased
      /\ n.channel = delivery[d].channel /\ n.claim_seq = delivery[d].claim_seq
  BY RowTyped, UnleasedIs DEF Inv, RowInv, Statuses, Final
<1>2. n \in DeliveryRows
  <2> HIDE DEF n
  <2> QED BY <1>1, FieldsAreRow
<1>3. delivery[d].claim_seq \in Claims
  BY <1>1, RowTyped DEF SeqInv, Seqs, Claims
<1>4. /\ delivery' \in [Deliveries -> DeliveryRows] /\ delivery'[d] = n
      /\ \A e \in Deliveries : e # d => delivery'[e] = delivery[e]
  <2> HIDE DEF n
  <2> QED BY <1>1, <1>2, RowSet, delivery' = [delivery EXCEPT ![d] = n] DEF n
<1>5. /\ journal' \in [Deliveries -> [Claims -> Attempts]]
      /\ \A c \in Claims : journal'[d][c] =
           IF c = delivery[d].claim_seq THEN "ambiguous" ELSE journal[d][c]
      /\ \A e \in Deliveries : e # d => journal'[e] = journal[e]
  <2>1. "ambiguous" \in Attempts
    BY DEF Attempts
  <2> QED BY <1>1, <1>3, <2>1, JournalSet
<1>6. PICK pc \in {"clear", "retry"} : Goto(w, pc)
  BY DEF Answer
<1>7. /\ worker' \in [Workers -> [pc : Steps, d : Deliveries, seq : Seqs,
                                  claim : {0} \cup Claims, result : Results]]
      /\ \A v \in Workers : v # w => worker'[v] = worker[v]
      /\ worker'[w].d = d /\ worker'[w].pc = pc /\ worker'[w].seq = worker[w].seq
  BY <1>1, <1>6, Moved DEF Steps
<1>8. UNCHANGED <<event, job, dead, received, nonce>>
  BY DEF outside
<1>9. TypeOK'
  BY <1>1, <1>4, <1>5, <1>7, <1>8 DEF TypeOK
<1>10. RowInv(d)'
  BY <1>1, <1>4, <1>5, <1>8, RowLost
<1>11. ASSUME NEW v \in Workers PROVE Steady(v)
  <2>1. worker[v].d \in Deliveries /\ received[worker[v].d] \in Nat
    BY <1>1 DEF TypeOK
  <2> HIDE DEF n
  <2>2. CASE worker[v].d = d
    BY <1>1, <1>4, <1>8, <2>1, <2>2 DEF Steady
  <2>3. CASE worker[v].d # d
    BY <1>4, <1>8, <2>1, <2>3 DEF Steady
  <2> QED BY <2>2, <2>3
<1>12. WorkerInv(w)'
  <2> HIDE DEF n
  <2> QED BY <1>1, <1>4, <1>7, <1>8 DEF WorkerInv, Busy
<1>13. OneBusy'
  <2>1. ~Busy(w)'
    BY <1>7 DEF Busy
  <2> QED BY <1>7, <2>1, BusyStays DEF Inv
<1> QED BY <1>4, <1>5, <1>7, <1>8, <1>9, <1>10, <1>11, <1>12, <1>13, MoveKeeps

\* A claim finds the attempts spent.
LEMMA ClaimDead ==
  ASSUME Inv, NEW w \in Workers, NEW d \in Deliveries, worker[w].d = d, worker[w].pc = "claim",
         delivery[d].status \in {"pending", "retry_scheduled"},
         delivery[d].attempts >= MaxAttempts,
         delivery' = [delivery EXCEPT ![d] = Unleased(delivery[d], "dead_lettered")],
         Answer(w, "clear"), UNCHANGED <<event, journal, job, dead, outside>>
  PROVE  Inv'
<1> DEFINE n == Unleased(delivery[d], "dead_lettered")
<1>1. /\ RowInv(d) /\ WorkerInv(w) /\ TypeOK
      /\ n \in Fields /\ n.status = "dead_lettered" /\ ~n.leased
      /\ n.channel = delivery[d].channel /\ n.attempts = delivery[d].attempts
      /\ n.claim_seq = delivery[d].claim_seq /\ n.retry_seq = delivery[d].retry_seq
  BY RowTyped, UnleasedIs DEF Inv, Statuses, Final
<1>2. n \in DeliveryRows
  <2> HIDE DEF n
  <2> QED BY <1>1, FieldsAreRow
<1>3. delivery' = [delivery EXCEPT ![d] = n]
  OBVIOUS
<1> HIDE DEF n
<1>4. /\ delivery' \in [Deliveries -> DeliveryRows] /\ delivery'[d] = n
      /\ \A e \in Deliveries : e # d => delivery'[e] = delivery[e]
  BY <1>1, <1>2, <1>3, RowSet
<1>5. UNCHANGED <<event, journal, job, dead, received, nonce>>
  BY DEF outside
<1>6. PICK pc \in {"clear", "retry"} : Goto(w, pc)
  BY DEF Answer
<1>7. /\ worker' \in [Workers -> [pc : Steps, d : Deliveries, seq : Seqs,
                                  claim : {0} \cup Claims, result : Results]]
      /\ \A v \in Workers : v # w => worker'[v] = worker[v]
      /\ worker'[w].d = d /\ worker'[w].pc = pc /\ worker'[w].seq = worker[w].seq
  BY <1>1, <1>6, Moved DEF Steps
<1>8. TypeOK'
  BY <1>1, <1>4, <1>5, <1>7 DEF TypeOK
<1>9. RowInv(d)'
  <2>1. /\ delivery'[d].status \in {"failed", "dead_lettered"}
        /\ delivery'[d].channel = delivery[d].channel
        /\ delivery'[d].attempts = delivery[d].attempts
        /\ delivery'[d].claim_seq = delivery[d].claim_seq
        /\ delivery'[d].retry_seq = delivery[d].retry_seq
    BY <1>1, <1>4
  <2>2. /\ event'[d] = event[d] /\ journal'[d] = journal[d] /\ received'[d] = received[d]
        /\ nonce'[d] = nonce[d] /\ job'[d] = job[d] /\ dead'[d] = dead[d]
    BY <1>5
  <2> QED BY <1>1, <2>1, <2>2, RowClosed
<1>10. ASSUME NEW v \in Workers PROVE Steady(v)
  <2>1. worker[v].d \in Deliveries /\ received[worker[v].d] \in Nat
    BY <1>1 DEF TypeOK
  <2>2. CASE worker[v].d = d
    BY <1>1, <1>4, <1>5, <2>1, <2>2 DEF Steady
  <2>3. CASE worker[v].d # d
    BY <1>4, <1>5, <2>1, <2>3 DEF Steady
  <2> QED BY <2>2, <2>3
<1>11. WorkerInv(w)'
  BY <1>1, <1>4, <1>5, <1>7 DEF WorkerInv, Busy
<1>12. OneBusy'
  <2>1. ~Busy(w)'
    BY <1>7 DEF Busy
  <2> QED BY <1>7, <2>1, BusyStays DEF Inv
<1> QED BY <1>4, <1>5, <1>7, <1>8, <1>9, <1>10, <1>11, <1>12, MoveKeeps

\* A new claim.
LEMMA ClaimNew ==
  ASSUME Inv, NEW w \in Workers, NEW d \in Deliveries, worker[w].d = d, worker[w].pc = "claim",
         delivery[d].status \in {"pending", "retry_scheduled"},
         delivery[d].attempts < MaxAttempts,
         delivery' = [delivery EXCEPT ![d] = Claimed(delivery[d])],
         NEW c, c = delivery[d].claim_seq + 1,
         journal' = [journal EXCEPT ![d][c] = "claimed"],
         \/ worker' = [worker EXCEPT ![w].pc = "reserve", ![w].claim = c]
         \/ Goto(w, "retry"),
         UNCHANGED <<event, job, dead, outside>>
  PROVE  Inv'
<1> DEFINE n == Claimed(delivery[d])
<1>1. /\ TypeOK /\ OneBusy /\ WorkerInv(w) /\ RowInv(d)
      /\ SeqInv(d) /\ JournalInv(d) /\ ReceiptInv(d) /\ JobInv(d)
      /\ delivery[d] \in Fields /\ delivery[d].attempts \in 0 .. MaxAttempts
      /\ delivery[d].claim_seq \in {0} \cup Claims /\ delivery[d].retry_seq \in Seqs
  BY RowTyped DEF Inv, RowInv
<1>2. event[d]
  BY <1>1 DEF SeqInv
<1>3. c \in Claims /\ delivery[d].attempts + 1 \in 0 .. MaxAttempts
  BY <1>1, DeliveryAssumption DEF SeqInv, Claims, Seqs
<1>4. /\ n \in Fields /\ n.status = "sending" /\ n.leased
      /\ n.channel = delivery[d].channel /\ n.attempts = delivery[d].attempts + 1
      /\ n.claim_seq = c /\ n.retry_seq = delivery[d].retry_seq
  BY <1>1, <1>3, ClaimedIs
<1>5. delivery' = [delivery EXCEPT ![d] = n]
  OBVIOUS
<1> HIDE DEF n
<1>6. n \in DeliveryRows
  BY <1>4, FieldsAreRow
<1>7. /\ delivery' \in [Deliveries -> DeliveryRows] /\ delivery'[d] = n
      /\ \A e \in Deliveries : e # d => delivery'[e] = delivery[e]
  BY <1>1, <1>5, <1>6, RowSet
<1>8. /\ journal' \in [Deliveries -> [Claims -> Attempts]]
      /\ \A i \in Claims : journal'[d][i] = IF i = c THEN "claimed" ELSE journal[d][i]
      /\ \A e \in Deliveries : e # d => journal'[e] = journal[e]
  <2>1. "claimed" \in Attempts /\ TypeOK /\ c \in Claims
    BY <1>1, <1>3 DEF Attempts
  <2>2. journal \in [Deliveries -> [Claims -> Attempts]] /\ journal[d] \in [Claims -> Attempts]
    BY <2>1 DEF TypeOK
  <2> DEFINE row == [journal[d] EXCEPT ![c] = "claimed"]
  <2>3. row \in [Claims -> Attempts]
    BY <2>1, <2>2
  <2>4. \A i \in Claims : row[i] = IF i = c THEN "claimed" ELSE journal[d][i]
    BY <2>1, <2>2
  <2>5. journal' = [journal EXCEPT ![d] = row]
    OBVIOUS
  <2> HIDE DEF row
  <2> QED BY <2>2, <2>3, <2>4, <2>5
<1>9. /\ worker' \in [Workers -> [pc : Steps, d : Deliveries, seq : Seqs,
                                  claim : {0} \cup Claims, result : Results]]
      /\ \A v \in Workers : v # w => worker'[v] = worker[v]
      /\ worker'[w].d = d /\ worker'[w].seq = worker[w].seq
      /\ \/ worker'[w].pc = "reserve" /\ worker'[w].claim = c
         \/ worker'[w].pc = "retry"
  <2>1. CASE Goto(w, "retry")
    BY <1>1, <2>1, Moved DEF Steps
  <2>2. CASE worker' = [worker EXCEPT ![w].pc = "reserve", ![w].claim = c]
    <3>1. worker[w] \in [pc : Steps, d : Deliveries, seq : Seqs,
                         claim : {0} \cup Claims, result : Results]
      BY <1>1 DEF TypeOK
    <3> DEFINE new == [worker[w] EXCEPT !.pc = "reserve", !.claim = c]
    <3>2. /\ new \in [pc : Steps, d : Deliveries, seq : Seqs,
                      claim : {0} \cup Claims, result : Results]
          /\ new.d = d /\ new.seq = worker[w].seq /\ new.pc = "reserve" /\ new.claim = c
      BY <1>3, <3>1 DEF Steps
    <3>3. worker' = [worker EXCEPT ![w] = new]
      BY <2>2
    <3> HIDE DEF new
    <3> QED BY <1>1, <3>2, <3>3 DEF TypeOK
  <2> QED BY <2>1, <2>2
<1>10. UNCHANGED <<event, job, dead, received, nonce>>
  BY DEF outside
<1>11. TypeOK'
  BY <1>1, <1>7, <1>8, <1>9, <1>10 DEF TypeOK
<1>12. RowInv(d)'
  <2>1. SeqInv(d)'
    BY <1>1, <1>2, <1>4, <1>7, <1>10, DeliveryAssumption DEF SeqInv, Seqs
  <2>2. JobInv(d)'
    BY <1>1, <1>2, <1>4, <1>7, <1>10, DeliveryAssumption DEF JobInv, Seqs
  <2>3. ReceiptInv(d)'
    BY <1>1, <1>4, <1>7, <1>10 DEF ReceiptInv
  <2>4. JournalInv(d)'
    <3>1. journal[d][c] = "none"
      BY <1>1, <1>3, DeliveryAssumption DEF JournalInv, Claims
    <3>2. Counted(d)' = Counted(d) \cup {c} /\ c \notin Counted(d)
      BY <1>3, <1>8, <3>1 DEF Counted
    <3>3. Cardinality(Counted(d)') = delivery'[d].attempts
      <4>1. Cardinality(Counted(d) \cup {c}) = Cardinality(Counted(d)) + 1
        BY <3>2, FS_AddElement, ClaimsAreFinite
      <4> QED BY <1>1, <1>4, <1>7, <3>2, <4>1 DEF JournalInv
    <3>4. \A i \in Claims : i > delivery'[d].claim_seq => journal'[d][i] = "none"
      BY <1>1, <1>3, <1>4, <1>7, <1>8, DeliveryAssumption DEF JournalInv, Claims
    <3>5. \A i \in Claims : journal'[d][i] = "claimed" <=> i = c
      BY <1>1, <1>8 DEF JournalInv
    <3>6. \A i \in Claims : journal'[d][i] \in {"none", "deferred", "retryable", "claimed"}
      BY <1>1, <1>8 DEF JournalInv
    <3> QED BY <1>4, <1>7, <3>3, <3>4, <3>5, <3>6 DEF JournalInv
  <2> QED BY <2>1, <2>2, <2>3, <2>4 DEF RowInv
<1>13. ASSUME NEW v \in Workers, v # w PROVE Steady(v) /\ ~(Busy(v) /\ worker[v].d = d)
  <2>1. worker[v].d \in Deliveries /\ received[worker[v].d] \in Nat /\ WorkerInv(v)
    BY DEF Inv, TypeOK
  <2>2. CASE worker[v].d = d
    <3>1. ~Busy(v)
      BY <1>2, <2>1, <2>2 DEF WorkerInv
    <3> QED BY <1>4, <1>7, <1>10, <2>1, <2>2, <3>1 DEF Steady
  <2>3. CASE worker[v].d # d
    BY <1>7, <1>10, <2>1, <2>3 DEF Steady
  <2> QED BY <2>2, <2>3
<1>14. WorkerInv(w)'
  <2>1. delivery[d].channel = "telegram" => ~(received[d] >= 1)
    BY <1>1, <1>2 DEF ReceiptInv
  <2>2. job[d][worker[w].seq].state # "none"
    BY <1>1 DEF WorkerInv
  <2> QED BY <1>3, <1>4, <1>7, <1>9, <1>10, <2>1, <2>2 DEF WorkerInv, Busy
<1>15. OneBusy'
  <2>1. \A v \in Workers : v # w => (Busy(v)' <=> Busy(v)) /\ worker'[v].d = worker[v].d
    BY <1>9 DEF Busy
  <2> QED BY <1>1, <1>9, <1>13, <2>1 DEF OneBusy
<1> QED BY <1>7, <1>8, <1>9, <1>10, <1>11, <1>12, <1>13, <1>14, <1>15, MoveKeeps

\* The three outcomes of a claim.
LEMMA ClaimKeeps ==
  ASSUME Inv, NEW w \in Workers, Claim(w)
  PROVE  Inv'
<1> DEFINE r == delivery[worker[w].d]
<1>1. PICK d \in Deliveries : worker[w].d = d
  BY DEF Inv, TypeOK
<1>2. worker[w].pc = "claim" /\ UNCHANGED <<event, job, dead, outside>>
  BY DEF Claim
<1>3. CASE ~Open(r) /\ Answer(w, "clear") /\ UNCHANGED <<delivery, journal>>
  BY <1>1, <1>2, <1>3, ClaimShut DEF tables
<1>4. CASE /\ Open(r) /\ r.status = "sending"
           /\ journal' = [journal EXCEPT ![worker[w].d][r.claim_seq] = "ambiguous"]
           /\ delivery' = [delivery EXCEPT ![worker[w].d] = Unleased(r, "ambiguous")]
           /\ Answer(w, "clear")
  BY <1>1, <1>2, <1>4, ClaimLost
<1>5. CASE /\ Open(r) /\ r.status # "sending" /\ r.attempts >= MaxAttempts
           /\ delivery' = [delivery EXCEPT ![worker[w].d] = Unleased(r, "dead_lettered")]
           /\ Answer(w, "clear") /\ UNCHANGED journal
  <2>1. r.status \in {"pending", "retry_scheduled"}
    BY <1>5 DEF Open
  <2> QED BY <1>1, <1>2, <1>5, <2>1, ClaimDead
<1>6. CASE /\ Open(r) /\ r.status # "sending" /\ r.attempts < MaxAttempts
           /\ delivery' = [delivery EXCEPT ![worker[w].d] = Claimed(r)]
           /\ journal' = [journal EXCEPT ![worker[w].d][r.claim_seq + 1] = "claimed"]
           /\ \/ worker' = [worker EXCEPT ![w].pc = "reserve", ![w].claim = r.claim_seq + 1]
              \/ Goto(w, "retry")
  <2>1. r.status \in {"pending", "retry_scheduled"}
    BY <1>6 DEF Open
  <2> QED BY <1>1, <1>2, <1>6, <2>1, ClaimNew
<1> QED BY <1>3, <1>4, <1>5, <1>6 DEF Claim, Claimed

-----------------------------------------------------------------------------
(* The holder of a lease ends its attempt.                                 *)

\* While it has its claim, the attempt it makes is the one in the journal.
LEMMA HolderIs ==
  ASSUME Inv, NEW w \in Workers, NEW d \in Deliveries, worker[w].d = d, Busy(w),
         delivery[d].status = "sending"
  PROVE  /\ event[d] /\ delivery[d].claim_seq \in Claims
         /\ worker[w].claim = delivery[d].claim_seq
         /\ delivery[d].claim_seq = delivery[d].retry_seq + 1
         /\ delivery[d].retry_seq + 1 \in Seqs
         /\ delivery[d].attempts - 1 \in 0 .. MaxAttempts
         /\ delivery[d].retry_seq < delivery[d].attempts + MaxDefers
         /\ journal[d][delivery[d].claim_seq] = "claimed"
<1>1. /\ WorkerInv(w) /\ SeqInv(d) /\ JournalInv(d)
      /\ delivery[d].attempts \in 0 .. MaxAttempts /\ delivery[d].retry_seq \in Seqs
      /\ delivery[d].claim_seq \in {0} \cup Claims
  BY RowTyped DEF Inv, RowInv
<1>2. event[d] /\ worker[w].claim = delivery[d].claim_seq /\ worker[w].claim \in Claims
  BY <1>1 DEF WorkerInv, SeqInv
<1>3. /\ delivery[d].claim_seq = delivery[d].retry_seq + 1
      /\ delivery[d].attempts >= 1 /\ delivery[d].retry_seq < delivery[d].attempts + MaxDefers
  BY <1>1 DEF SeqInv
<1>4. /\ delivery[d].retry_seq + 1 \in Seqs /\ delivery[d].attempts - 1 \in 0 .. MaxAttempts
  BY <1>1, <1>2, <1>3, DeliveryAssumption DEF Seqs, Claims
<1>5. journal[d][delivery[d].claim_seq] = "claimed"
  BY <1>1, <1>2 DEF JournalInv
<1> QED BY <1>2, <1>3, <1>4, <1>5

\* The holder of the claim ends it; no other worker has one.
LEMMA HolderEnds ==
  ASSUME Inv, NEW w \in Workers, NEW d \in Deliveries, worker[w].d = d, Busy(w),
         delivery[d].status = "sending", event[d],
         NEW n \in DeliveryRows, delivery' = [delivery EXCEPT ![d] = n],
         n.channel = delivery[d].channel, n.status \notin {"none", "pending", "sending"},
         journal' \in [Deliveries -> [Claims -> Attempts]],
         \A e \in Deliveries : e # d => journal'[e] = journal[e],
         NEW pc \in {"clear", "bury", "retry"}, Goto(w, pc),
         UNCHANGED <<event, job, dead, outside>>,
         RowInv(d)'
  PROVE  Inv'
<1>1. TypeOK /\ OneBusy /\ WorkerInv(w)
  BY DEF Inv
<1>2. /\ delivery' \in [Deliveries -> DeliveryRows] /\ delivery'[d] = n
      /\ \A e \in Deliveries : e # d => delivery'[e] = delivery[e]
  BY <1>1, RowSet
<1>3. /\ worker' \in [Workers -> [pc : Steps, d : Deliveries, seq : Seqs,
                                  claim : {0} \cup Claims, result : Results]]
      /\ \A v \in Workers : v # w => worker'[v] = worker[v]
      /\ worker'[w].d = d /\ worker'[w].pc = pc /\ worker'[w].seq = worker[w].seq
  BY <1>1, Moved DEF Steps
<1>4. UNCHANGED <<event, job, dead, received, nonce>>
  BY DEF outside
<1>5. TypeOK'
  BY <1>1, <1>2, <1>3, <1>4 DEF TypeOK
<1>6. ASSUME NEW v \in Workers, v # w PROVE Steady(v)
  <2>1. worker[v].d \in Deliveries /\ received[worker[v].d] \in Nat
    BY <1>1 DEF TypeOK
  <2>2. CASE worker[v].d = d
    <3>1. ~Busy(v)
      BY <1>1, <1>6, <2>2 DEF OneBusy
    <3> QED BY <1>2, <1>4, <2>1, <2>2, <3>1 DEF Steady
  <2>3. CASE worker[v].d # d
    BY <1>2, <1>4, <2>1, <2>3 DEF Steady
  <2> QED BY <2>2, <2>3
<1>7. WorkerInv(w)' /\ ~Busy(w)'
  BY <1>1, <1>2, <1>3, <1>4 DEF WorkerInv, Busy
<1>8. OneBusy'
  BY <1>1, <1>3, <1>7, BusyStays
<1> QED BY <1>2, <1>3, <1>4, <1>5, <1>6, <1>7, <1>8, MoveKeeps

\* The answer for one that has no lease any more.
LEMMA HolderLate ==
  ASSUME Inv, NEW w \in Workers, Busy(w), Answer(w, "clear"),
         UNCHANGED <<tables, job, dead, outside>>
  PROVE  Inv'
<1>1. PICK pc \in {"clear", "retry"} : Goto(w, pc)
  BY DEF Answer
<1>2. WorkerInv(w)
  BY DEF Inv
<1>3. event[worker[w].d] => delivery[worker[w].d].status \notin {"none", "pending"}
  BY <1>2 DEF WorkerInv
<1>4. worker[w].pc # "idle"
  BY DEF Busy
<1> QED BY <1>1, <1>3, <1>4, WalkOnly DEF Steps

\* The holder gives its claim back, for later.
LEMMA DeferKeeps ==
  ASSUME Inv, NEW w \in Workers, NEW d \in Deliveries, worker[w].d = d, DeferClaim(w)
  PROVE  Inv'
<1> DEFINE r == delivery[d]
           n == [Unleased(r, "retry_scheduled") EXCEPT !.attempts = @ - 1, !.retry_seq = @ + 1]
           c == worker[w].claim
<1>1. /\ worker[w].pc = "defer" /\ Busy(w) /\ Answer(w, "clear")
      /\ UNCHANGED <<event, job, dead, outside>> /\ TypeOK
  BY DEF DeferClaim, Busy, Inv
<1>2. CASE UNCHANGED <<delivery, journal>>
  BY <1>1, <1>2, HolderLate DEF tables
<1>3. CASE /\ Holds(w) /\ delivery' = [delivery EXCEPT ![d] = n]
           /\ journal' = [journal EXCEPT ![d][c] = "deferred"]
  <2>1. r.status = "sending"
    BY <1>3 DEF Holds
  <2>2. /\ event[d] /\ c \in Claims /\ c = r.claim_seq
        /\ r.claim_seq = r.retry_seq + 1 /\ r.retry_seq + 1 \in Seqs
        /\ r.attempts - 1 \in 0 .. MaxAttempts /\ journal[d][c] = "claimed"
    BY <1>1, <2>1, HolderIs
  <2>3. /\ SeqInv(d) /\ JournalInv(d) /\ ReceiptInv(d) /\ JobInv(d) /\ WorkerInv(w)
        /\ r \in Fields /\ r.attempts \in 0 .. MaxAttempts /\ r.retry_seq \in Seqs
    BY <1>1, RowTyped DEF Inv, RowInv
  <2>4. /\ n \in Fields /\ n.status = "retry_scheduled" /\ ~n.leased
        /\ n.channel = r.channel /\ n.attempts = r.attempts - 1
        /\ n.claim_seq = r.claim_seq /\ n.retry_seq = r.retry_seq + 1
    <3> DEFINE u == Unleased(r, "retry_scheduled")
    <3>1. /\ u \in Fields /\ u.status = "retry_scheduled" /\ ~u.leased
          /\ u.channel = r.channel /\ u.attempts = r.attempts
          /\ u.claim_seq = r.claim_seq /\ u.retry_seq = r.retry_seq
      BY <2>3, UnleasedIs DEF Statuses
    <3>2. n = [u EXCEPT !.attempts = @ - 1, !.retry_seq = @ + 1]
      OBVIOUS
    <3> HIDE DEF u, n
    <3> QED BY <2>2, <3>1, <3>2, DeferredIs
  <2>5. delivery' = [delivery EXCEPT ![d] = n] /\ journal' = [journal EXCEPT ![d][c] = "deferred"]
    BY <1>3
  <2> HIDE DEF n
  <2>6. n \in DeliveryRows
    BY <2>4, FieldsAreRow
  <2>7. /\ delivery'[d] = n
    BY <1>1, <2>5, <2>6, RowSet
  <2>8. /\ journal' \in [Deliveries -> [Claims -> Attempts]]
        /\ \A i \in Claims : journal'[d][i] = IF i = c THEN "deferred" ELSE journal[d][i]
        /\ \A e \in Deliveries : e # d => journal'[e] = journal[e]
    BY <1>1, <2>2, <2>5, JournalSet DEF Attempts
  <2>9. UNCHANGED <<event, job, dead, received, nonce>>
    BY <1>1 DEF outside
  <2>10. r.retry_seq - (r.attempts - 1) < MaxDefers
    BY <1>1, <2>1, <2>3 DEF WorkerInv, Defers
  <2>11. SeqInv(d)'
    BY <2>2, <2>3, <2>4, <2>7, <2>9, <2>10, DeliveryAssumption DEF SeqInv, Seqs
  <2>12. JobInv(d)'
    BY <2>2, <2>3, <2>4, <2>7, <2>9 DEF JobInv, Seqs
  <2>13. ReceiptInv(d)'
    <3>1. r.channel = "telegram" => ~(received[d] >= 1)
      BY <1>1, <2>3 DEF WorkerInv
    <3> QED BY <2>3, <2>4, <2>7, <2>9, <3>1 DEF ReceiptInv
  <2>14. JournalInv(d)'
    <3>1. Counted(d)' = Counted(d) \ {c} /\ c \in Counted(d)
      BY <2>2, <2>8 DEF Counted
    <3>2. Cardinality(Counted(d) \ {c}) = Cardinality(Counted(d)) - 1
      BY <3>1, FS_RemoveElement, ClaimsAreFinite
    <3>3. Cardinality(Counted(d)') = delivery'[d].attempts
      BY <2>3, <2>4, <2>7, <3>1, <3>2 DEF JournalInv
    <3>4. \A i \in Claims : i > delivery'[d].claim_seq => journal'[d][i] = "none"
      BY <2>2, <2>3, <2>4, <2>7, <2>8 DEF JournalInv, Claims
    <3>5. \A i \in Claims : journal'[d][i] # "claimed"
      BY <2>2, <2>3, <2>8 DEF JournalInv
    <3>6. \A i \in Claims : journal'[d][i] \in {"none", "deferred", "retryable", "claimed"}
      BY <2>1, <2>3, <2>8 DEF JournalInv
    <3> QED BY <2>4, <2>7, <3>3, <3>4, <3>5, <3>6 DEF JournalInv
  <2>15. RowInv(d)'
    BY <2>11, <2>12, <2>13, <2>14 DEF RowInv
  <2>16. PICK pc \in {"clear", "bury", "retry"} : Goto(w, pc)
    BY <1>1 DEF Answer
  <2>17. /\ event[d] /\ n.channel = delivery[d].channel
         /\ n.status \notin {"none", "pending", "sending"}
         /\ journal' \in [Deliveries -> [Claims -> Attempts]]
         /\ \A e \in Deliveries : e # d => journal'[e] = journal[e]
    BY <2>2, <2>4, <2>8
  <2>18. Busy(w) /\ UNCHANGED <<event, job, dead, outside>>
    BY <1>1
  <2>19. delivery' = [delivery EXCEPT ![d] = n]
    BY <2>5
  <2> HIDE DEF c
  <2> QED BY <2>1, <2>6, <2>15, <2>16, <2>17, <2>18, <2>19, HolderEnds
<1>4. \/ UNCHANGED <<delivery, journal>>
      \/ /\ Holds(w) /\ delivery' = [delivery EXCEPT ![d] = n]
         /\ journal' = [journal EXCEPT ![d][c] = "deferred"]
  <2> DEFINE m == [Unleased(delivery[worker[w].d], "retry_scheduled")
                     EXCEPT !.attempts = @ - 1, !.retry_seq = @ + 1]
  <2>1. \/ UNCHANGED <<delivery, journal>>
        \/ /\ Holds(w) /\ delivery' = [delivery EXCEPT ![worker[w].d] = m]
           /\ journal' = [journal EXCEPT ![worker[w].d][c] = "deferred"]
    BY DEF DeferClaim
  <2>2. m = n
    OBVIOUS
  <2> HIDE DEF m, n
  <2> QED BY <2>1, <2>2
<1> QED BY <1>2, <1>3, <1>4

\* The holder records what the provider answered.
LEMMA ApplyKeeps ==
  ASSUME Inv, NEW w \in Workers, NEW d \in Deliveries, worker[w].d = d, ApplyProviderResult(w)
  PROVE  Inv'
<1> DEFINE r == delivery[d]
           res == worker[w].result
           n == Applied(r, res)
           x == IF res = "unknown" THEN "ambiguous" ELSE res
           c == worker[w].claim
<1>1. /\ worker[w].pc = "apply" /\ Busy(w) /\ TypeOK
      /\ UNCHANGED <<event, job, dead, outside>>
  BY DEF ApplyProviderResult, Busy, Inv
<1>2. CASE Answer(w, "clear") /\ UNCHANGED <<delivery, journal>>
  BY <1>1, <1>2, HolderLate DEF tables
<1>3. ASSUME Holds(w), delivery' = [delivery EXCEPT ![d] = n],
             journal' = [journal EXCEPT ![d][c] = x],
             NEW pc \in {"clear", "bury", "retry"}, Goto(w, pc)
      PROVE  Inv'
  <2>1. r.status = "sending"
    BY <1>3 DEF Holds
  <2>2. /\ event[d] /\ c \in Claims /\ c = r.claim_seq
        /\ r.claim_seq = r.retry_seq + 1 /\ r.retry_seq + 1 \in Seqs
        /\ r.retry_seq < r.attempts + MaxDefers /\ journal[d][c] = "claimed"
    BY <1>1, <2>1, HolderIs
  <2>3. /\ SeqInv(d) /\ JournalInv(d) /\ ReceiptInv(d) /\ JobInv(d) /\ WorkerInv(w)
        /\ r \in Fields /\ r.attempts \in 0 .. MaxAttempts /\ r.retry_seq \in Seqs
        /\ res \in Results
    BY <1>1, RowTyped DEF Inv, RowInv, TypeOK
  <2>4. res \in {"accepted", "unknown", "retryable", "permanent"}
    BY <1>1, <2>3 DEF WorkerInv, Results
  <2>5. /\ n \in Fields /\ n.status = After(r, res) /\ ~n.leased
        /\ n.channel = r.channel /\ n.attempts = r.attempts
        /\ n.claim_seq = r.claim_seq
        /\ n.retry_seq = IF Refused(res) THEN r.retry_seq + 1 ELSE r.retry_seq
    <3> HIDE DEF r, res
    <3> QED BY <2>2, <2>3, AppliedIs
  <2>6. delivery' = [delivery EXCEPT ![d] = n] /\ journal' = [journal EXCEPT ![d][c] = x]
    BY <1>3
  <2>7. x \in Attempts \ {"none", "deferred", "claimed"}
    BY <2>4 DEF Attempts
  <2>8. n.status \in {"sent", "ambiguous", "failed", "dead_lettered", "retry_scheduled"}
    BY <2>5 DEF After
  <2> HIDE DEF n, x
  <2>9. n \in DeliveryRows
    BY <2>5, <2>8, FieldsAreRow
  <2>10. delivery'[d] = n
    BY <1>1, <2>6, <2>9, RowSet
  <2>11. /\ journal' \in [Deliveries -> [Claims -> Attempts]]
         /\ \A i \in Claims : journal'[d][i] = IF i = c THEN x ELSE journal[d][i]
         /\ \A e \in Deliveries : e # d => journal'[e] = journal[e]
    BY <1>1, <2>2, <2>6, <2>7, JournalSet
  <2>12. UNCHANGED <<event, job, dead, received, nonce>>
    BY <1>1 DEF outside
  <2>13. n.status = "retry_scheduled" => Refused(res)
    BY <2>5 DEF After, Refused
  <2>14. SeqInv(d)'
    BY <2>2, <2>3, <2>5, <2>8, <2>10, <2>12, <2>13, DeliveryAssumption DEF SeqInv, Seqs
  <2>15. JobInv(d)'
    <3>1. \A s \in Seqs : job[d][s].state # "none" => s <= r.retry_seq
      BY <2>2, <2>3 DEF JobInv
    <3>2. /\ r.retry_seq <= n.retry_seq
          /\ n.status = "retry_scheduled" => n.retry_seq = r.retry_seq + 1
      BY <2>3, <2>5, <2>13 DEF Seqs
    <3>3. r.retry_seq \in Int /\ n.retry_seq \in Int /\ \A s \in Seqs : s \in Int
      BY <2>3, <2>5 DEF Seqs, Fields
    <3>4. \A s \in Seqs : job'[d][s].state # "none" =>
            s <= n.retry_seq /\ (n.status = "retry_scheduled" => s < n.retry_seq)
      BY <2>12, <3>1, <3>2, <3>3
    <3> QED BY <2>8, <2>10, <3>4 DEF JobInv
  <2>16. ReceiptInv(d)'
    <3>1. n.status = "sent" => received[d] >= 1
      BY <1>1, <2>3, <2>4, <2>5 DEF WorkerInv, After
    <3>2. r.channel = "telegram" /\ received[d] >= 1 => n.status \in {"sent", "ambiguous"}
      BY <1>1, <2>3, <2>4, <2>5 DEF WorkerInv, After
    <3> QED BY <2>3, <2>5, <2>10, <2>12, <3>1, <3>2 DEF ReceiptInv
  <2>17. JournalInv(d)'
    <3>1. Counted(d)' = Counted(d)
      BY <2>2, <2>7, <2>11 DEF Counted
    <3>2. Cardinality(Counted(d)') = delivery'[d].attempts
      BY <2>3, <2>5, <2>10, <3>1 DEF JournalInv
    <3>3. \A i \in Claims : i > delivery'[d].claim_seq => journal'[d][i] = "none"
      BY <2>2, <2>3, <2>5, <2>10, <2>11 DEF JournalInv, Claims
    <3>4. \A i \in Claims : journal'[d][i] # "claimed"
      BY <2>2, <2>3, <2>7, <2>11 DEF JournalInv
    <3>5. n.status \in {"retry_scheduled", "dead_lettered"} =>
            \A i \in Claims : journal'[d][i] \in {"none", "deferred", "retryable", "claimed"}
      <4>1. n.status \in {"retry_scheduled", "dead_lettered"} => x = "retryable"
        BY <2>4, <2>5 DEF After, x
      <4> QED BY <2>1, <2>3, <2>11, <4>1 DEF JournalInv
    <3>6. n.status = "dead_lettered" => n.attempts = MaxAttempts
      BY <2>3, <2>4, <2>5, DeliveryAssumption DEF After
    <3> QED BY <2>8, <2>10, <3>2, <3>3, <3>4, <3>5, <3>6 DEF JournalInv
  <2>18. RowInv(d)'
    BY <2>14, <2>15, <2>16, <2>17 DEF RowInv
  <2>19. /\ event[d] /\ n.channel = delivery[d].channel
         /\ n.status \notin {"none", "pending", "sending"}
         /\ journal' \in [Deliveries -> [Claims -> Attempts]]
         /\ \A e \in Deliveries : e # d => journal'[e] = journal[e]
    BY <2>2, <2>5, <2>8, <2>11
  <2>20. Busy(w) /\ UNCHANGED <<event, job, dead, outside>>
    BY <1>1
  <2>21. delivery' = [delivery EXCEPT ![d] = n] /\ Goto(w, pc)
    BY <1>3, <2>6
  <2> HIDE DEF c
  <2> QED BY <2>1, <2>9, <2>18, <2>19, <2>20, <2>21, HolderEnds
<1>4. \/ Answer(w, "clear") /\ UNCHANGED <<delivery, journal>>
      \/ /\ Holds(w) /\ delivery' = [delivery EXCEPT ![d] = n]
         /\ journal' = [journal EXCEPT ![d][c] = x]
         /\ \E pc \in {"clear", "bury", "retry"} : Goto(w, pc)
  <2> DEFINE m == Applied(delivery[worker[w].d], res)
  <2>1. \/ Answer(w, "clear") /\ UNCHANGED <<delivery, journal>>
        \/ /\ Holds(w) /\ delivery' = [delivery EXCEPT ![worker[w].d] = m]
           /\ journal' = [journal EXCEPT ![worker[w].d][c] = x]
           /\ \E pc \in {"clear", "bury", "retry"} : Goto(w, pc)
    BY DEF ApplyProviderResult, Answer
  <2>2. m = n
    OBVIOUS
  <2> HIDE DEF m, n
  <2> QED BY <2>1, <2>2
<1> QED BY <1>2, <1>3, <1>4

\* A call of the provider that answers with res: the recipient has one message
\* more, on Discord unless it knows the nonce, or has none more.
LEMMA SendAnswers ==
  ASSUME Inv, NEW w \in Workers, NEW d \in Deliveries, worker[w].d = d, worker[w].pc = "send",
         NEW res \in Results \ {"none"}, Result(w, res),
         \/ Reach(d)
         \/ UNCHANGED <<received, nonce>> /\ res # "accepted",
         delivery[d].channel = "telegram" /\ Reach(d) => res \in {"accepted", "unknown"},
         UNCHANGED <<tables, job, dead>>
  PROVE  Inv'
<1>1. /\ TypeOK /\ OneBusy /\ WorkerInv(w) /\ RowInv(d) /\ ReceiptInv(d)
      /\ received[d] \in Nat /\ nonce[d] \in [known : BOOLEAN, forgotten : 0 .. MaxForgets]
      /\ delivery[d].channel \in {"telegram", "discord"} /\ Busy(w)
  BY RowTyped DEF Inv, RowInv, TypeOK, Channels, Busy
<1>2. UNCHANGED <<event, delivery, journal, job, dead>>
  BY DEF tables
<1>3. /\ worker' \in [Workers -> [pc : Steps, d : Deliveries, seq : Seqs,
                                  claim : {0} \cup Claims, result : Results]]
      /\ \A v \in Workers : v # w => worker'[v] = worker[v]
      /\ worker'[w].d = d /\ worker'[w].seq = worker[w].seq /\ worker'[w].claim = worker[w].claim
      /\ worker'[w].pc = "apply" /\ worker'[w].result = res
  <2> DEFINE new == [worker[w] EXCEPT !.pc = "apply", !.result = res]
  <2>1. worker[w] \in [pc : Steps, d : Deliveries, seq : Seqs,
                       claim : {0} \cup Claims, result : Results]
    BY <1>1 DEF TypeOK
  <2>2. /\ new \in [pc : Steps, d : Deliveries, seq : Seqs,
                    claim : {0} \cup Claims, result : Results]
        /\ new.d = d /\ new.seq = worker[w].seq /\ new.claim = worker[w].claim
        /\ new.pc = "apply" /\ new.result = res
    BY <2>1 DEF Steps
  <2>3. worker' = [worker EXCEPT ![w] = new]
    BY DEF Result
  <2> HIDE DEF new
  <2> QED BY <1>1, <2>2, <2>3 DEF TypeOK
<1>4. delivery[d].channel = "telegram" => received[d] = 0
  BY <1>1 DEF WorkerInv
<1>5. /\ received' \in [Deliveries -> Nat]
      /\ nonce' \in [Deliveries -> [known : BOOLEAN, forgotten : 0 .. MaxForgets]]
      /\ \A e \in Deliveries : e # d => received'[e] = received[e] /\ nonce'[e] = nonce[e]
      /\ nonce'[d].forgotten = nonce[d].forgotten
      /\ delivery[d].channel = "telegram" => nonce'[d] = nonce[d]
      /\ received'[d] \in {received[d], received[d] + 1}
  <2>1. received \in [Deliveries -> Nat]
        /\ nonce \in [Deliveries -> [known : BOOLEAN, forgotten : 0 .. MaxForgets]]
    BY <1>1 DEF TypeOK
  <2>2. CASE UNCHANGED <<received, nonce>>
    BY <2>1, <2>2
  <2>3. CASE Reach(d)
    <3>1. CASE delivery[d].channel = "telegram"
      BY <1>1, <2>1, <2>3, <3>1 DEF Reach
    <3>2. CASE delivery[d].channel = "discord"
      <4> DEFINE got == IF nonce[d].known THEN received[d] ELSE received[d] + 1
                 mark == [nonce[d] EXCEPT !.known = TRUE]
      <4>1. got \in Nat /\ got \in {received[d], received[d] + 1}
        BY <1>1
      <4>2. /\ mark \in [known : BOOLEAN, forgotten : 0 .. MaxForgets]
            /\ mark.forgotten = nonce[d].forgotten
        BY <1>1
      <4>3. received' = [received EXCEPT ![d] = got] /\ nonce' = [nonce EXCEPT ![d] = mark]
        BY <2>3, <3>2 DEF Reach
      <4> HIDE DEF got, mark
      <4> QED BY <2>1, <3>2, <4>1, <4>2, <4>3
    <3> QED BY <1>1, <3>1, <3>2
  <2> QED BY <2>2, <2>3
<1>6. /\ delivery[d].channel = "telegram" => received'[d] <= 1
      /\ delivery[d].channel = "discord" =>
           received'[d] <= nonce'[d].forgotten + (IF nonce'[d].known THEN 1 ELSE 0)
      /\ nonce'[d].known => received'[d] >= 1
      /\ res = "accepted" => received'[d] >= 1
  <2>1. CASE UNCHANGED <<received, nonce>> /\ res # "accepted"
    BY <1>1, <2>1 DEF ReceiptInv
  <2>2. CASE Reach(d)
    <3>1. received \in [Deliveries -> Nat]
          /\ nonce \in [Deliveries -> [known : BOOLEAN, forgotten : 0 .. MaxForgets]]
      BY <1>1 DEF TypeOK
    <3>2. CASE delivery[d].channel = "telegram"
      BY <1>1, <1>4, <2>2, <3>1, <3>2 DEF Reach, ReceiptInv
    <3>3. CASE delivery[d].channel = "discord"
      <4>1. received'[d] = IF nonce[d].known THEN received[d] ELSE received[d] + 1
        BY <2>2, <3>1, <3>3 DEF Reach
      <4>2. nonce'[d].known
        BY <2>2, <3>1, <3>3 DEF Reach
      <4> QED BY <1>1, <1>5, <3>3, <4>1, <4>2 DEF ReceiptInv
    <3> QED BY <1>1, <3>2, <3>3
  <2> QED BY <2>1, <2>2
<1>7. TypeOK'
  BY <1>1, <1>2, <1>3, <1>5 DEF TypeOK
<1>8. event[d] => delivery[d].status \in {"sending", "ambiguous"}
  BY <1>1 DEF WorkerInv
<1>9. RowInv(d)'
  <2>1. SeqInv(d) /\ JournalInv(d) /\ JobInv(d)
    BY <1>1 DEF RowInv
  <2>2. SeqInv(d)' /\ JobInv(d)'
    BY <1>2, <2>1 DEF SeqInv, JobInv
  <2>3. JournalInv(d)'
    BY <1>2, <2>1 DEF JournalInv, Counted
  <2>4. ReceiptInv(d)'
    BY <1>2, <1>6, <1>8 DEF ReceiptInv
  <2> QED BY <2>2, <2>3, <2>4 DEF RowInv
<1>10. ASSUME NEW v \in Workers, v # w PROVE Steady(v)
  <2>1. worker[v].d \in Deliveries /\ received[worker[v].d] \in Nat
    BY <1>1 DEF TypeOK
  <2>2. CASE worker[v].d = d
    <3>1. ~Busy(v)
      BY <1>1, <1>10, <2>2 DEF OneBusy
    <3> QED BY <1>1, <1>2, <1>5, <2>1, <2>2, <3>1 DEF Steady
  <2>3. CASE worker[v].d # d
    BY <1>2, <1>5, <2>1, <2>3 DEF Steady
  <2> QED BY <2>2, <2>3
<1>11. WorkerInv(w)'
  <2>1. delivery[d].channel = "telegram" /\ received'[d] >= 1 => res \in {"accepted", "unknown"}
    <3>1. CASE UNCHANGED <<received, nonce>>
      BY <1>4, <3>1
    <3>2. CASE Reach(d)
      BY <3>2
    <3> QED BY <3>1, <3>2
  <2>2. /\ job[d][worker[w].seq].state # "none" /\ worker[w].claim \in Claims
        /\ event[d] => delivery[d].claim_seq = worker[w].claim
    BY <1>1 DEF WorkerInv
  <2> QED BY <1>2, <1>3, <1>6, <1>8, <2>1, <2>2 DEF WorkerInv, Busy
<1>12. OneBusy'
  BY <1>1, <1>3, BusyStays
<1> QED BY <1>2, <1>3, <1>5, <1>7, <1>9, <1>10, <1>11, <1>12, MoveKeeps

\* The provider is called.
LEMMA SendKeeps ==
  ASSUME Inv, NEW w \in Workers, NEW d \in Deliveries, worker[w].d = d, Send(w)
  PROVE  Inv'
<1>1. worker[w].pc = "send" /\ UNCHANGED <<tables, job, dead>>
  BY DEF Send
<1>2. /\ Unanswered(d) \in Results \ {"none"} /\ Unanswered(d) # "accepted"
      /\ delivery[d].channel = "telegram" => Unanswered(d) = "unknown"
  BY DEF Unanswered, Results
<1>3. CASE Reach(d) /\ \E res \in {"accepted", Unanswered(d)} : Result(w, res)
  <2>1. PICK res \in {"accepted", Unanswered(d)} : Result(w, res)
    BY <1>3
  <2>2. res \in Results \ {"none"}
    BY <1>2, <2>1 DEF Results
  <2>3. delivery[d].channel = "telegram" /\ Reach(d) => res \in {"accepted", "unknown"}
    BY <1>2, <2>1
  <2> QED BY <1>1, <1>3, <2>1, <2>2, <2>3, SendAnswers
<1>4. CASE /\ UNCHANGED <<received, nonce>>
           /\ \E res \in {Unanswered(d), "retryable", "permanent"} : Result(w, res)
  <2>1. PICK res \in {Unanswered(d), "retryable", "permanent"} : Result(w, res)
    BY <1>4
  <2>2. res \in Results \ {"none"} /\ res # "accepted"
    BY <1>2, <2>1 DEF Results
  <2>3. received[d] \in Nat /\ received \in [Deliveries -> Nat]
    BY DEF Inv, TypeOK
  <2>4. ~(delivery[d].channel = "telegram" /\ Reach(d))
    BY <1>4, <2>3 DEF Reach
  <2> QED BY <1>1, <1>4, <2>1, <2>2, <2>4, SendAnswers
<1> QED BY <1>3, <1>4 DEF Send

-----------------------------------------------------------------------------
(* The sweep.                                                              *)

\* A retry that is due is published again: the row is pending and has its job.
LEMMA RowAgain ==
  ASSUME TypeOK, NEW d \in Deliveries, RowInv(d), delivery[d].status = "retry_scheduled",
         delivery'[d].status = "pending", delivery'[d].channel = delivery[d].channel,
         delivery'[d].attempts = delivery[d].attempts,
         delivery'[d].claim_seq = delivery[d].claim_seq,
         delivery'[d].retry_seq = delivery[d].retry_seq,
         event'[d] = event[d], journal'[d] = journal[d], received'[d] = received[d],
         nonce'[d] = nonce[d], dead'[d] = dead[d],
         \A s \in Seqs : job'[d][s].state =
           IF s = delivery[d].retry_seq THEN "queued" ELSE job[d][s].state
  PROVE  RowInv(d)'
<1>1. /\ SeqInv(d) /\ JournalInv(d) /\ ReceiptInv(d) /\ JobInv(d)
      /\ delivery[d].retry_seq \in Seqs
  BY RowTyped DEF RowInv
<1>2. SeqInv(d)' /\ ReceiptInv(d)'
  BY <1>1 DEF SeqInv, ReceiptInv
<1>3. JournalInv(d)'
  BY <1>1 DEF JournalInv, Counted
<1>4. JobInv(d)'
  <2>1. job'[d][delivery[d].retry_seq].state = "queued"
    BY <1>1
  <2>2. delivery[d].retry_seq <= delivery[d].retry_seq
    BY <1>1 DEF Seqs
  <2>3. event[d] => \A s \in Seqs : job'[d][s].state # "none" => s <= delivery[d].retry_seq
    BY <1>1, <2>2 DEF JobInv
  <2> QED BY <1>1, <2>1, <2>3 DEF JobInv
<1> QED BY <1>2, <1>3, <1>4 DEF RowInv

\* The rows and the jobs a sweep leaves.
Swept(d, D) == LET r == delivery[d] IN
  CASE Lost(r) -> Unleased(r, "ambiguous")
    [] Waiting(r) /\ r.attempts >= MaxAttempts -> [r EXCEPT !.status = "dead_lettered"]
    [] d \in D -> [Unleased(r, "pending") EXCEPT !.due = FALSE]
    [] OTHER -> r

\* The fields of a row after the sweep.
LEMMA SweptIs ==
  ASSUME TypeOK, NEW d \in Deliveries, NEW D \in SUBSET Deliveries,
         d \in D => Waiting(delivery[d]) /\ delivery[d].attempts < MaxAttempts
  PROVE  LET r == delivery[d]  n == Swept(d, D) IN
         /\ n \in DeliveryRows
         /\ n.channel = r.channel /\ n.attempts = r.attempts
         /\ n.claim_seq = r.claim_seq /\ n.retry_seq = r.retry_seq
         /\ Lost(r) => n = Unleased(r, "ambiguous") /\ n.status = "ambiguous"
         /\ Waiting(r) /\ r.attempts >= MaxAttempts => n.status = "dead_lettered"
         /\ d \in D => n.status = "pending"
         /\ ~Lost(r) /\ ~(Waiting(r) /\ r.attempts >= MaxAttempts) /\ d \notin D => n = r
<1> DEFINE r == delivery[d]
           n == Swept(d, D)
<1>1. /\ r \in Fields /\ r \in DeliveryRows /\ r.attempts \in 0 .. MaxAttempts
      /\ (r.leased <=> r.status = "sending")
  BY RowTyped
<1>2. CASE Lost(r)
  <2>1. d \notin D /\ ~Waiting(r)
    BY <1>2 DEF Lost, Waiting
  <2>2. n = Unleased(r, "ambiguous")
    BY <1>2, <2>1 DEF Swept
  <2> HIDE DEF r
  <2>3. /\ n \in Fields /\ n.status = "ambiguous" /\ ~n.leased
        /\ n.channel = r.channel /\ n.attempts = r.attempts
        /\ n.claim_seq = r.claim_seq /\ n.retry_seq = r.retry_seq
    <3> HIDE DEF n
    <3> QED BY <1>1, <2>2, UnleasedIs DEF Statuses, Final
  <2> HIDE DEF n
  <2>4. n \in DeliveryRows
    BY <2>3, FieldsAreRow
  <2> QED BY <1>2, <2>2, <2>1, <2>3, <2>4 DEF n, r
<1>3. CASE Waiting(r) /\ r.attempts >= MaxAttempts
  <2>1. d \notin D /\ ~Lost(r) /\ ~r.leased
    BY <1>1, <1>3, DeliveryAssumption DEF Lost, Waiting
  <2>2. n = [r EXCEPT !.status = "dead_lettered"]
    BY <1>3, <2>1 DEF Swept
  <2> HIDE DEF r
  <2>3. /\ n \in Fields /\ n.status = "dead_lettered" /\ n.leased = r.leased
        /\ n.channel = r.channel /\ n.attempts = r.attempts
        /\ n.claim_seq = r.claim_seq /\ n.retry_seq = r.retry_seq
    <3> HIDE DEF n
    <3> QED BY <1>1, <2>2, StatusIs DEF Statuses, Final
  <2> HIDE DEF n
  <2>4. n \in DeliveryRows
    BY <2>1, <2>3, FieldsAreRow
  <2> QED BY <1>3, <2>1, <2>3, <2>4 DEF n, r
<1>4. CASE d \in D
  <2>1. ~Lost(r) /\ ~(Waiting(r) /\ r.attempts >= MaxAttempts)
    BY <1>1, <1>4, DeliveryAssumption DEF Lost, Waiting
  <2>2. n = [Unleased(r, "pending") EXCEPT !.due = FALSE]
    BY <1>4, <2>1 DEF Swept
  <2> DEFINE u == Unleased(r, "pending")
  <2>3. /\ u \in Fields /\ u.status = "pending" /\ ~u.leased
        /\ u.channel = r.channel /\ u.attempts = r.attempts
        /\ u.claim_seq = r.claim_seq /\ u.retry_seq = r.retry_seq
    <3> HIDE DEF r
    <3> QED BY <1>1, UnleasedIs DEF Statuses
  <2>4. n = [u EXCEPT !.due = FALSE]
    BY <2>2
  <2> HIDE DEF u, n, r
  <2>5. /\ n \in Fields /\ n.status = "pending" /\ ~n.leased
        /\ n.channel = r.channel /\ n.attempts = r.attempts
        /\ n.claim_seq = r.claim_seq /\ n.retry_seq = r.retry_seq
    BY <2>3, <2>4 DEF Fields
  <2>6. n \in DeliveryRows
    BY <2>5, FieldsAreRow
  <2> QED BY <1>4, <2>1, <2>5, <2>6 DEF n, r
<1>5. CASE ~Lost(r) /\ ~(Waiting(r) /\ r.attempts >= MaxAttempts) /\ d \notin D
  <2>1. n = r
    BY <1>5 DEF Swept
  <2> HIDE DEF n, r
  <2> QED BY <1>1, <1>5, <2>1 DEF n, r
<1> QED BY <1>2, <1>3, <1>4, <1>5

\* The sweep ends lost leases and makes the jobs of due retries.
LEMMA RepublishKeeps ==
  ASSUME Inv, NEW D \in SUBSET Deliveries, Republish(D)
  PROVE  Inv'
<1>1. /\ TypeOK /\ UNCHANGED <<event, dead, worker, received, nonce>>
      /\ \A d \in D : Waiting(delivery[d]) /\ delivery[d].attempts < MaxAttempts
  BY DEF Inv, Republish, outside
<1>2. /\ delivery' = [d \in Deliveries |-> Swept(d, D)]
      /\ journal' = [d \in Deliveries |->
           IF Lost(delivery[d])
           THEN [journal[d] EXCEPT ![delivery[d].claim_seq] = "ambiguous"] ELSE journal[d]]
      /\ job' = [d \in Deliveries |->
           IF d \in D THEN [job[d] EXCEPT ![delivery[d].retry_seq].state = "queued"] ELSE job[d]]
  BY DEF Republish, Swept
<1>3. ASSUME NEW d \in Deliveries
      PROVE  LET r == delivery[d]  n == delivery'[d] IN
             /\ n \in DeliveryRows
             /\ n.channel = r.channel /\ n.attempts = r.attempts
             /\ n.claim_seq = r.claim_seq /\ n.retry_seq = r.retry_seq
             /\ Lost(r) => n = Unleased(r, "ambiguous") /\ n.status = "ambiguous"
             /\ Waiting(r) /\ r.attempts >= MaxAttempts => n.status = "dead_lettered"
             /\ d \in D => n.status = "pending"
             /\ ~Lost(r) /\ ~(Waiting(r) /\ r.attempts >= MaxAttempts) /\ d \notin D => n = r
  <2>1. delivery'[d] = Swept(d, D)
    BY <1>2
  <2>2. d \in D => Waiting(delivery[d]) /\ delivery[d].attempts < MaxAttempts
    BY <1>1
  <2> QED BY <1>1, <1>3, <2>1, <2>2, SweptIs
<1>4. ASSUME NEW d \in Deliveries, Lost(delivery[d])
      PROVE  /\ delivery[d].claim_seq \in Claims
             /\ \A c \in Claims : journal'[d][c] =
                  IF c = delivery[d].claim_seq THEN "ambiguous" ELSE journal[d][c]
             /\ journal'[d] \in [Claims -> Attempts]
  <2>1. /\ SeqInv(d) /\ delivery[d].retry_seq \in Seqs
        /\ delivery[d].claim_seq \in {0} \cup Claims /\ delivery[d].status = "sending"
    BY <1>1, <1>4, RowTyped DEF Inv, RowInv, Lost
  <2>2. delivery[d].claim_seq \in Claims
    BY <2>1 DEF SeqInv, Seqs, Claims
  <2>3. journal[d] \in [Claims -> Attempts] /\ "ambiguous" \in Attempts
    BY <1>1 DEF TypeOK, Attempts
  <2>4. journal'[d] = [journal[d] EXCEPT ![delivery[d].claim_seq] = "ambiguous"]
    BY <1>2, <1>4
  <2> QED BY <2>2, <2>3, <2>4
<1>5. ASSUME NEW d \in Deliveries, ~Lost(delivery[d])
      PROVE  journal'[d] = journal[d]
  BY <1>2, <1>5
<1>6. ASSUME NEW d \in Deliveries
      PROVE  /\ job'[d] \in [Seqs -> Jobs]
             /\ \A s \in Seqs : job'[d][s].state =
                  IF d \in D /\ s = delivery[d].retry_seq THEN "queued" ELSE job[d][s].state
             /\ d \notin D => job'[d] = job[d]
  <2>1. job[d] \in [Seqs -> Jobs] /\ delivery[d].retry_seq \in Seqs
    BY <1>1, RowTyped DEF TypeOK
  <2>2. CASE d \in D
    <3> DEFINE new == [job[d][delivery[d].retry_seq] EXCEPT !.state = "queued"]
    <3>1. new \in Jobs /\ new.state = "queued"
      <4>1. job[d][delivery[d].retry_seq] \in Jobs
        BY <2>1
      <4>2. \A j \in Jobs : [j EXCEPT !.state = "queued"] \in Jobs
                            /\ [j EXCEPT !.state = "queued"].state = "queued"
        BY DEF Jobs
      <4> QED BY <4>1, <4>2
    <3>2. job'[d] = [job[d] EXCEPT ![delivery[d].retry_seq] = new]
      BY <1>2, <2>2
    <3> HIDE DEF new
    <3> QED BY <2>1, <2>2, <3>1, <3>2
  <2>3. CASE d \notin D
    <3>1. job'[d] = job[d]
      BY <1>2, <2>3
    <3> QED BY <2>1, <2>3, <3>1
  <2> QED BY <2>2, <2>3
<1>7. TypeOK'
  <2>1. delivery' \in [Deliveries -> DeliveryRows]
    BY <1>2, <1>3
  <2>2. journal' \in [Deliveries -> [Claims -> Attempts]]
    <3>1. \A d \in Deliveries : journal'[d] \in [Claims -> Attempts]
      BY <1>1, <1>4, <1>5 DEF TypeOK
    <3> QED BY <1>2, <3>1
  <2>3. job' \in [Deliveries -> [Seqs -> Jobs]]
    BY <1>2, <1>6
  <2> QED BY <1>1, <2>1, <2>2, <2>3 DEF TypeOK
<1>8. ASSUME NEW d \in Deliveries PROVE RowInv(d)'
  <2>1. /\ RowInv(d) /\ event'[d] = event[d] /\ received'[d] = received[d]
        /\ nonce'[d] = nonce[d] /\ dead'[d] = dead[d]
        /\ delivery[d].attempts \in 0 .. MaxAttempts
    BY <1>1, RowTyped DEF Inv
  <2>2. CASE Lost(delivery[d])
    <3>1. d \notin D /\ delivery[d].status = "sending"
      BY <1>1, <2>2 DEF Lost, Waiting
    <3>2. /\ delivery'[d] = Unleased(delivery[d], "ambiguous")
          /\ \A s \in Seqs : job'[d][s] = job[d][s]
      BY <1>3, <1>6, <2>2, <3>1
    <3> QED BY <1>1, <1>4, <2>1, <2>2, <3>1, <3>2, RowLost
  <2>3. CASE Waiting(delivery[d]) /\ delivery[d].attempts >= MaxAttempts
    <3>1. d \notin D /\ ~Lost(delivery[d])
      BY <1>1, <2>1, <2>3, DeliveryAssumption DEF Lost, Waiting
    <3>2. /\ delivery[d].status \in {"pending", "retry_scheduled"}
          /\ delivery'[d].status \in {"failed", "dead_lettered"}
          /\ delivery'[d].channel = delivery[d].channel
          /\ delivery'[d].attempts = delivery[d].attempts
          /\ delivery'[d].claim_seq = delivery[d].claim_seq
          /\ delivery'[d].retry_seq = delivery[d].retry_seq
          /\ journal'[d] = journal[d] /\ job'[d] = job[d]
      BY <1>3, <1>5, <1>6, <2>3, <3>1 DEF Waiting
    <3> QED BY <1>1, <2>1, <2>3, <3>2, RowClosed
  <2>4. CASE d \in D
    <3>1. ~Lost(delivery[d]) /\ delivery[d].status = "retry_scheduled"
      BY <1>1, <2>4 DEF Lost, Waiting
    <3>2. /\ delivery'[d].status = "pending"
          /\ delivery'[d].channel = delivery[d].channel
          /\ delivery'[d].attempts = delivery[d].attempts
          /\ delivery'[d].claim_seq = delivery[d].claim_seq
          /\ delivery'[d].retry_seq = delivery[d].retry_seq
          /\ journal'[d] = journal[d]
          /\ \A s \in Seqs : job'[d][s].state =
               IF s = delivery[d].retry_seq THEN "queued" ELSE job[d][s].state
      BY <1>3, <1>5, <1>6, <2>4, <3>1
    <3> QED BY <1>1, <2>1, <3>1, <3>2, RowAgain
  <2>5. CASE ~Lost(delivery[d]) /\ ~(Waiting(delivery[d]) /\ delivery[d].attempts >= MaxAttempts)
             /\ d \notin D
    BY <1>3, <1>5, <1>6, <2>1, <2>5, RowStill
  <2> QED BY <2>2, <2>3, <2>4, <2>5
<1>9. ASSUME NEW w \in Workers PROVE Steady(w)
  <2>1. PICK d \in Deliveries : worker[w].d = d
    BY <1>1 DEF TypeOK
  <2>2. /\ worker[w].seq \in Seqs /\ received[d] \in Nat /\ WorkerInv(w) /\ SeqInv(d) /\ JobInv(d)
        /\ event'[d] = event[d] /\ received'[d] = received[d] /\ dead'[d] = dead[d]
    BY <1>1, <2>1 DEF Inv, RowInv, TypeOK
  <2>3. job[d][worker[w].seq].state # "none" => job'[d][worker[w].seq].state # "none"
    BY <1>6, <2>2
  <2>4. CASE Lost(delivery[d])
    <3>1. delivery[d].status = "sending" /\ delivery'[d].status = "ambiguous"
      BY <1>3, <2>4 DEF Lost
    <3> QED BY <1>3, <2>1, <2>2, <2>3, <3>1 DEF Steady
  <2>5. CASE Waiting(delivery[d]) /\ delivery[d].attempts >= MaxAttempts
    <3>1. delivery[d].status = "retry_scheduled" /\ delivery'[d].status = "dead_lettered"
      BY <1>3, <2>5 DEF Waiting
    <3> QED BY <1>3, <2>1, <2>2, <2>3, <3>1 DEF Steady
  <2>6. CASE d \in D
    <3>1. delivery[d].status = "retry_scheduled" /\ delivery'[d].status = "pending"
      BY <1>1, <1>3, <2>6 DEF Waiting
    <3>2. worker[w].pc # "idle" /\ event[d] => worker[w].seq # delivery[d].retry_seq
      <4>1. worker[w].pc # "idle" /\ event[d] => worker[w].seq < delivery[d].retry_seq
        BY <2>1, <2>2, <3>1 DEF WorkerInv, JobInv
      <4>2. worker[w].seq \in Int /\ delivery[d].retry_seq \in Int
        BY <1>1, <2>2, RowTyped DEF Seqs
      <4> QED BY <4>1, <4>2
    <3> QED BY <1>3, <2>1, <2>2, <2>3, <3>1, <3>2 DEF Steady
  <2>7. CASE delivery'[d] = delivery[d]
    BY <2>1, <2>2, <2>3, <2>7 DEF Steady
  <2> QED BY <1>3, <2>4, <2>5, <2>6, <2>7
<1> QED BY <1>1, <1>7, <1>8, <1>9, RestKeeps

-----------------------------------------------------------------------------
(* The invariant.                                                          *)

\* No event, no job, no delivery.
LEMMA InitInv == Init => Inv
<1> SUFFICES ASSUME Init PROVE Inv
  OBVIOUS
<1>1. PICK ch \in [Deliveries -> Channels] : delivery = [d \in Deliveries |-> Unborn(ch[d])]
  BY DEF Init
<1>2. PICK e \in Deliveries : worker = [w \in Workers |-> Idle(e)]
  BY DEF Init
<1>3. /\ 0 \in Seqs /\ 0 \in 0 .. MaxAttempts /\ 0 \in 0 .. MaxForgets /\ 0 <= 0 + MaxDefers
  BY DeliveryAssumption DEF Seqs
<1>4. ASSUME NEW d \in Deliveries
      PROVE  /\ delivery[d] \in DeliveryRows /\ delivery[d].status = "none"
             /\ delivery[d].attempts = 0 /\ delivery[d].claim_seq = 0 /\ delivery[d].retry_seq = 0
  <2>1. delivery[d] = Unborn(ch[d]) /\ ch[d] \in Channels
    BY <1>1
  <2> QED BY <1>3, <2>1 DEF Unborn, DeliveryRows, Statuses
<1>5. ASSUME NEW w \in Workers
      PROVE  /\ worker[w].pc = "idle"
             /\ worker[w] \in [pc : Steps, d : Deliveries, seq : Seqs,
                               claim : {0} \cup Claims, result : Results]
  BY <1>2, <1>3 DEF Idle, Steps, Results
<1>6. ASSUME NEW d \in Deliveries
      PROVE  /\ event[d] /\ received[d] = 0 /\ ~nonce[d].known /\ nonce[d].forgotten = 0
             /\ \A c \in Claims : journal[d][c] = "none"
             /\ \A s \in Seqs : job[d][s].state = IF s = 0 THEN "queued" ELSE "none"
  BY DEF Init
<1>7. TypeOK
  <2>1. /\ event \in [Deliveries -> BOOLEAN] /\ dead \in [Deliveries -> [Seqs -> BOOLEAN]]
        /\ received \in [Deliveries -> Nat]
    BY DEF Init
  <2>2. delivery \in [Deliveries -> DeliveryRows]
    BY <1>1, <1>4
  <2>3. journal \in [Deliveries -> [Claims -> Attempts]]
    BY DEF Init, Attempts
  <2>4. job \in [Deliveries -> [Seqs -> Jobs]]
    BY <1>3 DEF Init, Jobs
  <2>5. worker \in [Workers -> [pc : Steps, d : Deliveries, seq : Seqs,
                                claim : {0} \cup Claims, result : Results]]
    BY <1>2, <1>5
  <2>6. nonce \in [Deliveries -> [known : BOOLEAN, forgotten : 0 .. MaxForgets]]
    BY <1>3 DEF Init
  <2> QED BY <2>1, <2>2, <2>3, <2>4, <2>5, <2>6 DEF TypeOK
<1>8. ASSUME NEW d \in Deliveries PROVE RowInv(d)
  <2>1. SeqInv(d)
    BY <1>3, <1>4, <1>6 DEF SeqInv
  <2>2. ReceiptInv(d)
    BY <1>4, <1>6 DEF ReceiptInv
  <2>3. JobInv(d)
    BY <1>3, <1>4, <1>6 DEF JobInv
  <2>4. JournalInv(d)
    <3>1. Counted(d) = {}
      BY <1>6 DEF Counted
    <3> QED BY <1>4, <1>6, <3>1, FS_EmptySet DEF JournalInv
  <2> QED BY <2>1, <2>2, <2>3, <2>4 DEF RowInv
<1>9. ASSUME NEW w \in Workers PROVE WorkerInv(w) /\ ~Busy(w)
  BY <1>5 DEF WorkerInv, Busy
<1> QED BY <1>7, <1>8, <1>9 DEF Inv, OneBusy

\* Every step keeps the invariant.
LEMMA StepKeeps == Inv /\ [Next]_vars => Inv'
<1> SUFFICES ASSUME Inv, [Next]_vars PROVE Inv'
  OBVIOUS
<1>1. ASSUME NEW d \in Deliveries, NEW s \in Seqs, Publish(d, s) \/ GiveUp(d, s) PROVE Inv'
  BY <1>1, PublishKeeps
<1>2. ASSUME NEW w \in Workers, NEW d \in Deliveries, NEW s \in Seqs, Read(w, d, s) PROVE Inv'
  BY <1>2, ReadKeeps
<1>3. ASSUME NEW w \in Workers, WorkerStep(w) PROVE Inv'
  <2>1. PICK d \in Deliveries : worker[w].d = d
    BY DEF Inv, TypeOK
  <2>2. CASE Load(w) BY <2>2, LoadKeeps
  <2>3. CASE Insert(w) BY <2>1, <2>3, InsertKeeps
  <2>4. CASE Look(w) BY <2>4, LookKeeps
  <2>5. CASE MarkPreferenceFailure(w) BY <2>1, <2>5, MarkKeeps
  <2>6. CASE Claim(w) BY <2>6, ClaimKeeps
  <2>7. CASE Reserve(w) BY <2>7, ReserveKeeps
  <2>8. CASE DeferClaim(w) BY <2>1, <2>8, DeferKeeps
  <2>9. CASE Send(w) BY <2>1, <2>9, SendKeeps
  <2>10. CASE ApplyProviderResult(w) BY <2>1, <2>10, ApplyKeeps
  <2>11. CASE Fails(w) BY <2>11, FailsKeeps
  <2>12. CASE Retry(w) BY <2>12, RetryKeeps
  <2>13. CASE Bury(w) BY <2>13, BuryKeeps
  <2>14. CASE ClearRetry(w) BY <2>14, ClearKeeps
  <2>15. CASE Ack(w) BY <2>15, AckKeeps
  <2> QED BY <1>3, <2>2, <2>3, <2>4, <2>5, <2>6, <2>7, <2>8, <2>9, <2>10, <2>11, <2>12,
             <2>13, <2>14, <2>15 DEF WorkerStep
<1>4. ASSUME NEW w \in Workers, Crash(w) PROVE Inv'
  BY <1>4, CrashKeeps
<1>5. ASSUME NEW D \in SUBSET Deliveries, Republish(D) PROVE Inv'
  BY <1>5, RepublishKeeps
<1>6. ASSUME NEW d \in Deliveries, LeaseExpires(d) \/ RetryFallsDue(d) PROVE Inv'
  BY <1>6, TimeKeeps
<1>7. ASSUME NEW d \in Deliveries, DeleteAlert(d) PROVE Inv'
  BY <1>7, DeleteKeeps
<1>8. ASSUME NEW d \in Deliveries, NonceForgotten(d) PROVE Inv'
  BY <1>8, NonceKeeps
<1>9. CASE UNCHANGED vars
  <2>1. UNCHANGED <<tables, job, dead, outside>> /\ UNCHANGED worker
    BY <1>9 DEF vars, tables, outside
  <2>2. TypeOK'
    BY <2>1 DEF Inv, TypeOK, tables, outside
  <2>3. ASSUME NEW w \in Workers PROVE Steady(w)
    BY <2>1, SteadyStill DEF Inv
  <2>4. ASSUME NEW d \in Deliveries PROVE RowInv(d)'
    BY <2>1, RowStill DEF Inv, tables, outside
  <2> QED BY <2>1, <2>2, <2>3, <2>4, RestKeeps
<1> QED BY <1>1, <1>2, <1>3, <1>4, <1>5, <1>6, <1>7, <1>8, <1>9 DEF Next

\* The inductive invariant: rows, journal, recipients, jobs and workers agree
\* in every reachable state of the delivery, whatever crashes, leases run out
\* or jobs come twice.
THEOREM DeliveryInvariance == Spec => []Inv
<1>1. Init => Inv BY InitInv
<1>2. Inv /\ [Next]_vars => Inv' BY StepKeeps
<1> QED BY <1>1, <1>2, PTL DEF Spec

-----------------------------------------------------------------------------
(* What follows.                                                           *)

\* A recipient gets a notification once, whatever is redelivered, lost or late:
\* on Telegram always, on Discord while it remembers the nonce of its call.
THEOREM SentAtMostOnce == Spec => []AtMostOnce
<1>1. Inv => AtMostOnce
  <2> SUFFICES ASSUME Inv, NEW d \in Deliveries
               PROVE  received[d] <= IF delivery[d].channel = "telegram" THEN 1
                                     ELSE 1 + nonce[d].forgotten
    BY DEF AtMostOnce
  <2>1. /\ ReceiptInv(d) /\ delivery[d].channel \in {"telegram", "discord"}
        /\ received[d] \in Nat /\ nonce[d].forgotten \in Nat
    BY RowTyped DEF Inv, RowInv, TypeOK, Channels
  <2> QED BY <2>1 DEF ReceiptInv
<1> QED BY <1>1, DeliveryInvariance, PTL

\* What the row of a delivery says is what happened to its recipient, and the
\* job it waits for is in the outbox, on the stream or recorded as given up;
\* every variable has its type.
THEOREM DeliveryTrue == Spec => []DeliveryIsTrue
<1>1. Inv => DeliveryIsTrue
  <2> SUFFICES ASSUME Inv PROVE DeliveryIsTrue
    OBVIOUS
  <2>1. TypeOK
    BY DEF Inv
  <2>2. StatusIsTrue
    BY DEF Inv, RowInv, ReceiptInv, StatusIsTrue
  <2>3. JobsAccountedFor
    BY DEF Inv, RowInv, JobInv, JobsAccountedFor
  <2> QED BY <2>1, <2>2, <2>3 DEF DeliveryIsTrue
<1> QED BY <1>1, DeliveryInvariance, PTL

\* The attempts a row counts are those of its journal that were not deferred,
\* and a delivery is given up only after as many refusals as it has attempts.
THEOREM AttemptsTrue == Spec => []AttemptsAreTrue
<1>1. Inv => AttemptsAreTrue
  <2> SUFFICES ASSUME Inv PROVE AttemptsAreTrue
    OBVIOUS
  <2>1. AttemptsMatchJournal
    BY DEF Inv, RowInv, JournalInv, Counted, AttemptsMatchJournal
  <2>2. ASSUME NEW d \in Deliveries, delivery[d].status = "dead_lettered"
        PROVE  Cardinality({c \in Claims : journal[d][c] = "retryable"}) = MaxAttempts
    <3>1. JournalInv(d)
      BY DEF Inv, RowInv
    <3>2. \A c \in Claims : journal[d][c] \in {"none", "deferred", "retryable"}
      BY <2>2, <3>1 DEF JournalInv
    <3>3. Counted(d) = {c \in Claims : journal[d][c] = "retryable"}
      BY <3>2 DEF Counted
    <3> QED BY <2>2, <3>1, <3>3 DEF JournalInv
  <2> QED BY <2>1, <2>2 DEF AttemptsAreTrue, GivenUpWhenSpent
<1> QED BY <1>1, DeliveryInvariance, PTL

\* A row that is set keeps a final status as long as no final row is set.
LEMMA OthersStay ==
  ASSUME TypeOK, NEW x \in Deliveries, NEW n, delivery' = [delivery EXCEPT ![x] = n],
         delivery[x].status \in Final => n.status = delivery[x].status,
         NEW d \in Deliveries, delivery[d].status \in Final
  PROVE  delivery'[d].status = delivery[d].status
BY DEF TypeOK

\* A final status is final, for late answers, sweeps and redelivered jobs
\* alike: only the deletion of the alert takes the delivery away.
THEOREM FinalForever == Spec => FinalStays
<1>1. ASSUME Inv, Next, NEW d \in Deliveries, delivery[d].status \in Final, event'[d]
      PROVE  delivery'[d].status = delivery[d].status
  <2>1. TypeOK /\ delivery \in [Deliveries -> DeliveryRows]
    BY <1>1 DEF Inv, TypeOK
  <2>2. CASE UNCHANGED delivery
    BY <2>2
  <2>3. ASSUME NEW w \in Workers, Insert(w) \/ MarkPreferenceFailure(w)
        PROVE  delivery'[d].status = delivery[d].status
    <3>1. worker[w].d \in Deliveries
      BY <2>1 DEF TypeOK
    <3> DEFINE r == delivery[worker[w].d]
    <3>2. PICK st \in {"pending", "failed", r.status} :
            /\ delivery' = [delivery EXCEPT ![worker[w].d].status = st]
            /\ r.status \in Final => st = r.status
      BY <2>3 DEF Insert, MarkPreferenceFailure, Final
    <3> DEFINE n == [r EXCEPT !.status = st]
    <3>3. r \in Fields
      BY <2>1, <3>1, RowTyped
    <3>4. n.status = st
      BY <3>3 DEF Fields
    <3>5. delivery' = [delivery EXCEPT ![worker[w].d] = n] /\ (r.status \in Final => n.status = r.status)
      BY <3>2, <3>4
    <3> HIDE DEF n
    <3> QED BY <1>1, <2>1, <3>1, <3>5, OthersStay
  <2>4. ASSUME NEW w \in Workers, Claim(w), ~UNCHANGED delivery
        PROVE  delivery'[d].status = delivery[d].status
    <3> DEFINE r == delivery[worker[w].d]
    <3>1. worker[w].d \in Deliveries
      BY <2>1 DEF TypeOK
    <3>2. Open(r) /\ \E n : delivery' = [delivery EXCEPT ![worker[w].d] = n]
      BY <2>4 DEF Claim
    <3>3. r.status \notin Final
      BY <3>2 DEF Open, Final
    <3> QED BY <1>1, <2>1, <3>1, <3>2, <3>3, OthersStay
  <2>5. ASSUME NEW w \in Workers, DeferClaim(w) \/ ApplyProviderResult(w), ~UNCHANGED delivery
        PROVE  delivery'[d].status = delivery[d].status
    <3> DEFINE r == delivery[worker[w].d]
    <3>1. worker[w].d \in Deliveries
      BY <2>1 DEF TypeOK
    <3>2. Holds(w) /\ \E n : delivery' = [delivery EXCEPT ![worker[w].d] = n]
      BY <2>5 DEF DeferClaim, ApplyProviderResult
    <3>3. r.status \notin Final
      BY <3>2 DEF Holds, Final
    <3> QED BY <1>1, <2>1, <3>1, <3>2, <3>3, OthersStay
  <2>6. ASSUME NEW D \in SUBSET Deliveries, Republish(D)
        PROVE  delivery'[d].status = delivery[d].status
    <3>1. delivery' = [x \in Deliveries |-> Swept(x, D)]
      BY <2>6 DEF Republish, Swept
    <3>2. d \in D => Waiting(delivery[d]) /\ delivery[d].attempts < MaxAttempts
      BY <2>6 DEF Republish
    <3>3. ~Lost(delivery[d]) /\ ~Waiting(delivery[d]) /\ d \notin D
      BY <1>1, <3>2 DEF Lost, Waiting, Final
    <3>4. Swept(d, D) = delivery[d]
      BY <2>1, <3>2, <3>3, SweptIs
    <3> QED BY <3>1, <3>4
  <2>7. ASSUME NEW x \in Deliveries, LeaseExpires(x) \/ RetryFallsDue(x)
        PROVE  delivery'[d].status = delivery[d].status
    <3>1. /\ delivery[x].status \notin Final
          /\ \E n : delivery' = [delivery EXCEPT ![x] = n]
      BY <2>7 DEF LeaseExpires, RetryFallsDue, Final
    <3> QED BY <1>1, <2>1, <3>1, OthersStay
  <2>8. ASSUME NEW x \in Deliveries, DeleteAlert(x)
        PROVE  delivery'[d].status = delivery[d].status
    <3>1. event \in [Deliveries -> BOOLEAN] /\ event' = [event EXCEPT ![x] = FALSE]
      BY <2>1, <2>8 DEF DeleteAlert, TypeOK
    <3>2. x # d
      BY <1>1, <3>1
    <3> QED BY <2>1, <2>8, <3>2 DEF DeleteAlert
  <2> QED BY <1>1, <2>2, <2>3, <2>4, <2>5, <2>6, <2>7, <2>8
       DEF Next, WorkerStep, tables, Publish, GiveUp, Read, Load, Look, Reserve, Send, Fails,
           Retry, Bury, ClearRetry, Ack, Crash, NonceForgotten
<1>2. Inv /\ [Next]_vars =>
        [\A d \in Deliveries :
           delivery[d].status \in Final /\ event'[d] => delivery'[d].status = delivery[d].status]_vars
  BY <1>1
<1> QED BY <1>2, DeliveryInvariance, PTL DEF Spec, FinalStays
=============================================================================

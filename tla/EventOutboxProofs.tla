-------------------------- MODULE EventOutboxProofs --------------------------
(***************************************************************************)
(* Proofs about EventOutbox, for any number of events and publishers and   *)
(* any limits.                                                             *)
(***************************************************************************)
EXTENDS EventOutbox, TLAPS

\* A row is locked exactly while it is being published; what it says of its
\* attempts and of the stream is true; entries beyond the first were let
\* through by an expired marker.
RowInv(k) ==
  /\ row[k].status = "publishing" <=> row[k].locked_by # Nobody
  /\ row[k].status = "pending" => row[k].attempts < MaxAttempts
  /\ row[k].status = "failed" => row[k].attempts = MaxAttempts
  /\ row[k].status = "published" => entries[k] >= 1
  /\ seen[k] => entries[k] >= 1
  /\ entries[k] <= forgets[k] + (IF seen[k] THEN 1 ELSE 0)

\* A callback that still holds its row read the attempts the row has, and one
\* that is about to mark its event published has it on the stream.
TaskInv(p, k) ==
  /\ task[p][k].at # "none" /\ row[k].locked_by = p => row[k].attempts = task[p][k].attempts
  /\ task[p][k].at = "mark" => entries[k] >= 1

Inv ==
  /\ TypeOK
  /\ \A k \in Keys : RowInv(k)
  /\ \A p \in Publishers, k \in Keys : TaskInv(p, k)

-----------------------------------------------------------------------------
(* Lemmas.                                                                 *)

\* Moving or ending a callback leaves the tasks typed.
LEMMA TaskTyped ==
  ASSUME TypeOK, NEW p \in Publishers, NEW k \in Keys,
         NEW at \in {"publish", "mark", "fail"}, Goto(p, k, at) \/ Done(p, k)
  PROVE  task' \in [Publishers -> [Keys -> Tasks]]
<1>1. CASE Goto(p, k, at)
  <2>1. [task[p][k] EXCEPT !.at = at] \in Tasks
    BY DEF TypeOK, Tasks
  <2> QED BY <1>1, <2>1 DEF TypeOK, Goto
<1>2. CASE Done(p, k)
  <2>1. Idle \in Tasks
    BY OutboxAssumption DEF Idle, Tasks
  <2> QED BY <1>2, <2>1 DEF TypeOK, Done
<1> QED BY <1>1, <1>2

\* What a callback's move makes of the tasks: nothing of another one's, and
\* its own attempts stay.
LEMMA TaskMoved ==
  ASSUME TypeOK, NEW p \in Publishers, NEW k \in Keys,
         NEW at \in {"publish", "mark", "fail"}, Goto(p, k, at) \/ Done(p, k),
         NEW q \in Publishers, NEW j \in Keys
  PROVE  /\ q # p \/ j # k => task'[q][j] = task[q][j]
         /\ task'[p][k].at # "none" =>
              task'[p][k].at = at /\ task'[p][k].attempts = task[p][k].attempts
<1>1. task \in [Publishers -> [Keys -> Tasks]] /\ task[p][k] \in Tasks
  BY DEF TypeOK
<1>2. CASE Goto(p, k, at)
  <2> DEFINE t == [task[p][k] EXCEPT !.at = at]
  <2>1. t.at = at /\ t.attempts = task[p][k].attempts
    BY <1>1 DEF Tasks
  <2>2. task' = [task EXCEPT ![p][k] = t]
    BY <1>2 DEF Goto
  <2> HIDE DEF t
  <2> QED BY <1>1, <2>1, <2>2
<1>3. CASE Done(p, k)
  <2>1. Idle.at = "none"
    BY DEF Idle
  <2> QED BY <1>1, <1>3, <2>1 DEF Done
<1> QED BY <1>2, <1>3

\* An append leaves every fact about the stream: the event is on it, and one
\* entry more was let through only if the marker had gone.
LEMMA AppendKeeps ==
  ASSUME TypeOK, NEW k \in Keys, Append(k) \/ UNCHANGED <<seen, entries>>,
         UNCHANGED forgets, \A j \in Keys : RowInv(j)
  PROVE  /\ seen' \in [Keys -> BOOLEAN] /\ entries' \in [Keys -> Nat]
         /\ Append(k) => entries'[k] >= 1
         /\ \A j \in Keys :
              /\ entries'[j] >= entries[j]
              /\ seen'[j] => entries'[j] >= 1
              /\ entries'[j] <= forgets'[j] + (IF seen'[j] THEN 1 ELSE 0)
<1>1. CASE UNCHANGED <<seen, entries>> /\ ~Append(k)
  BY <1>1 DEF TypeOK, RowInv
<1>2. CASE Append(k)
  <2>1. seen' \in [Keys -> BOOLEAN] /\ entries' \in [Keys -> Nat]
    BY <1>2 DEF Append, TypeOK
  <2>2. \A j \in Keys : j # k => seen'[j] = seen[j] /\ entries'[j] = entries[j]
    BY <1>2 DEF Append, TypeOK
  <2>3. seen'[k] = TRUE /\ entries'[k] = (IF seen[k] THEN entries[k] ELSE entries[k] + 1)
    BY <1>2 DEF Append, TypeOK
  <2> QED BY <2>1, <2>2, <2>3 DEF TypeOK, RowInv
<1> QED BY <1>1, <1>2

-----------------------------------------------------------------------------
(* One lemma for each kind of step.                                        *)

\* An empty outbox.
LEMMA InitInv == Init => Inv
  BY OutboxAssumption DEF Init, Inv, TypeOK, RowInv, TaskInv, Absent, Idle, Rows, Tasks

\* Steps that change one row and no task: the row is no longer locked, or
\* stays as it was but for its expiry.
LEMMA RowStep ==
  ASSUME Inv, NEW k \in Keys, Enqueue(k) \/ LeaseExpires(k) \/ Prune(k)
  PROVE  Inv'
<1>1. PICK r \in Rows :
        /\ row' = [row EXCEPT ![k] = r]
        /\ \/ r.status \in {"absent", "pending"} /\ r.locked_by = Nobody /\ r.attempts = 0
           \/ /\ r.status = row[k].status /\ r.locked_by = row[k].locked_by
              /\ r.attempts = row[k].attempts
  <2>1. CASE Enqueue(k)
    <3> DEFINE r == [Absent EXCEPT !.status = "pending"]
    <3>0. Absent \in Rows /\ Absent.locked_by = Nobody /\ Absent.attempts = 0
      BY OutboxAssumption DEF Absent, Rows
    <3>1. r \in Rows /\ r.status = "pending" /\ r.locked_by = Nobody /\ r.attempts = 0
      BY <3>0 DEF Rows
    <3>2. row' = [row EXCEPT ![k] = r]
      BY <2>1 DEF Enqueue
    <3> QED BY <3>1, <3>2
  <2>2. CASE Prune(k)
    <3>1. Absent \in Rows /\ Absent.status = "absent" /\ Absent.locked_by = Nobody
          /\ Absent.attempts = 0
      BY OutboxAssumption DEF Absent, Rows
    <3> QED BY <2>2, <3>1 DEF Prune
  <2>3. CASE LeaseExpires(k)
    <3> DEFINE r == [row[k] EXCEPT !.expired = TRUE]
    <3>1. r \in Rows /\ r.status = row[k].status /\ r.locked_by = row[k].locked_by
          /\ r.attempts = row[k].attempts
      BY DEF Inv, TypeOK, Rows
    <3>2. row' = [row EXCEPT ![k] = r]
      BY <2>3 DEF LeaseExpires
    <3> QED BY <3>1, <3>2
  <2> QED BY <2>1, <2>2, <2>3
<1>2. UNCHANGED <<seen, entries, task, forgets>>
  BY DEF Enqueue, LeaseExpires, Prune
<1>3. row' \in [Keys -> Rows] /\ row'[k] = r /\ \A j \in Keys : j # k => row'[j] = row[j]
  BY <1>1 DEF Inv, TypeOK
<1>4. TypeOK'
  BY <1>2, <1>3 DEF Inv, TypeOK
<1>5. ASSUME NEW j \in Keys PROVE RowInv(j)'
  BY <1>1, <1>2, <1>3, OutboxAssumption DEF Inv, RowInv
<1>6. ASSUME NEW p \in Publishers, NEW j \in Keys PROVE TaskInv(p, j)'
  BY <1>1, <1>2, <1>3, OutboxAssumption DEF Inv, TaskInv
<1> QED BY <1>4, <1>5, <1>6 DEF Inv

\* The marker of an event runs out.
LEMMA ForgetStep ==
  ASSUME Inv, NEW k \in Keys, Forget(k)
  PROVE  Inv'
<1>1. /\ seen' \in [Keys -> BOOLEAN] /\ forgets' \in [Keys -> 0..MaxForgets]
      /\ seen[k] /\ ~seen'[k] /\ forgets'[k] = forgets[k] + 1
      /\ \A j \in Keys : j # k => seen'[j] = seen[j] /\ forgets'[j] = forgets[j]
  BY OutboxAssumption DEF Forget, Inv, TypeOK
<1>2. UNCHANGED <<row, entries, task>>
  BY DEF Forget
<1>3. ASSUME NEW j \in Keys PROVE RowInv(j)'
  BY <1>1, <1>2, OutboxAssumption DEF Inv, TypeOK, RowInv
<1> QED BY <1>1, <1>2, <1>3 DEF Inv, TypeOK, TaskInv

\* A publisher dies; the rows it claimed stay locked until their lease ends.
LEMMA CrashStep ==
  ASSUME Inv, NEW p \in Publishers, Crash(p)
  PROVE  Inv'
<1>1. Idle \in Tasks /\ Idle.at = "none"
  BY OutboxAssumption DEF Idle, Tasks
<1>2. /\ task' \in [Publishers -> [Keys -> Tasks]]
      /\ \A q \in Publishers, k \in Keys : task'[q][k] = IF q = p THEN Idle ELSE task[q][k]
  BY <1>1 DEF Crash, Inv, TypeOK
<1>3. UNCHANGED <<row, seen, entries, forgets>>
  BY DEF Crash
<1> QED BY <1>1, <1>2, <1>3 DEF Inv, TypeOK, RowInv, TaskInv

\* Claiming a batch: nobody else's task holds a row of it any more.
LEMMA ClaimStep ==
  ASSUME Inv, NEW p \in Publishers, NEW K \in SUBSET Keys, Claim(p, K)
  PROVE  Inv'
<1>1. \A k \in K : row[k].attempts \in Nat /\ row[k].attempts + 1 \in 0..MaxAttempts
  BY OutboxAssumption DEF Claim, Due, Inv, TypeOK, Rows
<1>2. \A k \in K : /\ Claimed(row[k], p) \in Rows
                   /\ Claimed(row[k], p).status = "publishing"
                   /\ Claimed(row[k], p).locked_by = p
                   /\ Claimed(row[k], p).attempts = row[k].attempts + 1
  BY <1>1 DEF Claimed, Rows
<1>3. \A k \in K : [at |-> "publish", attempts |-> row[k].attempts + 1] \in Tasks
  BY <1>1 DEF Tasks
<1>4. /\ row' \in [Keys -> Rows]
      /\ \A k \in Keys : row'[k] = IF k \in K THEN Claimed(row[k], p) ELSE row[k]
  BY <1>2 DEF Claim, Inv, TypeOK
<1>5. /\ task' \in [Publishers -> [Keys -> Tasks]]
      /\ \A q \in Publishers, k \in Keys :
           task'[q][k] = IF q = p /\ k \in K
                         THEN [at |-> "publish", attempts |-> row[k].attempts + 1]
                         ELSE task[q][k]
  BY <1>3 DEF Claim, Inv, TypeOK
<1>6. UNCHANGED <<seen, entries, forgets>> /\ \A k \in Keys : task[p][k].at = "none"
  BY DEF Claim
<1>7. ASSUME NEW k \in Keys PROVE RowInv(k)'
  BY <1>2, <1>4, <1>6, OutboxAssumption DEF Inv, RowInv
<1>8. ASSUME NEW q \in Publishers, NEW k \in Keys PROVE TaskInv(q, k)'
  <2>1. CASE k \in K /\ q = p
    <3>1. row'[k].attempts = row[k].attempts + 1
      BY <1>2, <1>4, <2>1
    <3>2. task'[q][k] = [at |-> "publish", attempts |-> row[k].attempts + 1]
      BY <1>5, <2>1
    <3> QED BY <3>1, <3>2 DEF TaskInv
  <2>2. CASE k \in K /\ q # p
    BY <1>2, <1>4, <1>5, <1>6, <2>2 DEF Inv, TaskInv
  <2>3. CASE k \notin K
    <3>1. row'[k] = row[k] /\ task'[q][k] = task[q][k] /\ entries'[k] = entries[k]
      BY <1>4, <1>5, <1>6, <2>3
    <3> QED BY <3>1 DEF Inv, TaskInv
  <2> QED BY <2>1, <2>2, <2>3
<1> QED BY <1>4, <1>5, <1>6, <1>7, <1>8 DEF Inv, TypeOK

\* publishOnce, answered or not.
LEMMA PublishStep ==
  ASSUME Inv, NEW p \in Publishers, NEW k \in Keys, Publish(p, k) \/ PublishErrs(p, k)
  PROVE  Inv'
<1>1. PICK at \in {"mark", "fail"} : Goto(p, k, at) /\ (at = "mark" => Append(k))
  BY DEF Publish, PublishErrs
<1>2. (Append(k) \/ UNCHANGED <<seen, entries>>) /\ UNCHANGED <<row, forgets>>
      /\ task[p][k].at # "none"
  BY DEF Publish, PublishErrs
<1>3. /\ seen' \in [Keys -> BOOLEAN] /\ entries' \in [Keys -> Nat]
      /\ Append(k) => entries'[k] >= 1
      /\ \A j \in Keys :
           /\ entries'[j] >= entries[j]
           /\ seen'[j] => entries'[j] >= 1
           /\ entries'[j] <= forgets'[j] + (IF seen'[j] THEN 1 ELSE 0)
  BY <1>2, AppendKeeps DEF Inv
<1>4. task' \in [Publishers -> [Keys -> Tasks]]
  BY <1>1, TaskTyped DEF Inv
<1>5. ASSUME NEW j \in Keys PROVE RowInv(j)'
  BY <1>2, <1>3 DEF Inv, TypeOK, RowInv
<1>6. ASSUME NEW q \in Publishers, NEW j \in Keys PROVE TaskInv(q, j)'
  <2>1. /\ q # p \/ j # k => task'[q][j] = task[q][j]
        /\ task'[p][k].at # "none" =>
             task'[p][k].at = at /\ task'[p][k].attempts = task[p][k].attempts
    BY <1>1, TaskMoved DEF Inv
  <2>2. CASE q = p /\ j = k
    BY <1>1, <1>2, <1>3, <2>1, <2>2 DEF Inv, TaskInv
  <2>3. CASE q # p \/ j # k
    BY <1>2, <1>3, <2>1, <2>3 DEF Inv, TypeOK, TaskInv
  <2> QED BY <2>2, <2>3
<1> QED BY <1>2, <1>3, <1>4, <1>5, <1>6 DEF Inv, TypeOK

\* The marks: the row is let go by its holder, with a status that is true, or
\* left as it is.
LEMMA MarkStep ==
  ASSUME Inv, NEW p \in Publishers, NEW k \in Keys,
         MarkPublished(p, k) \/ MarkErrs(p, k) \/ MarkFailed(p, k) \/ MarkFailedErrs(p, k)
  PROVE  Inv'
<1>1. Goto(p, k, "fail") \/ Done(p, k)
  BY DEF MarkPublished, MarkErrs, MarkFailed, MarkFailedErrs
<1>2. UNCHANGED <<seen, entries, forgets>> /\ task[p][k].at # "none"
  BY DEF MarkPublished, MarkErrs, MarkFailed, MarkFailedErrs
<1>3. \/ SetPublished(p, k) /\ entries[k] >= 1
      \/ SetFailed(p, k)
      \/ UNCHANGED row
  BY DEF MarkPublished, MarkErrs, MarkFailed, MarkFailedErrs, Inv, TaskInv
<1>4. PICK r \in Rows :
        /\ row' = [row EXCEPT ![k] = r]
        /\ \/ r = row[k]
           \/ /\ r.locked_by = Nobody /\ r.attempts = row[k].attempts
              /\ \/ r.status = "published" /\ entries[k] >= 1
                 \/ r.status = "failed" /\ r.attempts = MaxAttempts
                 \/ r.status = "pending" /\ r.attempts < MaxAttempts
  <2>0. row[k] \in Rows
    BY DEF Inv, TypeOK
  <2>1. CASE UNCHANGED row \/ row' = [row EXCEPT ![k] = row[k]]
    <3>1. row = [row EXCEPT ![k] = row[k]]
      BY DEF Inv, TypeOK
    <3> QED BY <2>0, <2>1, <3>1
  <2>2. CASE SetPublished(p, k) /\ entries[k] >= 1 /\ row[k].locked_by = p
    <3> DEFINE r == [row[k] EXCEPT !.status = "published", !.locked_by = Nobody, !.expired = FALSE]
    <3>1. r \in Rows /\ r.status = "published" /\ r.locked_by = Nobody /\ r.attempts = row[k].attempts
      BY <2>0 DEF Rows
    <3>2. row' = [row EXCEPT ![k] = r]
      BY <2>2 DEF SetPublished
    <3> QED BY <2>2, <3>1, <3>2
  <2>3. CASE SetFailed(p, k) /\ row[k].locked_by = p
    <3> DEFINE s == IF task[p][k].attempts >= MaxAttempts THEN "failed" ELSE "pending"
               r == [row[k] EXCEPT !.status = s, !.locked_by = Nobody, !.expired = FALSE]
    <3>1. row[k].attempts = task[p][k].attempts /\ row[k].attempts \in 0..MaxAttempts
      BY <1>2, <2>0, <2>3 DEF Inv, TaskInv, Rows
    <3>2. r \in Rows /\ r.status = s /\ r.locked_by = Nobody /\ r.attempts = row[k].attempts
      BY <2>0 DEF Rows
    <3>3. row' = [row EXCEPT ![k] = r]
      BY <2>3 DEF SetFailed
    <3>4. \/ s = "failed" /\ row[k].attempts = MaxAttempts
          \/ s = "pending" /\ row[k].attempts < MaxAttempts
      BY <3>1, OutboxAssumption
    <3> HIDE DEF s, r
    <3> QED BY <3>2, <3>3, <3>4
  <2> QED BY <1>3, <2>1, <2>2, <2>3 DEF SetPublished, SetFailed
<1>5. row' \in [Keys -> Rows] /\ row'[k] = r /\ \A j \in Keys : j # k => row'[j] = row[j]
  BY <1>4 DEF Inv, TypeOK
<1>6. task' \in [Publishers -> [Keys -> Tasks]]
  BY <1>1, TaskTyped DEF Inv
<1>7. ASSUME NEW j \in Keys PROVE RowInv(j)'
  BY <1>2, <1>4, <1>5 DEF Inv, RowInv
<1>8. ASSUME NEW q \in Publishers, NEW j \in Keys PROVE TaskInv(q, j)'
  <2>1. /\ q # p \/ j # k => task'[q][j] = task[q][j]
        /\ task'[p][k].at # "none" =>
             task'[p][k].at = "fail" /\ task'[p][k].attempts = task[p][k].attempts
    BY <1>1, TaskMoved DEF Inv
  <2>2. row'[j].locked_by = q => row'[j] = row[j]
    BY <1>4, <1>5, OutboxAssumption
  <2> QED BY <1>2, <2>1, <2>2 DEF Inv, TaskInv
<1> QED BY <1>2, <1>5, <1>6, <1>7, <1>8 DEF Inv, TypeOK

-----------------------------------------------------------------------------
(* Theorems.                                                               *)

\* Every step keeps the invariant.
LEMMA NextInv == Inv /\ Next => Inv'
<1> SUFFICES ASSUME Inv, Next PROVE Inv'
  OBVIOUS
<1>1. ASSUME NEW k \in Keys, Enqueue(k) \/ LeaseExpires(k) \/ Prune(k) \/ Forget(k) PROVE Inv'
  BY <1>1, RowStep, ForgetStep
<1>2. ASSUME NEW p \in Publishers, Crash(p) PROVE Inv'
  BY <1>2, CrashStep
<1>3. ASSUME NEW p \in Publishers, NEW K \in SUBSET Keys, Claim(p, K) PROVE Inv'
  BY <1>3, ClaimStep
<1>4. ASSUME NEW p \in Publishers, NEW k \in Keys, TaskStep(p, k) PROVE Inv'
  BY <1>4, PublishStep, MarkStep DEF TaskStep
<1> QED BY <1>1, <1>2, <1>3, <1>4 DEF Next

\* The invariant holds throughout: no death, lost answer or late publisher
\* leaves it.
THEOREM OutboxInvariance == Spec => []Inv
<1>1. Inv /\ UNCHANGED vars => Inv'
  BY DEF vars, Inv, TypeOK, RowInv, TaskInv
<1> QED BY <1>1, InitInv, NextInv, PTL DEF Spec

\* The state of the outbox has its type.
THEOREM OutboxTyped == Spec => []TypeOK
<1>1. Inv => TypeOK
  BY DEF Inv
<1> QED BY <1>1, OutboxInvariance, PTL

\* A row that says published is on its stream (markPublished after publishOnce).
THEOREM PublishedOnStream == Spec => []PublishedIsOnStream
<1>1. Inv => PublishedIsOnStream
  BY DEF Inv, RowInv, PublishedIsOnStream
<1> QED BY <1>1, OutboxInvariance, PTL

\* Readers see an event once for each life of its marker (publishOnce).
THEOREM SeenOncePerMarker == Spec => []OncePerMarker
<1>1. Inv => OncePerMarker
  <2> SUFFICES ASSUME Inv, NEW k \in Keys PROVE entries[k] <= 1 + forgets[k]
    BY DEF OncePerMarker
  <2>1. entries[k] \in Nat /\ forgets[k] \in Nat
    BY OutboxAssumption DEF Inv, TypeOK
  <2> QED BY <2>1 DEF Inv, RowInv
<1> QED BY <1>1, OutboxInvariance, PTL

\* A row waits only with attempts left and fails only without (markFailed's
\* count is the row's count, whoever was late).
THEOREM ExhaustedFails == Spec => []ExhaustedIsFailed
<1>1. Inv => ExhaustedIsFailed
  BY DEF Inv, RowInv, ExhaustedIsFailed
<1> QED BY <1>1, OutboxInvariance, PTL

\* What the rows say of the stream is so.
THEOREM RowsTellTheStream == Spec => []StreamIsTrue
<1>1. PublishedIsOnStream /\ OncePerMarker /\ ExhaustedIsFailed => StreamIsTrue
  BY DEF StreamIsTrue
<1> QED BY <1>1, PublishedOnStream, SeenOncePerMarker, ExhaustedFails, PTL

\* A published row is never taken back (the locked_by fence of markFailed).
THEOREM PublishedForever == Spec => PublishedStays
<1> DEFINE Stays == \A k \in Keys :
      row[k].status = "published" => row'[k].status \in {"published", "absent"}
<1>1. ASSUME Inv, Next, NEW k \in Keys, row[k].status = "published"
      PROVE  row'[k].status \in {"published", "absent"}
  <2>0. row[k].locked_by = Nobody /\ row \in [Keys -> Rows]
    BY <1>1 DEF Inv, TypeOK, RowInv
  <2>1. ASSUME NEW j \in Keys, Enqueue(j) \/ LeaseExpires(j) \/ Prune(j) \/ Forget(j)
        PROVE  row'[k].status \in {"published", "absent"}
    <3>1. j # k => row'[k] = row[k]
      BY <2>0, <2>1 DEF Enqueue, LeaseExpires, Prune, Forget
    <3>2. j = k => Prune(k) \/ row' = row
      BY <1>1, <2>1 DEF Enqueue, LeaseExpires, Forget
    <3>3. Prune(k) => row'[k].status = "absent"
      BY <2>0 DEF Prune, Absent
    <3> QED BY <1>1, <3>1, <3>2, <3>3
  <2>2. ASSUME NEW p \in Publishers, Crash(p)
        PROVE  row'[k].status \in {"published", "absent"}
    BY <1>1, <2>2 DEF Crash
  <2>3. ASSUME NEW p \in Publishers, NEW K \in SUBSET Keys, Claim(p, K)
        PROVE  row'[k].status \in {"published", "absent"}
    BY <1>1, <2>3 DEF Claim, Due
  <2>4. ASSUME NEW p \in Publishers, NEW j \in Keys, TaskStep(p, j)
        PROVE  row'[k].status \in {"published", "absent"}
    <3>1. SetPublished(p, j) \/ SetFailed(p, j) \/ UNCHANGED row
      BY <2>4 DEF TaskStep, Publish, PublishErrs, MarkPublished, MarkErrs, MarkFailed,
                  MarkFailedErrs
    <3>2. row'[k] = row[k]
      BY <2>0, <3>1, OutboxAssumption DEF SetPublished, SetFailed
    <3> QED BY <1>1, <3>2
  <2> QED BY <1>1, <2>1, <2>2, <2>3, <2>4 DEF Next
<1>2. Inv /\ [Next]_vars => [Stays]_vars
  BY <1>1
<1>3. [][Stays]_vars => PublishedStays
  BY DEF PublishedStays
<1> QED BY <1>2, <1>3, OutboxInvariance, PTL DEF Spec
=============================================================================

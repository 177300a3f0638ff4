------------------------- MODULE SwapExecutionProofs -------------------------
(***************************************************************************)
(* Proofs about SwapExecution, for any number of keys, quotes, handlers,   *)
(* workers and batches.                                                    *)
(***************************************************************************)
EXTENDS SwapExecution, TLAPS

-----------------------------------------------------------------------------
(* Type correctness.                                                       *)

\* A row of the table has the type of a row.
LEMMA RowTyped ==
  ASSUME TypeOK, NEW k \in Keys, HasRow(k)
  PROVE  exec[k] \in Rows
  BY DEF TypeOK, HasRow

\* Writing a typed row leaves the table typed.
LEMMA WriteTyped ==
  ASSUME TypeOK, NEW k \in Keys, NEW row \in Rows, Write(k, row)
  PROVE  exec' \in [Keys -> Rows \cup {NoRow}]
  BY DEF TypeOK, Write

\* A claimed row is a row.
LEMMA ClaimTyped ==
  ASSUME TypeOK, NEW k \in Keys, HasRow(k), NEW p \in Claimants
  PROVE  Claim(k, p) \in Rows
  BY RowTyped DEF Claim, Rows, Leases

\* A row without its claim is a row.
LEMMA UnclaimedTyped ==
  ASSUME NEW row \in Rows
  PROVE  Unclaimed(row) \in Rows
  BY DEF Unclaimed, Rows, Leases

\* A released row is a row.
LEMMA ReleasedTyped ==
  ASSUME TypeOK, NEW k \in Keys, HasRow(k), NEW b
  PROVE  Released(b, k) \in Rows
  BY RowTyped, UnclaimedTyped DEF Released

\* Ending a call leaves the local states typed.
LEMMA FinishTyped ==
  ASSUME TypeOK, NEW p \in Procs, Finish(p)
  PROVE  proc' \in [Procs -> ProcStates]
  BY DEF TypeOK, Finish, IdleProc, ProcStates, Pcs

\* Ending a task leaves the batches typed.
LEMMA DoneTyped ==
  ASSUME TypeOK, NEW b \in Batches, NEW k \in Keys, Done(b, k)
  PROVE  batch' \in [Batches -> [Keys -> Tasks]]
  BY DEF TypeOK, Done, Tasks, NoTask, Work, Amounts, Settlements

-----------------------------------------------------------------------------
(* The inductive invariant.                                                *)

Active == {"claimed", "unavailable", "invalid", "calling", "delivered"}

\* A call past preparation has a row.  While it still holds the row's token
\* nobody else has touched the row: it is signed, and its signature is the one
\* the call read when it began to broadcast.
ProcInv(p) ==
  LET k == proc[p].key IN
  /\ proc[p].pc # "idle" => k \in Keys
  /\ proc[p].pc = "prepared" => proc[p].quote \in Quotes
  /\ proc[p].pc \notin {"idle", "prepared"} => HasRow(k)
  /\ proc[p].pc \in Active /\ Holds(p, k) => exec[k].state = "signed"
  /\ proc[p].pc \in {"calling", "delivered"} =>
       /\ exec[k].count > 0
       /\ Holds(p, k) => exec[k].sig = proc[p].sig

\* A task has a row with a signature, and an error it is about to report
\* happened on chain.
TaskInv(b, k) ==
  /\ batch[b][k].work # "none" => HasRow(k) /\ exec[k].sig
  /\ batch[b][k].work = "failed" => erred[k]

\* The row against its blob, its evidence and the chain.
RowInv(k) ==
  /\ HasRow(k) <=> blob[k] # "none"
  /\ sent[k] => HasRow(k) /\ exec[k].count > 0
  /\ chain[k].outcome = "err" => erred[k]
  /\ HasRow(k) =>
       /\ exec[k].state \in {"submitted", "processed", "confirmed", "finalized"}
            => exec[k].sig
       /\ exec[k].state = "failed" => erred[k] \/ ~ exec[k].sig
       /\ exec[k].state \in Commitments => exec[k].settled = exec[k].state
       /\ exec[k].settled # "none" => exec[k].state = exec[k].settled
       /\ exec[k].verdict = "pending" <=> exec[k].settled = "none"
       /\ exec[k].sig \/ exec[k].quote \in Sponsored

\* Settled rows: what SettledIsOnChain says, and that all evidence agrees.
SettledInv(k) ==
  /\ evidence[k] # {} => HasRow(k) /\ exec[k].settled # "none"
  /\ HasRow(k) /\ exec[k].settled # "none" =>
       /\ Visible(k, exec[k].settled)
       /\ exec[k].verdict = Verdict(k, exec[k].amounts)
       /\ \E e \in evidence[k] :
            e = [commitment |-> exec[k].settled, verdict |-> exec[k].verdict,
                 amounts |-> exec[k].amounts]

Inv ==
  /\ TypeOK
  /\ QuoteSpentOnce
  /\ \A p \in Procs : ProcInv(p)
  /\ \A b \in Batches, k \in Keys : TaskInv(b, k)
  /\ \A k \in Keys : RowInv(k)
  /\ \A k \in Keys : SettledInv(k)

-----------------------------------------------------------------------------
(* What a step leaves alone.                                               *)

\* What a row says, apart from who holds it, the provider's last status, and
\* how often it was broadcast.
SameFacts(new, old) ==
  /\ new.quote = old.quote /\ new.state = old.state /\ new.sig = old.sig
  /\ (old.count > 0 => new.count > 0) /\ new.amounts = old.amounts
  /\ new.settled = old.settled /\ new.verdict = old.verdict

\* The step leaves what the rows say alone: it claims, releases or annotates.
Touches ==
  \A j \in Keys : exec'[j] = exec[j] \/ (HasRow(j) /\ HasRow(j)'
                                          /\ SameFacts(exec'[j], exec[j]))

\* The step does not reach the rows process q works on.
Undisturbed(q) ==
  \A j \in Keys : HasRow(j) =>
    /\ HasRow(j)' /\ (exec[j].count > 0 => exec'[j].count > 0)
    /\ exec'[j].op = q => /\ exec[j].op = q
                          /\ exec'[j].state = exec[j].state
                          /\ exec'[j].sig = exec[j].sig

\* Rows that only change hands keep every fact about rows.
LEMMA TouchLemma ==
  ASSUME Inv, Touches, UNCHANGED <<quote, blob, evidence, net>>
  PROVE  /\ QuoteSpentOnce'
         /\ \A k \in Keys : RowInv(k)'
         /\ \A k \in Keys : SettledInv(k)'
<1>1. \A j \in Keys : /\ HasRow(j)' <=> HasRow(j)
                      /\ HasRow(j) => SameFacts(exec'[j], exec[j])
  BY DEF Touches, HasRow, SameFacts
<1>2. QuoteSpentOnce'
  BY <1>1 DEF Inv, QuoteSpentOnce, SameFacts, HasRow
<1>3. \A k \in Keys : RowInv(k)'
  BY <1>1 DEF Inv, RowInv, SameFacts, HasRow, net
<1>4. \A k \in Keys : SettledInv(k)'
  BY <1>1 DEF Inv, SettledInv, SameFacts, HasRow, net, Visible, Verdict
<1> QED BY <1>2, <1>3, <1>4

\* A process that does not move keeps its invariant.
LEMMA ProcFrame ==
  ASSUME Inv, NEW q \in Procs, proc'[q] = proc[q], Undisturbed(q)
  PROVE  ProcInv(q)'
<1>1. ProcInv(q) BY DEF Inv
<1>2. CASE proc[q].pc \in {"idle", "prepared"}
  BY <1>1, <1>2 DEF ProcInv, Active
<1>3. CASE proc[q].pc \notin {"idle", "prepared"}
  <2> DEFINE k == proc[q].key
  <2>1. k \in Keys /\ HasRow(k)
    BY <1>1, <1>3 DEF ProcInv
  <2>2. /\ HasRow(k)'
        /\ exec[k].count > 0 => exec'[k].count > 0
        /\ Holds(q, k)' => /\ Holds(q, k)
                           /\ exec'[k].state = exec[k].state
                           /\ exec'[k].sig = exec[k].sig
    BY <2>1 DEF Undisturbed, Holds, HasRow
  <2> QED BY <1>1, <1>3, <2>1, <2>2 DEF ProcInv
<1> QED BY <1>2, <1>3

\* A call that ends, or never began, satisfies its invariant.
LEMMA ProcIdle ==
  ASSUME Inv, NEW p \in Procs, Finish(p)
  PROVE  ProcInv(p)' /\ \A q \in Procs \ {p} : proc'[q] = proc[q]
  BY DEF Inv, TypeOK, Finish, IdleProc, ProcInv, Active

\* A task that does not move keeps its invariant.
LEMMA TaskFrame ==
  ASSUME Inv, NEW b \in Batches, NEW k \in Keys, batch'[b][k] = batch[b][k],
         HasRow(k) => HasRow(k)' /\ (exec[k].sig => exec'[k].sig),
         erred[k] => erred'[k]
  PROVE  TaskInv(b, k)'
  BY DEF Inv, TaskInv

\* Rows that only change hands disturb no task.
LEMMA TouchTasks ==
  ASSUME Inv, Touches, UNCHANGED <<batch, net>>
  PROVE  \A b \in Batches, k \in Keys : TaskInv(b, k)'
<1> SUFFICES ASSUME NEW b \in Batches, NEW k \in Keys PROVE TaskInv(b, k)'
  OBVIOUS
<1> QED BY TaskFrame DEF Touches, SameFacts, HasRow, net

\* One row is written, all others stay.
LEMMA OneRow ==
  ASSUME Inv, NEW k \in Keys, HasRow(k), NEW row \in Rows, Write(k, row)
  PROVE  /\ exec' \in [Keys -> Rows \cup {NoRow}]
         /\ exec'[k] = row /\ HasRow(k)'
         /\ \A j \in Keys \ {k} : exec'[j] = exec[j]
         /\ \A j \in Keys : HasRow(j)' <=> HasRow(j)
<1>1. exec' \in [Keys -> Rows \cup {NoRow}] /\ exec'[k] = row
  BY WriteTyped DEF Inv, TypeOK, Write
<1>2. \A j \in Keys \ {k} : exec'[j] = exec[j]
  BY DEF Inv, TypeOK, Write
<1> QED BY <1>1, <1>2, NoRowAssumption DEF HasRow

\* One row changes hands and goes to no process.
LEMMA OneTouch ==
  ASSUME Inv, NEW k \in Keys, HasRow(k), NEW row \in Rows, Write(k, row),
         SameFacts(row, exec[k])
  PROVE  /\ Touches
         /\ \A q \in Procs : row.op # q \/ exec[k].op = q => Undisturbed(q)
<1>1. Touches
  BY OneRow DEF Touches, HasRow
<1>2. ASSUME NEW q \in Procs, row.op # q \/ exec[k].op = q
      PROVE  Undisturbed(q)
  BY <1>2, OneRow DEF Undisturbed, SameFacts, HasRow
<1> QED BY <1>1, <1>2

\* A call moves to another point: only its pc changes.
LEMMA ProcMoves ==
  ASSUME Inv, NEW p \in Procs, NEW x \in Pcs,
         proc' = [proc EXCEPT ![p].pc = x]
  PROVE  /\ proc' \in [Procs -> ProcStates]
         /\ proc'[p].pc = x /\ proc'[p].key = proc[p].key
         /\ proc'[p].quote = proc[p].quote /\ proc'[p].sig = proc[p].sig
         /\ \A q \in Procs \ {p} : proc'[q] = proc[q]
<1> DEFINE r == [proc[p] EXCEPT !.pc = x]
<1>1. proc \in [Procs -> ProcStates] /\ proc[p] \in ProcStates
  BY DEF Inv, TypeOK
<1>2. /\ r \in ProcStates /\ r.pc = x /\ r.key = proc[p].key
      /\ r.quote = proc[p].quote /\ r.sig = proc[p].sig
  BY <1>1 DEF ProcStates
<1>3. proc' = [proc EXCEPT ![p] = r]
  OBVIOUS
<1> HIDE DEF r
<1> QED BY <1>1, <1>2, <1>3
\* A client writes the row of its key.
LEMMA PrepareStep ==
  ASSUME Inv, NEW c \in Clients, NEW k \in Keys, NEW q \in Quotes,
         Prepare(c, k, q)
  PROVE  Inv'
<1>1. TypeOK'
  BY DEF Inv, TypeOK, Prepare, IdleProc, ProcStates, Pcs, Procs, HasRow, db, net
<1>2. \A p \in Procs : ProcInv(p)'
  BY DEF Inv, TypeOK, ProcInv, Prepare, IdleProc, HasRow, Holds, Active, Procs, db
<1> QED
  BY <1>1, <1>2 DEF Inv, QuoteSpentOnce, TaskInv, RowInv, SettledInv, HasRow,
       Visible, Verdict, Prepare, db, net


\* A client call that moves on without touching anything else.
LEMMA AdmittedStep ==
  ASSUME Inv, NEW c \in Clients, AdmitExisting(c) \/ AdmitRefused(c)
  PROVE  Inv'
<1>1. c \in Procs BY DEF Procs
<1>2. \/ Finish(c)
      \/ /\ proc' = [proc EXCEPT ![c].pc = "admitted"]
         /\ proc[c].key \in Keys /\ HasRow(proc[c].key)
  <2>1. proc[c].pc = "prepared" => proc[c].key \in Keys
    BY <1>1 DEF Inv, ProcInv
  <2> QED BY <2>1 DEF AdmitExisting, AdmitRefused
<1>3. UNCHANGED <<db, batch, net>>
  BY DEF AdmitExisting, AdmitRefused
<1>4. \A q \in Procs : Undisturbed(q)
  BY <1>3 DEF Undisturbed, HasRow, db
<1>5. proc' \in [Procs -> ProcStates] /\ \A p \in Procs : ProcInv(p)'
  <2>1. CASE Finish(c)
    BY <1>1, <1>4, <2>1, FinishTyped, ProcIdle, ProcFrame DEF Inv
  <2>2. CASE /\ proc' = [proc EXCEPT ![c].pc = "admitted"]
             /\ proc[c].key \in Keys /\ HasRow(proc[c].key)
    <3>1. /\ proc' \in [Procs -> ProcStates]
          /\ proc'[c].pc = "admitted" /\ proc'[c].key = proc[c].key
          /\ \A q \in Procs \ {c} : proc'[q] = proc[q]
      BY <1>1, <2>2, ProcMoves DEF Pcs
    <3>2. ProcInv(c)'
      BY <1>3, <2>2, <3>1 DEF ProcInv, Active, HasRow, db
    <3> QED BY <1>4, <3>1, <3>2, ProcFrame
  <2> QED BY <1>2, <2>1, <2>2
<1> QED
  BY <1>3, <1>5 DEF Inv, TypeOK, QuoteSpentOnce, TaskInv, RowInv,
       SettledInv, HasRow, Visible, Verdict, db, net

\* The provider takes a call, or a call dies while its request is on its way.
LEMMA SentStep ==
  ASSUME Inv, NEW p \in Procs, Deliver(p) \/ Crash(p)
  PROVE  Inv'
<1>1. \/ Finish(p)
      \/ /\ proc[p].pc = "calling"
         /\ proc' = [proc EXCEPT ![p].pc = "delivered"]
  BY DEF Deliver, Crash
<1>2. \/ UNCHANGED sent
      \/ proc[p].pc = "calling" /\ sent' = [sent EXCEPT ![proc[p].key] = TRUE]
  BY DEF Deliver, Crash, MayArrive
<1>3. UNCHANGED <<db, batch, chain, erred>>
  BY DEF Deliver, Crash
<1>4. \A q \in Procs : Undisturbed(q)
  BY <1>3 DEF Undisturbed, HasRow, db
<1>5. sent' \in [Keys -> BOOLEAN]
  BY <1>2 DEF Inv, TypeOK
<1>6. proc' \in [Procs -> ProcStates] /\ \A q \in Procs : ProcInv(q)'
  <2>1. CASE Finish(p)
    BY <1>4, <2>1, FinishTyped, ProcIdle, ProcFrame DEF Inv
  <2>2. CASE /\ proc[p].pc = "calling"
             /\ proc' = [proc EXCEPT ![p].pc = "delivered"]
    <3>1. /\ proc' \in [Procs -> ProcStates]
          /\ proc'[p].pc = "delivered" /\ proc'[p].key = proc[p].key
          /\ proc'[p].sig = proc[p].sig
          /\ \A q \in Procs \ {p} : proc'[q] = proc[q]
      BY <2>2, ProcMoves DEF Pcs
    <3>2. ProcInv(p)
      BY DEF Inv
    <3>3. ProcInv(p)'
      BY <1>3, <2>2, <3>1, <3>2 DEF ProcInv, Active, HasRow, Holds, db
    <3> QED BY <1>4, <3>1, <3>3, ProcFrame
  <2> QED BY <1>1, <2>1, <2>2
<1>7. \A k \in Keys : RowInv(k)'
  <2> SUFFICES ASSUME NEW k \in Keys PROVE RowInv(k)'
    OBVIOUS
  <2>1. RowInv(k) BY DEF Inv
  <2>2. sent'[k] => sent[k] \/ (HasRow(k) /\ exec[k].count > 0)
    BY <1>2 DEF Inv, TypeOK, ProcInv
  <2> QED BY <1>3, <2>1, <2>2 DEF RowInv, HasRow, db
<1> QED
  BY <1>3, <1>5, <1>6, <1>7 DEF Inv, TypeOK, QuoteSpentOnce, TaskInv,
       SettledInv, HasRow, Visible, Verdict, db

\* The cluster executes, deepens or drops a transaction.
LEMMA ChainStep ==
  ASSUME Inv, NEW k \in Keys, Land(k) \/ Deepen(k) \/ Reorg(k)
  PROVE  Inv'
<1>1. UNCHANGED <<db, proc, batch, sent>>
  BY DEF Land, Deepen, Reorg
<1>2. chain[k] \in ChainStates /\ RowInv(k)
  BY DEF Inv, TypeOK
<1>3. PICK new \in ChainStates :
        /\ chain' = [chain EXCEPT ![k] = new]
        /\ new.outcome = "err" => erred'[k]
        /\ chain[k].at \in Commitments =>
             new.outcome = chain[k].outcome /\ new.at \in {chain[k].at, "finalized"}
        /\ erred' \in [Keys -> BOOLEAN]
        /\ \A j \in Keys : erred[j] => erred'[j]
  <2>1. CASE Land(k)
    <3>1. PICK o \in {"ok", "short", "err"} :
            /\ chain' = [chain EXCEPT ![k] = [at |-> "processed", outcome |-> o]]
            /\ erred' = [erred EXCEPT ![k] = @ \/ o = "err"]
      BY <2>1 DEF Land
    <3>2. erred' \in [Keys -> BOOLEAN] /\ \A j \in Keys : erred[j] => erred'[j]
      BY <3>1 DEF Inv, TypeOK
    <3>3. o = "err" => erred'[k]
      BY <3>1 DEF Inv, TypeOK
    <3>4. chain[k].at = "absent" BY <2>1 DEF Land
    <3> DEFINE r == [at |-> "processed", outcome |-> o]
    <3>5. r \in ChainStates /\ r.outcome = o
      BY DEF ChainStates
    <3> QED BY <3>1, <3>2, <3>3, <3>4, <3>5 DEF Commitments
  <2>2. CASE Deepen(k)
    <3> DEFINE to == IF chain[k].at = "processed" THEN "confirmed" ELSE "finalized"
               r == [chain[k] EXCEPT !.at = to]
    <3>1. /\ r \in ChainStates /\ r.outcome = chain[k].outcome
          /\ chain[k].at \in Commitments => r.at = "finalized"
      BY <1>2 DEF ChainStates, Commitments
    <3>2. chain' = [chain EXCEPT ![k] = r] /\ erred' = erred
      BY <2>2 DEF Deepen, Inv, TypeOK
    <3>3. r.outcome = "err" => erred'[k]
      BY <1>2, <3>1, <3>2 DEF RowInv
    <3> HIDE DEF r
    <3> QED BY <3>1, <3>2, <3>3 DEF Inv, TypeOK
  <2>3. CASE Reorg(k)
    <3> DEFINE r == [at |-> "absent", outcome |-> "none"]
    <3>1. r \in ChainStates /\ r.outcome # "err"
      BY DEF ChainStates
    <3>2. chain' = [chain EXCEPT ![k] = r] /\ erred' = erred /\ chain[k].at = "processed"
      BY <2>3 DEF Reorg
    <3> QED BY <3>1, <3>2 DEF Inv, TypeOK, Commitments
  <2> QED BY <2>1, <2>2, <2>3
<1>4. /\ chain' \in [Keys -> ChainStates]
      /\ chain'[k] = new /\ \A j \in Keys \ {k} : chain'[j] = chain[j]
  BY <1>3 DEF Inv, TypeOK
<1>5. \A j \in Keys : RowInv(j)'
  <2> SUFFICES ASSUME NEW j \in Keys PROVE RowInv(j)'
    OBVIOUS
  <2>1. RowInv(j) BY DEF Inv
  <2>2. chain'[j].outcome = "err" => erred'[j]
    BY <1>3, <1>4, <2>1 DEF RowInv
  <2> QED BY <1>1, <1>3, <2>1, <2>2 DEF RowInv, HasRow, db
<1>6. \A j \in Keys : SettledInv(j)'
  <2> SUFFICES ASSUME NEW j \in Keys PROVE SettledInv(j)'
    OBVIOUS
  <2>1. SettledInv(j) BY DEF Inv
  <2>2. ASSUME NEW c \in Commitments, Visible(j, c)
        PROVE  Visible(j, c)' /\ chain'[j].outcome = chain[j].outcome
    BY <1>3, <1>4, <2>2 DEF Visible, Commitments
  <2>3. HasRow(j) /\ exec[j].settled # "none" => exec[j].settled \in Commitments
    BY RowTyped DEF Inv, Rows, Settlements
  <2> QED BY <1>1, <2>1, <2>2, <2>3 DEF SettledInv, HasRow, Verdict, db
<1>7. \A b \in Batches, j \in Keys : TaskInv(b, j)'
  BY <1>1, <1>3, TaskFrame DEF HasRow, db
<1>8. \A q \in Procs : Undisturbed(q)
  BY <1>1 DEF Undisturbed, HasRow, db
<1>9. \A q \in Procs : ProcInv(q)'
  BY <1>1, <1>8, ProcFrame
<1> QED
  BY <1>1, <1>3, <1>4, <1>5, <1>6, <1>7, <1>9 DEF Inv, TypeOK, QuoteSpentOnce,
       HasRow, db

\* Blobs lapse and quotes expire.
LEMMA LapseStep ==
  ASSUME Inv,
         \/ \E k \in Keys : BlobLapses(k)
         \/ \E q \in Quotes : QuoteExpires(q)
  PROVE  Inv'
<1>1. ASSUME NEW k \in Keys, BlobLapses(k) PROVE Inv'
  BY <1>1 DEF BlobLapses, Inv, TypeOK, QuoteSpentOnce, ProcInv, TaskInv, RowInv,
       SettledInv, HasRow, Holds, Visible, Verdict, net
<1>2. ASSUME NEW q \in Quotes, QuoteExpires(q) PROVE Inv'
  BY <1>2 DEF QuoteExpires, Inv, TypeOK, QuoteSpentOnce, ProcInv, TaskInv, RowInv,
       SettledInv, HasRow, Holds, Visible, Verdict, net
<1> QED BY <1>1, <1>2

\* A task is planned again: only what it has to do changes.
LEMMA TaskTyped ==
  ASSUME NEW task \in Tasks, NEW w \in Work
  PROVE  /\ [task EXCEPT !.work = w] \in Tasks
         /\ [task EXCEPT !.work = w].work = w
  BY DEF Tasks

\* The answer to a status query plans a failure only for a transaction that
\* erred, and starts no task for a row that was not claimed.
LEMMA BatchStatusesStep ==
  ASSUME Inv, NEW b \in Batches, BatchStatuses(b)
  PROVE  Inv'
<1>1. UNCHANGED <<db, proc, net>>
  BY DEF BatchStatuses
<1>2. PICK views \in [Keys -> UNION {RpcViews(k) : k \in Keys}] :
        /\ \A k \in Keys : batch[b][k].work = "claimed" => views[k] \in RpcViews(k)
        /\ batch' = [batch EXCEPT ![b] = [k \in Keys |->
             IF batch[b][k].work = "claimed"
               THEN [batch[b][k] EXCEPT !.work = Plan(b, k, views[k])]
               ELSE batch[b][k]]]
  BY DEF BatchStatuses
<1>3. ASSUME NEW k \in Keys, views[k] \in RpcViews(k)
      PROVE  /\ Plan(b, k, views[k]) \in Work
             /\ Plan(b, k, views[k]) = "failed" => erred[k]
  <2>1. chain[k] \in ChainStates /\ RowInv(k)
    BY DEF Inv, TypeOK
  <2>2. Truth(k) \in {"absent", "processed", "failed"} \cup Commitments
    BY <2>1 DEF Truth, ChainStates, Commitments
  <2>3. Truth(k) = "failed" => erred[k]
    BY <2>1 DEF Truth, ChainStates, RowInv
  <2>4. /\ views[k] \in {"absent", "malformed", "processed", "failed"} \cup Commitments
        /\ views[k] = "failed" => Truth(k) = "failed"
    BY <1>3, <2>2 DEF RpcViews, Commitments
  <2> QED BY <2>3, <2>4 DEF Plan, Work, Commitments
<1>4. ASSUME NEW k \in Keys
      PROVE  LET new == IF batch[b][k].work = "claimed"
                          THEN [batch[b][k] EXCEPT !.work = Plan(b, k, views[k])]
                          ELSE batch[b][k]
             IN  /\ new \in Tasks
                 /\ new.work # "none" => batch[b][k].work # "none"
                 /\ new.work = "failed" => erred[k]
  <2>1. batch[b][k] \in Tasks /\ TaskInv(b, k)
    BY DEF Inv, TypeOK
  <2>2. CASE batch[b][k].work = "claimed"
    BY <1>2, <1>3, <2>1, <2>2, TaskTyped
  <2>3. CASE batch[b][k].work # "claimed"
    BY <2>1, <2>3 DEF TaskInv
  <2> QED BY <2>2, <2>3
<1>5. batch' \in [Batches -> [Keys -> Tasks]]
  BY <1>2, <1>4 DEF Inv, TypeOK
<1>6. ASSUME NEW d \in Batches, NEW k \in Keys
      PROVE  TaskInv(d, k)'
  <2>1. CASE d # b
    BY <1>1, <1>2, <2>1, TaskFrame DEF Inv, TypeOK, HasRow, db, net
  <2>2. CASE d = b
    <3>1. /\ batch'[b][k].work # "none" => batch[b][k].work # "none"
          /\ batch'[b][k].work = "failed" => erred[k]
      BY <1>2, <1>4 DEF Inv, TypeOK
    <3> QED BY <1>1, <2>2, <3>1 DEF Inv, TaskInv, HasRow, db, net
  <2> QED BY <2>1, <2>2
<1> QED
  BY <1>1, <1>5, <1>6 DEF Inv, TypeOK, QuoteSpentOnce, ProcInv, RowInv,
       SettledInv, HasRow, Holds, Visible, Verdict, db, net

-----------------------------------------------------------------------------
(* Steps that only hand rows on.                                           *)

\* Rows are claimed by a batch, released or annotated: no process gains one.
Hands ==
  /\ exec' \in [Keys -> Rows \cup {NoRow}]
  /\ \A j \in Keys :
       \/ exec'[j] = exec[j]
       \/ /\ HasRow(j) /\ exec'[j] \in Rows
          /\ SameFacts(exec'[j], exec[j])
          /\ exec'[j].op \notin Procs \/ exec'[j].op = exec[j].op

\* Handing rows on leaves their facts and the calls at work alone.
LEMMA HandsLemma ==
  ASSUME Inv, Hands
  PROVE  Touches /\ \A q \in Procs : Undisturbed(q)
<1>1. \A j \in Keys : exec'[j] \in Rows => HasRow(j)'
  BY NoRowAssumption DEF HasRow
<1>2. Touches
  BY <1>1 DEF Hands, Touches
<1>3. ASSUME NEW q \in Procs PROVE Undisturbed(q)
  <2> SUFFICES ASSUME NEW j \in Keys, HasRow(j)
               PROVE  /\ HasRow(j)' /\ (exec[j].count > 0 => exec'[j].count > 0)
                      /\ exec'[j].op = q => /\ exec[j].op = q
                                            /\ exec'[j].state = exec[j].state
                                            /\ exec'[j].sig = exec[j].sig
    BY DEF Undisturbed
  <2>1. CASE exec'[j] = exec[j]
    BY <2>1 DEF HasRow
  <2>2. CASE exec'[j] # exec[j]
    BY <1>1, <2>2 DEF Hands, SameFacts
  <2> QED BY <2>1, <2>2
<1> QED BY <1>2, <1>3

\* A step that hands rows on, moves no process and harms no task is safe.
LEMMA HandsStep ==
  ASSUME Inv, Hands, UNCHANGED <<quote, blob, evidence, proc, net>>,
         batch' \in [Batches -> [Keys -> Tasks]],
         \A b \in Batches, k \in Keys : TaskInv(b, k)'
  PROVE  Inv'
<1>1. Touches /\ \A q \in Procs : Undisturbed(q)
  BY HandsLemma
<1>2. \A q \in Procs : ProcInv(q)'
  BY <1>1, ProcFrame
<1>3. QuoteSpentOnce' /\ \A k \in Keys : RowInv(k)' /\ SettledInv(k)'
  BY <1>1, TouchLemma
<1>4. TypeOK'
  BY DEF Inv, TypeOK, Hands, net
<1> QED BY <1>2, <1>3, <1>4 DEF Inv

\* One row is handed on.
LEMMA OneHands ==
  ASSUME Inv, NEW k \in Keys, HasRow(k), NEW row \in Rows, Write(k, row),
         SameFacts(row, exec[k]), row.op \notin Procs \/ row.op = exec[k].op
  PROVE  Hands
  BY OneRow DEF Hands

\* Nothing happens to the table.
LEMMA NoHands ==
  ASSUME Inv, UNCHANGED exec
  PROVE  Hands
  BY DEF Inv, TypeOK, Hands

\* A task that ends harms no other.
LEMMA DoneTasks ==
  ASSUME Inv, NEW b \in Batches, NEW k \in Keys, Done(b, k),
         \A j \in Keys : HasRow(j) => HasRow(j)' /\ (exec[j].sig => exec'[j].sig),
         UNCHANGED erred
  PROVE  /\ batch' \in [Batches -> [Keys -> Tasks]]
         /\ \A d \in Batches, j \in Keys : TaskInv(d, j)'
<1>1. batch' \in [Batches -> [Keys -> Tasks]]
  BY DoneTyped DEF Inv
<1>2. ASSUME NEW d \in Batches, NEW j \in Keys
      PROVE  batch'[d][j] = batch[d][j] \/ batch'[d][j].work = "none"
  BY DEF Inv, TypeOK, Done, NoTask
<1>3. ASSUME NEW d \in Batches, NEW j \in Keys
      PROVE  TaskInv(d, j)'
  <2>1. CASE batch'[d][j] = batch[d][j]
    BY <2>1, TaskFrame
  <2>2. CASE batch'[d][j].work = "none"
    BY <2>2 DEF TaskInv
  <2> QED BY <1>2, <2>1, <2>2
<1> QED BY <1>1, <1>3

\* A lease that runs out changes no fact.
LEMMA LeaseExpiresStep ==
  ASSUME Inv, NEW k \in Keys, LeaseExpires(k)
  PROVE  Inv' /\ Hands
<1> DEFINE row == [exec[k] EXCEPT !.lease = "over"]
<1>1. HasRow(k) /\ exec[k] \in Rows /\ Write(k, row)
  BY RowTyped DEF LeaseExpires, Inv
<1>2. row \in Rows /\ SameFacts(row, exec[k]) /\ row.op = exec[k].op
  BY <1>1 DEF Rows, Leases, SameFacts
<1> HIDE DEF row
<1>3. Hands
  BY <1>1, <1>2, OneHands
<1>4. UNCHANGED <<quote, blob, evidence, proc, batch, net>>
  BY DEF LeaseExpires
<1>5. \A b \in Batches, j \in Keys : TaskInv(b, j)'
  BY <1>3, <1>4, HandsLemma, TouchTasks
<1> QED BY <1>3, <1>4, <1>5, HandsStep DEF Inv, TypeOK

\* What Released does to a row: nothing, or drop its claim.
LEMMA ReleasedRow ==
  ASSUME Inv, NEW b \in Batches, NEW k \in Keys, HasRow(k)
  PROVE  /\ Released(b, k) \in Rows
         /\ SameFacts(Released(b, k), exec[k])
         /\ Released(b, k).op \notin Procs \/ Released(b, k).op = exec[k].op
<1>1. exec[k] \in Rows
  BY RowTyped DEF Inv
<1>2. Nobody \notin Procs
  BY ActorsAssumption DEF Procs
<1>3. Unclaimed(exec[k]) \in Rows /\ SameFacts(Unclaimed(exec[k]), exec[k])
      /\ Unclaimed(exec[k]).op = Nobody
  BY <1>1 DEF Unclaimed, SameFacts, Rows, Leases
<1> QED BY <1>1, <1>2, <1>3 DEF Released, SameFacts

\* A task ends and releases its row.
LEMMA RowReleaseStep ==
  ASSUME Inv, NEW b \in Batches, NEW k \in Keys,
         batch[b][k].work # "none", Write(k, Released(b, k)), Done(b, k),
         UNCHANGED <<quote, blob, evidence, proc, net>>
  PROVE  Inv' /\ Hands
<1>1. HasRow(k)
  BY DEF Inv, TaskInv
<1>2. Hands
  BY <1>1, ReleasedRow, OneHands
<1>3. \A j \in Keys : HasRow(j) => HasRow(j)' /\ (exec[j].sig => exec'[j].sig)
  BY <1>2, HandsLemma DEF Touches, SameFacts, HasRow
<1> QED BY <1>2, <1>3, DoneTasks, HandsStep DEF net

\* A task quarantines its row.
LEMMA RowQuarantineStep ==
  ASSUME Inv, NEW b \in Batches, NEW k \in Keys, RowQuarantine(b, k)
  PROVE  Inv' /\ Hands
<1> DEFINE row == [exec[k] EXCEPT !.status = "malformed", !.op = Nobody]
<1>1. HasRow(k) /\ exec[k] \in Rows
  BY RowTyped DEF Inv, TaskInv, RowQuarantine, Commitments
<1>2. row \in Rows /\ SameFacts(row, exec[k]) /\ row.op \notin Procs
  BY <1>1, ActorsAssumption DEF Rows, SameFacts, Statuses, Procs
<1>3. Write(k, row) \/ UNCHANGED exec
  BY DEF RowQuarantine
<1> HIDE DEF row
<1>4. Hands
  BY <1>1, <1>2, <1>3, OneHands, NoHands
<1>5. \A j \in Keys : HasRow(j) => HasRow(j)' /\ (exec[j].sig => exec'[j].sig)
  BY <1>4, HandsLemma DEF Touches, SameFacts, HasRow
<1>6. Done(b, k) /\ UNCHANGED <<quote, blob, evidence, proc, net>>
  BY DEF RowQuarantine
<1> QED BY <1>4, <1>5, <1>6, DoneTasks, HandsStep DEF net

\* A batch drops all its claims.
LEMMA ReleaseAllHands ==
  ASSUME Inv, NEW b \in Batches, ReleaseAll(b)
  PROVE  Hands
<1>1. exec' = [j \in Keys |-> IF HasRow(j) THEN Released(b, j) ELSE exec[j]]
  BY DEF ReleaseAll
<1>2. \A j \in Keys : HasRow(j) =>
        /\ Released(b, j) \in Rows
        /\ SameFacts(Released(b, j), exec[j])
        /\ Released(b, j).op \notin Procs \/ Released(b, j).op = exec[j].op
  BY ReleasedRow
<1>3. exec' \in [Keys -> Rows \cup {NoRow}]
  BY <1>1, <1>2 DEF Inv, TypeOK
<1> QED BY <1>1, <1>2, <1>3 DEF Hands

\* The database refuses the evidence, and the batch drops its claims.
LEMMA RowRefusedStep ==
  ASSUME Inv, NEW b \in Batches, NEW k \in Keys, RowRefused(b, k)
  PROVE  Inv' /\ Hands
<1>1. ReleaseAll(b) /\ Done(b, k) /\ UNCHANGED <<quote, blob, evidence, proc, net>>
  BY DEF RowRefused
<1>2. Hands
  BY <1>1, ReleaseAllHands
<1>3. \A j \in Keys : HasRow(j) => HasRow(j)' /\ (exec[j].sig => exec'[j].sig)
  BY <1>2, HandsLemma DEF Touches, SameFacts, HasRow
<1> QED BY <1>1, <1>2, <1>3, DoneTasks, HandsStep DEF net

\* A batch without tasks harms no invariant of a task.
LEMMA IdleTasks ==
  ASSUME Inv, NEW b \in Batches, batch' = [batch EXCEPT ![b] = IdleBatch],
         Hands, UNCHANGED erred
  PROVE  /\ batch' \in [Batches -> [Keys -> Tasks]]
         /\ \A d \in Batches, j \in Keys : TaskInv(d, j)'
<1>1. \A j \in Keys : HasRow(j) => HasRow(j)' /\ (exec[j].sig => exec'[j].sig)
  BY HandsLemma DEF Touches, SameFacts, HasRow
<1>2. IdleBatch \in [Keys -> Tasks] /\ \A j \in Keys : IdleBatch[j].work = "none"
  BY DEF IdleBatch, NoTask, Tasks, Work, Amounts, Settlements
<1>3. batch' \in [Batches -> [Keys -> Tasks]]
  BY <1>2 DEF Inv, TypeOK
<1>4. ASSUME NEW d \in Batches, NEW j \in Keys PROVE TaskInv(d, j)'
  <2>1. CASE d = b
    BY <1>2, <2>1 DEF Inv, TypeOK, TaskInv
  <2>2. CASE d # b
    BY <1>1, <2>2, TaskFrame DEF Inv, TypeOK
  <2> QED BY <2>1, <2>2
<1> QED BY <1>3, <1>4

\* A batch whose status query fails drops its claims and its tasks.
LEMMA BatchFailsStep ==
  ASSUME Inv, NEW b \in Batches, BatchFails(b)
  PROVE  Inv' /\ Hands
<1>1. /\ ReleaseAll(b) /\ batch' = [batch EXCEPT ![b] = IdleBatch]
      /\ UNCHANGED <<quote, blob, evidence, proc, net>>
  BY DEF BatchFails
<1>2. Hands
  BY <1>1, ReleaseAllHands
<1> QED BY <1>1, <1>2, IdleTasks, HandsStep DEF net

\* A batch that dies drops its tasks, and leaves its claims behind.
LEMMA BatchCrashStep ==
  ASSUME Inv, NEW b \in Batches, BatchCrash(b)
  PROVE  Inv' /\ Hands
<1>1. /\ batch' = [batch EXCEPT ![b] = IdleBatch]
      /\ UNCHANGED <<db, proc, net>>
  BY DEF BatchCrash
<1>2. Hands
  BY <1>1, NoHands DEF db
<1> QED BY <1>1, <1>2, IdleTasks, HandsStep DEF db, net

\* A batch claims due rows, all of which have a signature.
LEMMA BatchClaimStep ==
  ASSUME Inv, NEW b \in Batches, NEW S \in SUBSET Keys, BatchClaim(b, S)
  PROVE  Inv' /\ Hands
<1>1. /\ exec' = [j \in Keys |-> IF j \in S THEN Claim(j, b) ELSE exec[j]]
      /\ batch' = [batch EXCEPT ![b] = [j \in Keys |-> IF j \in S
           THEN [work |-> "claimed", amounts |-> exec[j].amounts,
                 settled |-> exec[j].settled]
           ELSE NoTask]]
      /\ UNCHANGED <<quote, blob, evidence, proc, net>>
  BY DEF BatchClaim
<1>2. ASSUME NEW j \in S PROVE HasRow(j) /\ exec[j].sig /\ exec[j] \in Rows
  BY <1>2, RowTyped DEF BatchClaim, Due, ReconcilerSees, Inv
<1>3. b \notin Procs /\ b \in Claimants
  BY ActorsAssumption DEF Procs, Claimants
<1>4. ASSUME NEW j \in S
      PROVE  /\ Claim(j, b) \in Rows /\ SameFacts(Claim(j, b), exec[j])
             /\ Claim(j, b).op \notin Procs
  BY <1>2, <1>3 DEF Claim, SameFacts, Rows, Leases
<1>5. Hands
  <2>1. exec' \in [Keys -> Rows \cup {NoRow}]
    BY <1>1, <1>4 DEF Inv, TypeOK
  <2> QED BY <1>1, <1>2, <1>4, <2>1 DEF Hands
<1>6. \A j \in Keys : HasRow(j) => HasRow(j)' /\ (exec[j].sig => exec'[j].sig)
  BY <1>5, HandsLemma DEF Touches, SameFacts, HasRow
<1>7. batch' \in [Batches -> [Keys -> Tasks]]
  <2>1. ASSUME NEW j \in S
        PROVE  [work |-> "claimed", amounts |-> exec[j].amounts,
                settled |-> exec[j].settled] \in Tasks
    BY <1>2 DEF Rows, Tasks, Work
  <2>2. NoTask \in Tasks
    BY DEF NoTask, Tasks, Work, Amounts, Settlements
  <2> QED BY <1>1, <2>1, <2>2 DEF Inv, TypeOK
<1>8. ASSUME NEW d \in Batches, NEW j \in Keys PROVE TaskInv(d, j)'
  <2>1. CASE d # b
    BY <1>1, <1>6, <2>1, TaskFrame DEF Inv, TypeOK, net
  <2>2. CASE d = b /\ j \in S
    <3>1. batch'[b][j].work = "claimed"
      BY <1>1, <2>2 DEF Inv, TypeOK
    <3>2. HasRow(j)' /\ exec'[j].sig
      BY <1>2, <1>6, <2>2
    <3> QED BY <2>2, <3>1, <3>2 DEF TaskInv
  <2>3. CASE d = b /\ j \notin S
    <3>1. batch'[b][j].work = "none"
      BY <1>1, <2>3 DEF Inv, TypeOK, NoTask
    <3> QED BY <2>3, <3>1 DEF TaskInv
  <2> QED BY <2>1, <2>2, <2>3
<1> QED BY <1>1, <1>5, <1>7, <1>8, HandsStep

-----------------------------------------------------------------------------
(* Steps of a handler or worker that change no fact of a row.              *)

\* A call claims, counts or hands back rows: the others are undisturbed.
LEMMA ProcStep ==
  ASSUME Inv, NEW p \in Procs, Touches,
         exec' \in [Keys -> Rows \cup {NoRow}],
         proc' \in [Procs -> ProcStates],
         \A q \in Procs \ {p} : Undisturbed(q) /\ proc'[q] = proc[q],
         ProcInv(p)', UNCHANGED <<quote, blob, evidence, batch, net>>
  PROVE  Inv'
<1>1. \A q \in Procs : ProcInv(q)'
  BY ProcFrame
<1>2. \A b \in Batches, k \in Keys : TaskInv(b, k)'
  BY TouchTasks
<1>3. QuoteSpentOnce' /\ \A k \in Keys : RowInv(k)' /\ SettledInv(k)'
  BY TouchLemma
<1>4. TypeOK'
  BY DEF Inv, TypeOK, net
<1> QED BY <1>1, <1>2, <1>3, <1>4 DEF Inv

\* A call that ends without writing, or handing back its row.
LEMMA FinishStep ==
  ASSUME Inv, NEW p \in Procs, Finish(p), Hands,
         UNCHANGED <<quote, blob, evidence, batch, net>>
  PROVE  Inv'
  BY HandsLemma, ProcIdle, FinishTyped, ProcStep DEF Inv, Hands

\* A claim of one row by a call disturbs no other call.
LEMMA ClaimLemma ==
  ASSUME Inv, NEW p \in Procs, NEW k \in Keys, HasRow(k), Write(k, Claim(k, p))
  PROVE  /\ Touches /\ exec' \in [Keys -> Rows \cup {NoRow}]
         /\ \A q \in Procs \ {p} : Undisturbed(q)
         /\ HasRow(k)' /\ exec'[k].state = exec[k].state
<1> DEFINE row == Claim(k, p)
<1>1. exec[k] \in Rows
  BY RowTyped DEF Inv
<1>2. row \in Rows /\ SameFacts(row, exec[k]) /\ row.op = p
  BY <1>1 DEF Claim, SameFacts, Rows, Leases, Claimants
<1>3. Write(k, row) OBVIOUS
<1> HIDE DEF row
<1>4. /\ exec' \in [Keys -> Rows \cup {NoRow}] /\ HasRow(k)' /\ exec'[k] = row
  BY <1>2, <1>3, OneRow
<1>5. Touches /\ \A q \in Procs \ {p} : Undisturbed(q)
  BY <1>2, <1>3, OneTouch
<1> QED BY <1>2, <1>4, <1>5 DEF SameFacts

\* A client claims a signed row, or finds it busy.
LEMMA ClaimSubmitStep ==
  ASSUME Inv, NEW c \in Clients, ClaimSubmit(c)
  PROVE  Inv'
<1> DEFINE k == proc[c].key
<1>1. c \in Procs /\ k \in Keys /\ HasRow(k)
  BY DEF Procs, Inv, ProcInv, ClaimSubmit
<1>2. UNCHANGED <<quote, blob, evidence, batch, net>>
  BY DEF ClaimSubmit
<1>3. CASE Finish(c) /\ UNCHANGED exec
  BY <1>1, <1>2, <1>3, NoHands, FinishStep
<1>4. CASE /\ Write(k, Claim(k, c)) /\ exec[k].state = "signed"
           /\ proc' = [proc EXCEPT ![c].pc = "claimed"]
  <2>1. /\ Touches /\ exec' \in [Keys -> Rows \cup {NoRow}]
        /\ \A q \in Procs \ {c} : Undisturbed(q)
        /\ HasRow(k)' /\ exec'[k].state = "signed"
    BY <1>1, <1>4, ClaimLemma
  <2>2. /\ proc' \in [Procs -> ProcStates]
        /\ proc'[c].pc = "claimed" /\ proc'[c].key = k
        /\ \A q \in Procs \ {c} : proc'[q] = proc[q]
    BY <1>1, <1>4, ProcMoves DEF Pcs
  <2>3. ProcInv(c)'
    BY <1>1, <2>1, <2>2 DEF ProcInv
  <2> QED BY <1>1, <1>2, <2>1, <2>2, <2>3, ProcStep
<1> QED BY <1>3, <1>4 DEF ClaimSubmit

\* A worker claims a signed row and opens its transaction.
LEMMA ClaimRecoveryStep ==
  ASSUME Inv, NEW w \in Workers, NEW k \in Keys, ClaimRecovery(w, k)
  PROVE  Inv'
<1>1. w \in Procs /\ HasRow(k) /\ exec[k].state = "signed"
  BY DEF Procs, ClaimRecovery, Recoverable, InState
<1>2. UNCHANGED <<quote, blob, evidence, batch, net>> /\ Write(k, Claim(k, w))
  BY DEF ClaimRecovery
<1>3. PICK found \in {"claimed", "unavailable", "invalid"} :
        proc' = [proc EXCEPT ![w] = [IdleProc EXCEPT !.pc = found, !.key = k]]
  BY DEF ClaimRecovery, Opened
<1> DEFINE r == [IdleProc EXCEPT !.pc = found, !.key = k]
<1>4. r \in ProcStates /\ r.pc = found /\ r.key = k
  BY DEF IdleProc, ProcStates, Pcs
<1>5. proc' = [proc EXCEPT ![w] = r]
  BY <1>3
<1> HIDE DEF r
<1>6. /\ proc' \in [Procs -> ProcStates] /\ proc'[w] = r
      /\ \A q \in Procs \ {w} : proc'[q] = proc[q]
  BY <1>1, <1>4, <1>5 DEF Inv, TypeOK
<1>7. /\ Touches /\ exec' \in [Keys -> Rows \cup {NoRow}]
      /\ \A q \in Procs \ {w} : Undisturbed(q)
      /\ HasRow(k)' /\ exec'[k].state = "signed"
  BY <1>1, <1>2, ClaimLemma
<1>8. ProcInv(w)'
  BY <1>1, <1>4, <1>6, <1>7 DEF ProcInv
<1> QED BY <1>1, <1>2, <1>6, <1>7, <1>8, ProcStep

\* A worker that could not open the transaction gives its row back.
LEMMA MarkRecoveryStep ==
  ASSUME Inv, NEW w \in Workers, MarkRecovery(w)
  PROVE  Inv'
<1> DEFINE k == proc[w].key
<1>1. w \in Procs /\ k \in Keys /\ HasRow(k) /\ exec[k] \in Rows
  BY RowTyped DEF Procs, Inv, ProcInv, MarkRecovery
<1>2. Finish(w) /\ UNCHANGED <<quote, blob, evidence, batch, net>>
  BY DEF MarkRecovery
<1>3. \/ UNCHANGED exec
      \/ \E s \in {"recovery", "manual"}, l \in {"live", "none"} :
           Write(k, [exec[k] EXCEPT !.status = s, !.op = Nobody, !.lease = l])
  BY Zenon DEF MarkRecovery
<1>4. ASSUME NEW s \in {"recovery", "manual"}, NEW l \in {"live", "none"},
             Write(k, [exec[k] EXCEPT !.status = s, !.op = Nobody, !.lease = l])
      PROVE  Hands
  <2> DEFINE row == [exec[k] EXCEPT !.status = s, !.op = Nobody, !.lease = l]
  <2>1. row \in Rows /\ SameFacts(row, exec[k]) /\ row.op \notin Procs
    BY <1>1, ActorsAssumption DEF Rows, SameFacts, Statuses, Leases, Procs
  <2>2. Write(k, row) BY <1>4
  <2> HIDE DEF row
  <2> QED BY <1>1, <2>1, <2>2, OneHands
<1> QED BY <1>1, <1>2, <1>3, <1>4, NoHands, FinishStep

\* A broadcast is counted before the provider is called.
LEMMA StartBroadcastStep ==
  ASSUME Inv, NEW p \in Procs, StartBroadcast(p)
  PROVE  Inv'
<1>0. PICK k \in Keys : k = proc[p].key
  BY DEF Inv, ProcInv, StartBroadcast
<1> DEFINE n == exec[k].count + 1
           row == [exec[k] EXCEPT !.count = n]
           r == [proc[p] EXCEPT !.pc = "calling", !.prior = PriorPossible(exec[k], n),
                                !.sig = exec[k].sig]
<1>1. k \in Keys /\ HasRow(k) /\ exec[k] \in Rows /\ ProcInv(p)
  BY <1>0, RowTyped DEF Inv, ProcInv, StartBroadcast
<1>2. UNCHANGED <<quote, blob, evidence, batch, net>>
  BY DEF StartBroadcast
<1>3. CASE Finish(p) /\ UNCHANGED exec
  BY <1>2, <1>3, NoHands, FinishStep
<1>4. CASE Write(k, row) /\ exec[k].state = "signed" /\ proc' = [proc EXCEPT ![p] = r]
  <2>1. /\ row \in Rows /\ SameFacts(row, exec[k]) /\ row.op = exec[k].op
        /\ row.count > 0 /\ row.sig = exec[k].sig /\ row.state = "signed"
    BY <1>1, <1>4 DEF Rows, SameFacts
  <2>2. r \in ProcStates /\ r.pc = "calling" /\ r.key = k /\ r.sig = exec[k].sig
    <3>1. proc[p] \in ProcStates
      BY DEF Inv, TypeOK
    <3>2. PriorPossible(exec[k], n) \in BOOLEAN
      BY <1>1 DEF PriorPossible, Rows
    <3>3. exec[k].sig \in BOOLEAN
      BY <1>1 DEF Rows
    <3> QED BY <1>0, <3>1, <3>2, <3>3 DEF ProcStates, Pcs
  <2> HIDE DEF r, row
  <2>3. /\ proc' \in [Procs -> ProcStates] /\ proc'[p] = r
        /\ \A q \in Procs \ {p} : proc'[q] = proc[q]
    BY <1>4, <2>2 DEF Inv, TypeOK
  <2>4. exec' \in [Keys -> Rows \cup {NoRow}] /\ exec'[k] = row /\ HasRow(k)'
    BY <1>1, <1>4, <2>1, OneRow
  <2>5. Touches /\ \A q \in Procs : Undisturbed(q)
    BY <1>1, <1>4, <2>1, OneTouch
  <2>6. ProcInv(p)'
    BY <1>1, <2>1, <2>2, <2>3, <2>4 DEF ProcInv
  <2> QED BY <1>2, <2>3, <2>4, <2>5, <2>6, ProcStep
<1>5. proc' = [proc EXCEPT ![p].pc = "calling",
                           ![p].prior = PriorPossible(exec[k], n),
                           ![p].sig = exec[k].sig]
        => proc' = [proc EXCEPT ![p] = r]
  BY DEF Inv, TypeOK
<1> QED BY <1>0, <1>3, <1>4, <1>5 DEF StartBroadcast

-----------------------------------------------------------------------------
(* Steps that change what a row says.                                      *)

\* A row is rewritten and unclaimed: every other row, every call and every
\* task keeps its invariant.
LEMMA ChangeLemma ==
  ASSUME Inv, NEW k \in Keys, HasRow(k), NEW row \in Rows, Write(k, row),
         row.quote = exec[k].quote, row.op = Nobody, row.count = exec[k].count,
         exec[k].sig => row.sig, UNCHANGED <<quote, blob, chain, erred>>,
         \A j \in Keys \ {k} : evidence'[j] = evidence[j],
         \A j \in Keys : sent'[j] => sent[j] \/ (HasRow(j) /\ exec[j].count > 0)
  PROVE  /\ QuoteSpentOnce'
         /\ \A q \in Procs : Undisturbed(q)
         /\ \A j \in Keys : HasRow(j) => HasRow(j)' /\ (exec[j].sig => exec'[j].sig)
         /\ \A j \in Keys \ {k} : RowInv(j)' /\ SettledInv(j)'
<1>1. /\ exec'[k] = row /\ HasRow(k)'
      /\ \A j \in Keys \ {k} : exec'[j] = exec[j]
      /\ \A j \in Keys : HasRow(j)' <=> HasRow(j)
  BY OneRow
<1>2. QuoteSpentOnce'
  <2>1. \A j \in Keys : HasRow(j) => exec'[j].quote = exec[j].quote
    BY <1>1
  <2> QED BY <1>1, <2>1 DEF Inv, QuoteSpentOnce
<1>3. Nobody \notin Procs
  BY ActorsAssumption DEF Procs
<1>4. \A q \in Procs : Undisturbed(q)
  BY <1>1, <1>3 DEF Undisturbed
<1>5. \A j \in Keys : HasRow(j) => HasRow(j)' /\ (exec[j].sig => exec'[j].sig)
  BY <1>1
<1>6. \A j \in Keys \ {k} : RowInv(j)' /\ SettledInv(j)'
  <2> SUFFICES ASSUME NEW j \in Keys \ {k} PROVE RowInv(j)' /\ SettledInv(j)'
    OBVIOUS
  <2>1. RowInv(j) /\ SettledInv(j) /\ exec'[j] = exec[j] /\ (HasRow(j)' <=> HasRow(j))
    BY <1>1 DEF Inv
  <2>2. RowInv(j)'
    BY <2>1 DEF RowInv
  <2>3. SettledInv(j)'
    BY <2>1 DEF SettledInv, Visible, Verdict
  <2> QED BY <2>2, <2>3
<1> QED BY <1>2, <1>4, <1>5, <1>6

\* What a call may write when its provider call ends: the row was signed, and
\* stays so, is submitted with a signature, or failed without one.
Answered(old, new) ==
  /\ old.state = "signed" /\ new.state \in {"signed", "submitted", "failed"}
  /\ new.state = "submitted" => new.sig
  /\ new.state = "failed" => ~ new.sig
  /\ old.sig => new.sig
  /\ new.quote = old.quote /\ new.op = Nobody /\ new.count = old.count
  /\ new.settled = old.settled /\ new.verdict = old.verdict

Answers(k) ==
  \/ UNCHANGED exec
  \/ \E row \in Rows : Write(k, row) /\ Answered(exec[k], row)

\* The end of a provider call is safe.
LEMMA AnswerStep ==
  ASSUME Inv, NEW p \in Procs, proc[p].pc \in {"calling", "delivered"},
         Answers(proc[p].key), MayArrive(p), Finish(p),
         UNCHANGED <<quote, blob, evidence, batch, chain, erred>>
  PROVE  Inv'
<1>0. PICK k \in Keys : k = proc[p].key
  BY DEF Inv, ProcInv
<1>1. HasRow(k) /\ exec[k] \in Rows /\ exec[k].count > 0
  BY <1>0, RowTyped DEF Inv, ProcInv
<1>2. /\ sent' \in [Keys -> BOOLEAN]
      /\ \A j \in Keys : sent'[j] => sent[j] \/ (HasRow(j) /\ exec[j].count > 0)
  BY <1>0, <1>1 DEF MayArrive, Inv, TypeOK
<1>3. /\ proc' \in [Procs -> ProcStates] /\ ProcInv(p)'
      /\ \A q \in Procs \ {p} : proc'[q] = proc[q]
  BY FinishTyped, ProcIdle DEF Inv
<1>4. CASE UNCHANGED exec
  <2>1. \A q \in Procs : Undisturbed(q)
    BY <1>4 DEF Undisturbed, HasRow
  <2>2. \A j \in Keys : RowInv(j)'
    BY <1>2, <1>4 DEF Inv, RowInv, HasRow
  <2>3. \A q \in Procs : ProcInv(q)'
    BY <1>3, <2>1, ProcFrame
  <2> QED
    BY <1>2, <1>3, <1>4, <2>2, <2>3 DEF Inv, TypeOK, QuoteSpentOnce, TaskInv,
         SettledInv, HasRow, Visible, Verdict
<1>5. CASE \E row \in Rows : Write(k, row) /\ Answered(exec[k], row)
  <2>1. PICK row \in Rows : Write(k, row) /\ Answered(exec[k], row)
    BY <1>5
  <2>2. /\ QuoteSpentOnce'
        /\ \A q \in Procs : Undisturbed(q)
        /\ \A j \in Keys : HasRow(j) => HasRow(j)' /\ (exec[j].sig => exec'[j].sig)
        /\ \A j \in Keys \ {k} : RowInv(j)' /\ SettledInv(j)'
    BY <1>1, <1>2, <2>1, ChangeLemma DEF Answered
  <2>3. /\ exec' \in [Keys -> Rows \cup {NoRow}]
        /\ exec'[k] = row /\ HasRow(k)'
    BY <1>1, <2>1, OneRow
  <2>4. RowInv(k) /\ SettledInv(k)
    BY <1>1 DEF Inv
  <2>5. exec[k].settled = "none" /\ exec[k].verdict = "pending" /\ evidence[k] = {}
    <3>1. exec[k].settled \in {"none", "confirmed", "finalized"}
      BY <1>1 DEF Rows, Settlements, Commitments
    <3>2. exec[k].state = "signed"
      BY <2>1 DEF Answered
    <3> QED BY <1>1, <2>4, <3>1, <3>2 DEF RowInv, SettledInv
  <2>6. RowInv(k)'
    BY <1>1, <2>1, <2>3, <2>4, <2>5 DEF RowInv, Answered, Commitments
  <2>7. SettledInv(k)'
    BY <2>1, <2>3, <2>5 DEF SettledInv, Answered
  <2>8. \A q \in Procs : ProcInv(q)'
    BY <1>3, <2>2, ProcFrame
  <2>9. \A b \in Batches, j \in Keys : TaskInv(b, j)'
    BY <2>2, TaskFrame
  <2>10. TypeOK'
    BY <1>2, <1>3, <2>3 DEF Inv, TypeOK
  <2> QED BY <2>2, <2>6, <2>7, <2>8, <2>9, <2>10 DEF Inv
<1> QED BY <1>0, <1>4, <1>5 DEF Answers

\* markAmbiguous leaves the row signed, or submits it with its signature.
LEMMA MarkAmbiguousAnswers ==
  ASSUME Inv, NEW p \in Procs, NEW known \in BOOLEAN,
         proc[p].key \in Keys, HasRow(proc[p].key), MarkAmbiguous(p, known)
  PROVE  Answers(proc[p].key)
<1>0. PICK k \in Keys : k = proc[p].key
  OBVIOUS
<1>1. exec[k] \in Rows
  BY <1>0, RowTyped DEF Inv
<1> DEFINE row == [exec[k] EXCEPT
              !.state = IF known THEN "submitted" ELSE @,
              !.sig = @ \/ known,
              !.status = "ambiguous",
              !.op = Nobody,
              !.lease = IF known THEN "none" ELSE Backoff(p)]
<1>2. CASE exec[k].state = "signed" /\ Write(k, row)
  <2>1. Backoff(p) \in Leases
    BY DEF Backoff, Leases
  <2>2. row \in Rows
    BY <1>1, <2>1 DEF Rows, States, Statuses, Leases
  <2>3. Answered(exec[k], row)
    BY <1>1, <1>2 DEF Answered, Rows
  <2> QED BY <1>0, <1>2, <2>2, <2>3 DEF Answers
<1> QED BY <1>0, <1>2 DEF MarkAmbiguous, Answers

\* markRetryable leaves the row signed.
LEMMA MarkRetryableAnswers ==
  ASSUME Inv, NEW p \in Procs, proc[p].key \in Keys, HasRow(proc[p].key),
         MarkRetryable(p)
  PROVE  Answers(proc[p].key)
<1>0. PICK k \in Keys : k = proc[p].key
  OBVIOUS
<1>1. exec[k] \in Rows
  BY <1>0, RowTyped DEF Inv
<1> DEFINE row == [exec[k] EXCEPT
              !.status = "retryable", !.op = Nobody, !.lease = Backoff(p)]
<1>2. CASE exec[k].state = "signed" /\ Write(k, row)
  <2>1. Backoff(p) \in Leases
    BY DEF Backoff, Leases
  <2>2. row \in Rows
    BY <1>1, <2>1 DEF Rows, Statuses, Leases
  <2>3. Answered(exec[k], row)
    BY <1>1, <1>2 DEF Answered, Rows
  <2> QED BY <1>0, <1>2, <2>2, <2>3 DEF Answers
<1> QED BY <1>0, <1>2 DEF MarkRetryable, Answers

\* The fenced last UPDATE writes what it was given, or nothing.
LEMMA PersistAnswers ==
  ASSUME Inv, NEW p \in Procs, proc[p].key \in Keys, NEW row \in Rows,
         Persist(p, row),
         Holds(p, proc[p].key) => Answered(exec[proc[p].key], Unclaimed(row))
  PROVE  Answers(proc[p].key)
  BY UnclaimedTyped DEF Persist, Answers

\* Each answer of the provider ends the call and writes what an answer may.
LEMMA ReplyAnswers ==
  ASSUME Inv, NEW p \in Procs,
         \/ ReplySuccess(p) \/ ReplyRejected(p) \/ ReplyRetryable(p)
         \/ ReplyAcked(p) \/ ReplyUncertain(p)
  PROVE  /\ proc[p].pc \in {"calling", "delivered"}
         /\ Answers(proc[p].key) /\ MayArrive(p) /\ Finish(p)
         /\ UNCHANGED <<quote, blob, evidence, batch, chain, erred>>
<1>1. proc[p].pc \in {"calling", "delivered"}
  BY DEF ReplySuccess, ReplyRejected, ReplyRetryable, ReplyAcked, ReplyUncertain
<1>2. PICK k \in Keys : k = proc[p].key
  BY <1>1 DEF Inv, ProcInv
<1>3. /\ HasRow(k) /\ exec[k] \in Rows /\ proc[p].sig \in BOOLEAN
      /\ Holds(p, k) => exec[k].state = "signed" /\ exec[k].sig = proc[p].sig
  <2>1. ProcInv(p) /\ proc[p] \in ProcStates
    BY DEF Inv, TypeOK
  <2>2. HasRow(k) /\ proc[p].sig \in BOOLEAN
    BY <1>1, <1>2, <2>1 DEF ProcInv, ProcStates
  <2> QED BY <1>1, <1>2, <2>1, <2>2, RowTyped DEF ProcInv, Active, Inv
<1>4. CASE ReplySuccess(p)
  <2>1. PICK a \in Amounts \ {"none"} :
          Persist(p, [exec[k] EXCEPT !.state = "submitted", !.sig = TRUE,
                                     !.amounts = a, !.status = "provider"])
    BY <1>2, <1>4 DEF ReplySuccess
  <2> DEFINE row == [exec[k] EXCEPT !.state = "submitted", !.sig = TRUE,
                                    !.amounts = a, !.status = "provider"]
  <2>2. row \in Rows
    BY <1>3 DEF Rows, States, Statuses
  <2>3. Holds(p, k) => Answered(exec[k], Unclaimed(row))
    BY <1>3 DEF Answered, Unclaimed, Rows
  <2>4. Persist(p, row) BY <2>1
  <2> HIDE DEF row
  <2>5. Answers(k)
    BY <1>2, <2>2, <2>3, <2>4, PersistAnswers
  <2> QED BY <1>1, <1>2, <1>4, <2>5 DEF ReplySuccess, MayArrive, net
<1>5. CASE ReplyRejected(p)
  <2> DEFINE row == [exec[k] EXCEPT !.state = "failed", !.status = "provider"]
  <2>1. CASE MarkAmbiguous(p, proc[p].sig)
    BY <1>1, <1>2, <1>3, <1>5, <2>1, MarkAmbiguousAnswers DEF ReplyRejected, MayArrive, net
  <2>2. CASE ~ proc[p].sig /\ Persist(p, row)
    <3>1. row \in Rows
      BY <1>3 DEF Rows, States, Statuses
    <3>2. Holds(p, k) => Answered(exec[k], Unclaimed(row))
      BY <1>3, <2>2 DEF Answered, Unclaimed, Rows
    <3> HIDE DEF row
    <3>3. Answers(k)
      BY <1>2, <2>2, <3>1, <3>2, PersistAnswers
    <3> QED BY <1>1, <1>2, <1>5, <3>3 DEF ReplyRejected, MayArrive, net
  <2> QED BY <1>2, <1>5, <2>1, <2>2 DEF ReplyRejected
<1>6. CASE ReplyRetryable(p)
  BY <1>1, <1>2, <1>3, <1>6, MarkAmbiguousAnswers, MarkRetryableAnswers
     DEF ReplyRetryable, MayArrive, net
<1>7. CASE ReplyAcked(p)
  BY <1>1, <1>2, <1>3, <1>7, MarkAmbiguousAnswers DEF ReplyAcked, MayArrive, net
<1>8. CASE ReplyUncertain(p)
  BY <1>1, <1>2, <1>3, <1>8, MarkAmbiguousAnswers DEF ReplyUncertain
<1> QED BY <1>4, <1>5, <1>6, <1>7, <1>8

\* Each answer of the provider is safe.
LEMMA ReplyStep ==
  ASSUME Inv, NEW p \in Procs,
         \/ ReplySuccess(p) \/ ReplyRejected(p) \/ ReplyRetryable(p)
         \/ ReplyAcked(p) \/ ReplyUncertain(p)
  PROVE  Inv'
  BY ReplyAnswers, AnswerStep

\* A row moves to processed, or to failed when the chain executed it with an
\* error.
LEMMA RowTransitionStep ==
  ASSUME Inv, NEW b \in Batches, NEW k \in Keys, RowTransition(b, k)
  PROVE  Inv'
<1> DEFINE to == batch[b][k].work
           row == Unclaimed([exec[k] EXCEPT !.state = to, !.status = "rpc"])
<1>1. /\ to \in {"processed", "failed"} /\ Done(b, k)
      /\ UNCHANGED <<quote, blob, evidence, proc, net>>
  BY DEF RowTransition
<1>2. /\ HasRow(k) /\ exec[k] \in Rows /\ exec[k].sig /\ RowInv(k) /\ SettledInv(k)
      /\ to = "failed" => erred[k]
  BY <1>1, RowTyped DEF Inv, TaskInv
<1>3. CASE Write(k, Released(b, k))
  BY <1>1, <1>3, RowReleaseStep
<1>4. CASE Write(k, row) /\ exec[k].verdict = "pending"
  <2>1. /\ row \in Rows /\ row.quote = exec[k].quote /\ row.op = Nobody
        /\ row.count = exec[k].count /\ row.sig /\ row.state = to
        /\ row.settled = exec[k].settled /\ row.verdict = "pending"
    BY <1>1, <1>2, <1>4 DEF Unclaimed, Rows, States, Statuses, Leases
  <2>2. exec[k].settled = "none" /\ evidence[k] = {}
    BY <1>2, <1>4 DEF RowInv, SettledInv
  <2> HIDE DEF row
  <2>3. /\ QuoteSpentOnce'
        /\ \A q \in Procs : Undisturbed(q)
        /\ \A j \in Keys : HasRow(j) => HasRow(j)' /\ (exec[j].sig => exec'[j].sig)
        /\ \A j \in Keys \ {k} : RowInv(j)' /\ SettledInv(j)'
    BY <1>1, <1>2, <1>4, <2>1, ChangeLemma DEF net
  <2>4. exec' \in [Keys -> Rows \cup {NoRow}] /\ exec'[k] = row /\ HasRow(k)'
    BY <1>2, <1>4, <2>1, OneRow
  <2>5. RowInv(k)'
    BY <1>1, <1>2, <2>1, <2>2, <2>4 DEF RowInv, Commitments, net
  <2>6. SettledInv(k)'
    BY <1>1, <2>1, <2>2, <2>4 DEF SettledInv
  <2>7. batch' \in [Batches -> [Keys -> Tasks]] /\ \A d \in Batches, j \in Keys : TaskInv(d, j)'
    BY <1>1, <2>3, DoneTasks DEF net
  <2>8. \A q \in Procs : ProcInv(q)'
    BY <1>1, <2>3, ProcFrame
  <2>9. TypeOK'
    BY <1>1, <2>4, <2>7 DEF Inv, TypeOK, net
  <2> QED BY <2>3, <2>5, <2>6, <2>7, <2>8, <2>9 DEF Inv
<1> QED BY <1>3, <1>4 DEF RowTransition

\* A row is settled with the evidence its transaction gives, at a commitment
\* the chain has reached.
LEMMA RowSettleStep ==
  ASSUME Inv, NEW b \in Batches, NEW k \in Keys, RowSettle(b, k)
  PROVE  Inv'
<1>1. /\ batch[b][k].work \in Commitments /\ Visible(k, batch[b][k].work)
      /\ Accepted(b, k) /\ Done(b, k) /\ UNCHANGED <<quote, blob, proc, net>>
  BY DEF RowSettle, HasTransaction
<1>2. /\ HasRow(k) /\ exec[k] \in Rows /\ exec[k].sig /\ RowInv(k)
      /\ batch[b][k] \in Tasks
  BY <1>1, RowTyped DEF Inv, TypeOK, TaskInv, Commitments
<1>3. CASE UNCHANGED <<exec, evidence>>
  <2>1. Hands
    BY <1>3, NoHands
  <2>2. \A j \in Keys : HasRow(j) => HasRow(j)' /\ (exec[j].sig => exec'[j].sig)
    BY <1>3 DEF HasRow
  <2> QED BY <1>1, <1>3, <2>1, <2>2, DoneTasks, HandsStep DEF net
<1>4. CASE /\ Write(k, Unclaimed(SettledRow(b, k)))
           /\ evidence' = [evidence EXCEPT ![k] = @ \cup {Decoded(b, k)}]
  <2>1. PICK e \in Evidence :
          /\ e = Decoded(b, k) /\ e.commitment = batch[b][k].work
          /\ e.verdict = Verdict(k, e.amounts) /\ e.verdict \in Verdicts
    <3>1. Verdict(k, batch[b][k].amounts) \in Verdicts
      BY DEF Verdict, Verdicts
    <3>2. Decoded(b, k) \in Evidence
      BY <1>1, <1>2, <3>1 DEF Decoded, Evidence, Tasks
    <3> QED BY <3>1, <3>2 DEF Decoded
  <2>2. e.amounts = exec[k].amounts
    BY <1>1, <2>1 DEF Accepted, SettlementGuard
  <2>3. PICK row \in Rows :
          /\ Write(k, row) /\ row.quote = exec[k].quote /\ row.op = Nobody
          /\ row.count = exec[k].count /\ row.sig /\ row.amounts = exec[k].amounts
          /\ row.state = e.commitment /\ row.settled = e.commitment
          /\ row.verdict = e.verdict
    <3> DEFINE row == Unclaimed(SettledRow(b, k))
    <3>1. /\ row \in Rows /\ row.quote = exec[k].quote /\ row.op = Nobody
          /\ row.count = exec[k].count /\ row.sig /\ row.amounts = exec[k].amounts
          /\ row.state = e.commitment /\ row.settled = e.commitment
          /\ row.verdict = e.verdict
      BY <1>1, <1>2, <2>1 DEF SettledRow, Unclaimed, Rows, Evidence, States,
           Settlements, Statuses, Leases, Commitments
    <3> QED BY <1>4, <3>1
  <2>4. /\ evidence' \in [Keys -> SUBSET Evidence] /\ e \in evidence'[k]
        /\ \A j \in Keys \ {k} : evidence'[j] = evidence[j]
    BY <1>4, <2>1 DEF Inv, TypeOK
  <2>5. /\ QuoteSpentOnce'
        /\ \A q \in Procs : Undisturbed(q)
        /\ \A j \in Keys : HasRow(j) => HasRow(j)' /\ (exec[j].sig => exec'[j].sig)
        /\ \A j \in Keys \ {k} : RowInv(j)' /\ SettledInv(j)'
    BY <1>1, <1>2, <2>3, <2>4, ChangeLemma DEF net
  <2>6. exec' \in [Keys -> Rows \cup {NoRow}] /\ exec'[k] = row /\ HasRow(k)'
    BY <1>2, <2>3, OneRow
  <2>7. RowInv(k)'
    BY <1>1, <1>2, <2>1, <2>3, <2>6 DEF RowInv, Commitments, Verdicts, net
  <2>8. SettledInv(k)'
    <3>1. Visible(k, e.commitment)' /\ e.verdict = Verdict(k, e.amounts)'
      BY <1>1, <2>1 DEF Visible, Verdict, net
    <3>2. e = [commitment |-> e.commitment, verdict |-> e.verdict,
               amounts |-> e.amounts]
      BY <2>1 DEF Evidence
    <3>3. e.commitment # "none"
      BY <1>1, <2>1 DEF Commitments
    <3> QED BY <2>2, <2>3, <2>4, <2>6, <3>1, <3>2, <3>3 DEF SettledInv
  <2>9. /\ batch' \in [Batches -> [Keys -> Tasks]]
        /\ \A d \in Batches, j \in Keys : TaskInv(d, j)'
    BY <1>1, <2>5, DoneTasks DEF net
  <2>10. \A q \in Procs : ProcInv(q)'
    BY <1>1, <2>5, ProcFrame
  <2>11. TypeOK'
    BY <1>1, <2>4, <2>6, <2>9 DEF Inv, TypeOK, net
  <2> QED BY <2>5, <2>7, <2>8, <2>9, <2>10, <2>11 DEF Inv
<1> QED BY <1>3, <1>4 DEF RowSettle

-----------------------------------------------------------------------------
(* Admission.                                                              *)

\* A new row takes an open quote that no other row has.
LEMMA AdmitNewStep ==
  ASSUME Inv, NEW c \in Clients, AdmitNew(c)
  PROVE  Inv'
<1>1. c \in Procs /\ proc[c].key \in Keys /\ proc[c].quote \in Quotes
  BY DEF Procs, Inv, ProcInv, AdmitNew
<1>2. PICK k \in Keys, q \in Quotes : k = proc[c].key /\ q = proc[c].quote
  BY <1>1
<1>3. /\ ~ HasRow(k) /\ \A j \in Keys : HasRow(j) => exec[j].quote # q
      /\ quote' = [quote EXCEPT ![q] = "consumed"]
      /\ Write(k, SignedRow(q))
      /\ blob' = [blob EXCEPT ![k] = "live"]
      /\ proc' = [proc EXCEPT ![c].pc = "admitted"]
      /\ UNCHANGED <<evidence, batch, net>>
  BY <1>2 DEF AdmitNew, CanConsume
<1>4. PICK row \in Rows :
        /\ row = SignedRow(q) /\ row.quote = q /\ row.state = "signed"
        /\ row.settled = "none" /\ row.verdict = "pending"
        /\ row.sig \/ row.quote \in Sponsored
  <2>1. SignedRow(q) \in Rows
    BY DEF SignedRow, Rows, States, Leases, Statuses, Amounts, Settlements
  <2> QED BY <2>1 DEF SignedRow
<1>5. /\ exec' \in [Keys -> Rows \cup {NoRow}]
      /\ exec'[k] = row /\ HasRow(k)'
      /\ \A j \in Keys \ {k} : exec'[j] = exec[j] /\ (HasRow(j)' <=> HasRow(j))
  BY <1>3, <1>4, NoRowAssumption DEF Inv, TypeOK, Write, HasRow
<1>6. QuoteSpentOnce'
  <2>1. /\ quote'[q] = "consumed"
        /\ \A r \in Quotes \ {q} : quote'[r] = quote[r]
    BY <1>3 DEF Inv, TypeOK
  <2>2. \A j \in Keys, l \in Keys :
          HasRow(j)' /\ HasRow(l)' /\ exec'[j].quote = exec'[l].quote => j = l
    BY <1>3, <1>4, <1>5 DEF Inv, QuoteSpentOnce
  <2>3. ASSUME NEW r \in Quotes
        PROVE  quote'[r] = "consumed" <=> \E j \in Keys : HasRow(j)' /\ exec'[j].quote = r
    <3>1. CASE r = q
      BY <1>4, <1>5, <2>1, <3>1
    <3>2. CASE r # q
      BY <1>3, <1>4, <1>5, <2>1, <3>2 DEF Inv, QuoteSpentOnce
    <3> QED BY <3>1, <3>2
  <2> QED BY <2>2, <2>3 DEF QuoteSpentOnce
<1>7. \A p \in Procs : Undisturbed(p)
  BY <1>3, <1>5 DEF Undisturbed
<1>8. /\ proc' \in [Procs -> ProcStates]
      /\ proc'[c].pc = "admitted" /\ proc'[c].key = k
      /\ \A p \in Procs \ {c} : proc'[p] = proc[p]
  BY <1>1, <1>2, <1>3, ProcMoves DEF Pcs
<1>9. \A p \in Procs : ProcInv(p)'
  <2>1. ProcInv(c)'
    BY <1>5, <1>8 DEF ProcInv, Active
  <2> QED BY <1>7, <1>8, <2>1, ProcFrame
<1>10. \A b \in Batches, j \in Keys : TaskInv(b, j)'
  <2>1. \A j \in Keys : HasRow(j) => HasRow(j)' /\ (exec[j].sig => exec'[j].sig)
    BY <1>3, <1>5
  <2> QED BY <1>3, <2>1, TaskFrame DEF net
<1>11. ASSUME NEW j \in Keys PROVE RowInv(j)' /\ SettledInv(j)'
  <2>1. RowInv(j) /\ SettledInv(j)
    BY DEF Inv
  <2>2. CASE j = k
    <3>1. blob'[k] = "live" /\ ~ sent[k] /\ evidence[k] = {}
      BY <1>3, <2>1, <2>2 DEF Inv, TypeOK, RowInv, SettledInv
    <3>2. RowInv(k)'
      BY <1>3, <1>4, <1>5, <2>1, <2>2, <3>1 DEF RowInv, Commitments, net
    <3>3. SettledInv(k)'
      BY <1>3, <1>4, <1>5, <3>1 DEF SettledInv
    <3> QED BY <2>2, <3>2, <3>3
  <2>3. CASE j # k
    <3>1. blob'[j] = blob[j]
      BY <1>3, <2>3 DEF Inv, TypeOK
    <3>2. RowInv(j)'
      BY <1>3, <1>5, <2>1, <2>3, <3>1 DEF RowInv, net
    <3>3. SettledInv(j)'
      BY <1>3, <1>5, <2>1, <2>3 DEF SettledInv, Visible, Verdict, net
    <3> QED BY <3>2, <3>3
  <2> QED BY <2>2, <2>3
<1>12. TypeOK'
  BY <1>3, <1>5, <1>8 DEF Inv, TypeOK, net
<1> QED BY <1>6, <1>9, <1>10, <1>11, <1>12 DEF Inv

-----------------------------------------------------------------------------
(* The theorems.                                                           *)

\* Nothing is stored, running or on chain at the start.
LEMMA InitInv ==
  ASSUME Init
  PROVE  Inv
<1>1. TypeOK
  <2>1. IdleBatch \in [Keys -> Tasks]
    BY DEF IdleBatch, NoTask, Tasks, Work, Amounts, Settlements
  <2>2. IdleProc \in ProcStates
    BY DEF IdleProc, ProcStates, Pcs
  <2> QED BY <2>1, <2>2 DEF Init, TypeOK, ChainStates
<1>2. \A k \in Keys : ~ HasRow(k)
  BY DEF Init, HasRow
<1>3. QuoteSpentOnce
  BY <1>2 DEF Init, QuoteSpentOnce
<1>4. \A p \in Procs : ProcInv(p)
  BY DEF Init, ProcInv, IdleProc, Active
<1>5. \A b \in Batches, k \in Keys : TaskInv(b, k)
  BY DEF Init, TaskInv, IdleBatch, NoTask
<1>6. \A k \in Keys : RowInv(k) /\ SettledInv(k)
  BY <1>2 DEF Init, RowInv, SettledInv
<1> QED BY <1>1, <1>3, <1>4, <1>5, <1>6 DEF Inv

\* Every step preserves the invariant.
LEMMA NextInv ==
  ASSUME Inv, Next
  PROVE  Inv'
<1>1. ASSUME NEW c \in Clients, Submit(c) PROVE Inv'
  BY <1>1, PrepareStep, AdmittedStep, AdmitNewStep, ClaimSubmitStep DEF Submit
<1>2. ASSUME NEW w \in Workers, Recover(w) PROVE Inv'
  BY <1>2, ClaimRecoveryStep, MarkRecoveryStep DEF Recover
<1>3. ASSUME NEW p \in Procs, RunClaimed(p) PROVE Inv'
  BY <1>3, StartBroadcastStep, ReplyStep DEF RunClaimed
<1>4. ASSUME NEW b \in Batches, Reconcile(b) PROVE Inv'
  <2>1. ASSUME NEW k \in Keys, RowTask(b, k) PROVE Inv'
    <3>1. CASE RowRelease(b, k)
      <4>1. batch[b][k].work # "none"
        BY <3>1 DEF RowRelease, Commitments
      <4> QED BY <3>1, <4>1, RowReleaseStep DEF RowRelease
    <3> QED
      BY <2>1, <3>1, RowQuarantineStep, RowTransitionStep, RowSettleStep,
         RowRefusedStep DEF RowTask
  <2> QED
    BY <1>4, <2>1, BatchClaimStep, BatchStatusesStep, BatchFailsStep DEF Reconcile
<1>5. CASE Environment
  BY <1>5, LeaseExpiresStep, LapseStep, ChainStep, SentStep, BatchCrashStep
     DEF Environment
<1> QED BY <1>1, <1>2, <1>3, <1>4, <1>5 DEF Next

\* A step that changes nothing preserves the invariant.
LEMMA StutterInv ==
  ASSUME Inv, UNCHANGED vars
  PROVE  Inv'
  BY DEF vars, Inv, TypeOK, QuoteSpentOnce, ProcInv, TaskInv, RowInv, SettledInv,
     HasRow, Holds, Visible, Verdict

\* The invariant holds throughout: no interleaving of handlers, workers,
\* batches and crashes leaves it.
THEOREM Invariance == Spec => []Inv
<1>1. Init => Inv
  BY InitInv
<1>2. Inv /\ [Next]_vars => Inv'
  BY NextInv, StutterInv
<1> QED BY <1>1, <1>2, PTL DEF Spec

\* The state has its type, whatever the constants.
THEOREM TypeCorrect == Spec => []TypeOK
<1>1. Inv => TypeOK
  BY DEF Inv
<1> QED BY <1>1, Invariance, PTL

\* A quote is spent on at most one execution (submit's admission transaction).
THEOREM QuotesAreSpentOnce == Spec => []QuoteSpentOnce
<1>1. Inv => QuoteSpentOnce
  BY DEF Inv
<1> QED BY <1>1, Invariance, PTL

\* A row that has a signature is failed only by an error on chain.
THEOREM FailuresAreOnChain == Spec => []FailedIsOnChain
<1>1. Inv => FailedIsOnChain
  BY DEF Inv, FailedIsOnChain, RowInv, InState
<1> QED BY <1>1, Invariance, PTL

\* What a settled row says is what the chain and its evidence say.
THEOREM SettlementsAreOnChain == Spec => []SettledIsOnChain
<1>1. Inv => SettledIsOnChain
  BY DEF Inv, SettledIsOnChain, RowInv, SettledInv, InState, Commitments
<1> QED BY <1>1, Invariance, PTL

\* Reports are true.
THEOREM ReportsTrue == Spec => []ReportsAreTrue
<1>1. FailedIsOnChain /\ SettledIsOnChain => ReportsAreTrue
  BY DEF ReportsAreTrue
<1> QED BY <1>1, FailuresAreOnChain, SettlementsAreOnChain, PTL

\* Nothing the provider may have forwarded is lost: its row, its sealed bytes and
\* its count are there, and somebody will look for it.
THEOREM SentIsKept == Spec => []NothingSentIsLost
<1>1. ASSUME Inv, NEW k \in Keys, sent[k]
      PROVE  /\ HasRow(k) /\ blob[k] # "none" /\ exec[k].count > 0
             /\ \/ exec[k].state \in {"failed", "finalized"}
                \/ ReconcilerSees(k)
                \/ Recoverable(k)
                \/ exec[k].status = "manual"
  <2>1. RowInv(k) /\ HasRow(k) /\ exec[k].count > 0 /\ exec[k] \in Rows
    BY <1>1, RowTyped DEF Inv, RowInv
  <2>2. exec[k].state \in {"submitted", "processed", "confirmed"} => ReconcilerSees(k)
    BY <2>1 DEF RowInv, ReconcilerSees
  <2>3. exec[k].state = "signed" => ReconcilerSees(k) \/ Recoverable(k)
                                    \/ exec[k].status = "manual"
    BY <2>1 DEF RowInv, ReconcilerSees, Recoverable, InState
  <2> QED BY <2>1, <2>2, <2>3 DEF RowInv, Rows, States
<1>2. Inv => NothingSentIsLost
  BY <1>1 DEF NothingSentIsLost
<1> QED BY <1>2, Invariance, PTL

-----------------------------------------------------------------------------
(* What a step does to the answers: at most one row moves, and only along  *)
(* the order the user may see.                                             *)

Pending == {"signed", "submitted", "processed"}

\* The step does not change what the row of key j tells.
Still(j) ==
  /\ HasRow(j)' <=> HasRow(j)
  /\ HasRow(j) => /\ exec'[j].quote = exec[j].quote
                  /\ exec'[j].state = exec[j].state
                  /\ exec[j].sig => exec'[j].sig

\* A row moves: forward, failed by the chain or without a signature, or settled
\* at a commitment that the chain has reached.
Advance(old, new, k) ==
  \/ new.state = old.state
  \/ /\ old.state \in Pending /\ new.state \in Pending
     /\ Order(old.state) < Order(new.state)
  \/ /\ old.state \in Pending /\ new.state = "failed"
     /\ erred[k] \/ old.quote \in Sponsored
  \/ /\ old.state \in Pending /\ new.state \in Commitments
     /\ Visible(k, new.state)
  \/ /\ old.state = "confirmed" /\ new.state = "finalized"
     /\ Visible(k, "finalized")

Moves(k) ==
  /\ \A j \in Keys \ {k} : Still(j)
  /\ HasRow(k) /\ HasRow(k)'
  /\ exec'[k].quote = exec[k].quote
  /\ exec[k].sig => exec'[k].sig
  /\ Advance(exec[k], exec'[k], k)

Admits(k) ==
  /\ \A j \in Keys \ {k} : Still(j)
  /\ ~ HasRow(k) /\ HasRow(k)'
  /\ exec'[k].state = "signed" /\ exec'[k].quote \in Quotes
  /\ \A j \in Keys : HasRow(j) => exec[j].quote # exec'[k].quote

Quiet == \A j \in Keys : Still(j)

\* A step writes rows while the chain stays, or moves the chain.
Tells ==
  \/ /\ UNCHANGED <<chain, erred>>
     /\ Quiet \/ \E k \in Keys : Moves(k) \/ Admits(k)
  \/ UNCHANGED exec /\ \E k \in Keys : Land(k) \/ Deepen(k) \/ Reorg(k)

\* A step that leaves the table alone is quiet.
LEMMA SameQuiet ==
  ASSUME UNCHANGED exec
  PROVE  Quiet
  BY DEF Quiet, Still, HasRow

\* Writing a row that tells the same is quiet.
LEMMA WriteQuiet ==
  ASSUME Inv, NEW k \in Keys, HasRow(k), NEW row \in Rows, Write(k, row),
         row.quote = exec[k].quote, row.state = exec[k].state,
         exec[k].sig => row.sig
  PROVE  Quiet
<1>1. /\ exec'[k] = row
      /\ \A j \in Keys \ {k} : exec'[j] = exec[j]
      /\ \A j \in Keys : HasRow(j)' <=> HasRow(j)
  BY OneRow
<1> QED BY <1>1 DEF Quiet, Still

\* Rows that are only handed on tell the same.
LEMMA HandsQuiet ==
  ASSUME Inv, Hands
  PROVE  Quiet
<1>1. Touches
  BY HandsLemma
<1> QED BY <1>1 DEF Touches, SameFacts, Quiet, Still, HasRow

\* Claiming a row is quiet.
LEMMA ClaimQuiet ==
  ASSUME Inv, NEW p \in Procs, NEW k \in Keys, HasRow(k), Write(k, Claim(k, p))
  PROVE  Quiet
<1>1. Touches
  BY ClaimLemma
<1> QED BY <1>1 DEF Touches, SameFacts, Quiet, Still, HasRow


\* A submission admits a row or tells nothing.
LEMMA SubmitTells ==
  ASSUME Inv, NEW c \in Clients, Submit(c)
  PROVE  Tells
<1>1. CASE (\E k \in Keys, q \in Quotes : Prepare(c, k, q)) \/ AdmitExisting(c) \/ AdmitRefused(c)
  <2>1. UNCHANGED <<exec, chain, erred>>
    BY <1>1 DEF Prepare, AdmitExisting, AdmitRefused, db, net
  <2> QED BY <2>1, SameQuiet DEF Tells
<1>2. CASE AdmitNew(c)
  <2>1. PICK k \in Keys, q \in Quotes : k = proc[c].key /\ q = proc[c].quote
    <3>1. c \in Procs /\ proc[c].key \in Keys /\ proc[c].quote \in Quotes
      BY <1>2 DEF Procs, Inv, ProcInv, AdmitNew
    <3> QED BY <3>1
  <2>2. /\ ~ HasRow(k) /\ \A j \in Keys : HasRow(j) => exec[j].quote # q
        /\ exec' = [exec EXCEPT ![k] = SignedRow(q)] /\ UNCHANGED <<chain, erred>>
    BY <1>2, <2>1 DEF AdmitNew, CanConsume, Write, net
  <2>3. SignedRow(q) # NoRow /\ SignedRow(q).quote = q /\ SignedRow(q).state = "signed"
    <3>1. SignedRow(q) \in Rows
      BY DEF SignedRow, Rows, States, Leases, Statuses, Amounts, Settlements
    <3> QED BY <3>1, NoRowAssumption DEF SignedRow
  <2>4. /\ exec'[k] = SignedRow(q)
        /\ \A j \in Keys \ {k} : exec'[j] = exec[j]
    BY <2>2 DEF Inv, TypeOK
  <2>5. \A j \in Keys \ {k} : Still(j)
    BY <2>4 DEF Still, HasRow
  <2>6. Admits(k)
    BY <2>2, <2>3, <2>4, <2>5 DEF Admits, HasRow
  <2> QED BY <2>2, <2>6 DEF Tells
<1>3. CASE ClaimSubmit(c)
  <2>1. PICK k \in Keys : k = proc[c].key
    BY <1>3 DEF Procs, Inv, ProcInv, ClaimSubmit
  <2>2. UNCHANGED exec \/ (HasRow(k) /\ Write(k, Claim(k, c)))
    BY <1>3, <2>1 DEF Procs, Inv, ProcInv, ClaimSubmit
  <2>3. Quiet
    BY <2>2, SameQuiet, ClaimQuiet DEF Procs
  <2> QED BY <1>3, <2>3 DEF Tells, ClaimSubmit, net
<1> QED BY <1>1, <1>2, <1>3 DEF Submit

\* Recovery claims rows and gives them back.
LEMMA RecoverTells ==
  ASSUME Inv, NEW w \in Workers, Recover(w)
  PROVE  Tells
<1>1. ASSUME NEW k \in Keys, ClaimRecovery(w, k) PROVE Tells
  <2>1. HasRow(k) /\ Write(k, Claim(k, w)) /\ UNCHANGED <<chain, erred>>
    BY <1>1 DEF ClaimRecovery, Recoverable, InState, net
  <2> QED BY <2>1, ClaimQuiet DEF Procs, Tells
<1>2. CASE MarkRecovery(w)
  <2>1. PICK k \in Keys : k = proc[w].key
    BY <1>2 DEF Procs, Inv, ProcInv, MarkRecovery
  <2>2. HasRow(k) /\ exec[k] \in Rows
    BY <1>2, <2>1, RowTyped DEF Procs, Inv, ProcInv, MarkRecovery
  <2>3. \/ UNCHANGED exec
        \/ \E s \in {"recovery", "manual"}, l \in {"live", "none"} :
             Write(k, [exec[k] EXCEPT !.status = s, !.op = Nobody, !.lease = l])
    BY <1>2, <2>1, Zenon DEF MarkRecovery
  <2>4. ASSUME NEW s \in {"recovery", "manual"}, NEW l \in {"live", "none"},
               Write(k, [exec[k] EXCEPT !.status = s, !.op = Nobody, !.lease = l])
        PROVE  Quiet
    <3> DEFINE row == [exec[k] EXCEPT !.status = s, !.op = Nobody, !.lease = l]
    <3>1. /\ row \in Rows /\ row.quote = exec[k].quote /\ row.state = exec[k].state
          /\ row.sig = exec[k].sig
      BY <2>2 DEF Rows, Statuses, Leases
    <3>2. Write(k, row) BY <2>4
    <3> HIDE DEF row
    <3> QED BY <2>2, <3>1, <3>2, WriteQuiet
  <2>5. Quiet
    BY <2>3, <2>4, SameQuiet
  <2> QED BY <1>2, <2>5 DEF Tells, MarkRecovery, net
<1> QED BY <1>1, <1>2 DEF Recover

\* The end of a provider call submits the row, or fails one without a signature.
LEMMA AnswerTells ==
  ASSUME Inv, NEW k \in Keys, HasRow(k), Answers(k), UNCHANGED <<chain, erred>>
  PROVE  Tells
<1>1. CASE UNCHANGED exec
  BY <1>1, SameQuiet DEF Tells
<1>2. CASE \E row \in Rows : Write(k, row) /\ Answered(exec[k], row)
  <2>1. PICK row \in Rows : Write(k, row) /\ Answered(exec[k], row)
    BY <1>2
  <2>2. /\ exec'[k] = row /\ HasRow(k)'
        /\ \A j \in Keys \ {k} : exec'[j] = exec[j]
    BY <2>1, OneRow
  <2>3. \A j \in Keys \ {k} : Still(j)
    BY <2>2 DEF Still, HasRow
  <2>4. exec[k].sig \/ exec[k].quote \in Sponsored
    BY DEF Inv, RowInv
  <2>5. Advance(exec[k], row, k)
    BY <2>1, <2>4 DEF Answered, Advance, Pending, Order
  <2>6. Moves(k)
    BY <2>1, <2>2, <2>3, <2>5 DEF Moves, Answered
  <2> QED BY <2>6 DEF Tells
<1> QED BY <1>1, <1>2 DEF Answers

\* A client or a recovery worker changes the row only as its status allows.
LEMMA RunTells ==
  ASSUME Inv, NEW p \in Procs, RunClaimed(p)
  PROVE  Tells
<1>1. CASE StartBroadcast(p)
  <2>1. PICK k \in Keys : k = proc[p].key
    BY <1>1 DEF Inv, ProcInv, StartBroadcast
  <2> DEFINE row == [exec[k] EXCEPT !.count = exec[k].count + 1]
  <2>2. HasRow(k) /\ exec[k] \in Rows
    BY <1>1, <2>1, RowTyped DEF Inv, ProcInv, StartBroadcast
  <2>3. /\ row \in Rows /\ row.quote = exec[k].quote /\ row.state = exec[k].state
        /\ row.sig = exec[k].sig
    BY <2>2 DEF Rows
  <2>4. Write(k, row) \/ UNCHANGED exec
    BY <1>1, <2>1 DEF StartBroadcast
  <2> HIDE DEF row
  <2>5. Quiet
    BY <2>2, <2>3, <2>4, SameQuiet, WriteQuiet
  <2> QED BY <1>1, <2>5 DEF Tells, StartBroadcast, net
<1>2. CASE \/ ReplySuccess(p) \/ ReplyRejected(p) \/ ReplyRetryable(p)
           \/ ReplyAcked(p) \/ ReplyUncertain(p)
  <2>1. /\ proc[p].pc \in {"calling", "delivered"} /\ Answers(proc[p].key)
        /\ UNCHANGED <<chain, erred>>
    BY <1>2, ReplyAnswers
  <2>2. PICK k \in Keys : k = proc[p].key /\ HasRow(k)
    BY <2>1 DEF Inv, ProcInv
  <2> QED BY <2>1, <2>2, AnswerTells
<1> QED BY <1>1, <1>2 DEF RunClaimed


\* A row that is written with a further answer moves.
LEMMA WriteMoves ==
  ASSUME Inv, NEW k \in Keys, HasRow(k), NEW row \in Rows, Write(k, row),
         row.quote = exec[k].quote, exec[k].sig => row.sig,
         Advance(exec[k], row, k), UNCHANGED <<chain, erred>>
  PROVE  Tells
<1>1. /\ exec'[k] = row /\ HasRow(k)'
      /\ \A j \in Keys \ {k} : exec'[j] = exec[j]
  BY OneRow
<1>2. \A j \in Keys \ {k} : Still(j)
  BY <1>1 DEF Still, HasRow
<1> QED BY <1>1, <1>2 DEF Moves, Tells

\* A transition goes forward by rank, or reports an error of the chain.
LEMMA RowTransitionTells ==
  ASSUME Inv, NEW b \in Batches, NEW k \in Keys, RowTransition(b, k)
  PROVE  Tells
<1> DEFINE to == batch[b][k].work
           row == Unclaimed([exec[k] EXCEPT !.state = to, !.status = "rpc"])
<1>1. /\ to \in {"processed", "failed"} /\ Done(b, k)
      /\ UNCHANGED <<quote, blob, evidence, proc, net>>
  BY DEF RowTransition
<1>2. /\ HasRow(k) /\ exec[k] \in Rows /\ exec[k].sig /\ RowInv(k)
      /\ to = "failed" => erred[k]
  BY <1>1, RowTyped DEF Inv, TaskInv
<1>3. CASE Write(k, Released(b, k))
  <2>1. Hands
    BY <1>1, <1>3, RowReleaseStep
  <2> QED BY <1>1, <2>1, HandsQuiet DEF Tells, net
<1>4. CASE /\ Write(k, row) /\ exec[k].verdict = "pending" /\ Unresolved(exec[k])
           /\ to = "failed" \/ Rank(exec[k].state) < Rank(to)
  <2>1. /\ row \in Rows /\ row.quote = exec[k].quote /\ row.sig /\ row.state = to
    BY <1>1, <1>2, <1>4 DEF Unclaimed, Rows, States, Statuses, Leases
  <2>2. exec[k].state \in Pending
    <3>1. exec[k].state # "confirmed"
      BY <1>2, <1>4 DEF RowInv, Commitments
    <3> QED BY <1>4, <3>1 DEF Unresolved, Pending
  <2>3. ASSUME to = "failed" PROVE Advance(exec[k], row, k)
    BY <1>2, <2>1, <2>2, <2>3 DEF Advance
  <2>4. ASSUME to = "processed" PROVE Advance(exec[k], row, k)
    <3>1. exec[k].state \in {"signed", "submitted"}
      BY <1>4, <2>2, <2>4 DEF Rank, Pending
    <3>2. Order(exec[k].state) < Order("processed")
      BY <3>1 DEF Order
    <3> QED BY <2>1, <2>2, <2>4, <3>2 DEF Advance, Pending
  <2>5. Advance(exec[k], row, k)
    BY <1>1, <2>3, <2>4
  <2> HIDE DEF row
  <2> QED BY <1>1, <1>2, <1>4, <2>1, <2>5, WriteMoves DEF net
<1> QED BY <1>3, <1>4 DEF RowTransition

\* Settling moves the row to a commitment the chain has reached, and a confirmed
\* row only to finalized: its confirmed evidence is stored already.
LEMMA RowSettleTells ==
  ASSUME Inv, NEW b \in Batches, NEW k \in Keys, RowSettle(b, k)
  PROVE  Tells
<1>1. /\ batch[b][k].work \in Commitments /\ Visible(k, batch[b][k].work)
      /\ Accepted(b, k) /\ Done(b, k) /\ UNCHANGED <<quote, blob, proc, net>>
  BY DEF RowSettle, HasTransaction
<1>2. /\ HasRow(k) /\ exec[k] \in Rows /\ exec[k].sig /\ RowInv(k) /\ SettledInv(k)
      /\ batch[b][k] \in Tasks
  BY <1>1, RowTyped DEF Inv, TypeOK, TaskInv, Commitments
<1>3. CASE UNCHANGED <<exec, evidence>>
  BY <1>1, <1>3, SameQuiet DEF Tells, net
<1>4. CASE Write(k, Unclaimed(SettledRow(b, k))) /\ Unresolved(exec[k])
  <2>1. PICK to \in Commitments : to = batch[b][k].work
    BY <1>1
  <2>2. PICK row \in Rows :
          /\ Write(k, row) /\ row.quote = exec[k].quote /\ row.sig
          /\ row.state = to
    <3> DEFINE row == Unclaimed(SettledRow(b, k))
    <3>1. PICK e \in Evidence : e = Decoded(b, k) /\ e.commitment = to
      <4>1. Verdict(k, batch[b][k].amounts) \in Verdicts
        BY DEF Verdict, Verdicts
      <4>2. Decoded(b, k) \in Evidence
        BY <1>1, <1>2, <4>1 DEF Decoded, Evidence, Tasks
      <4> QED BY <2>1, <4>2 DEF Decoded
    <3>2. /\ row \in Rows /\ row.quote = exec[k].quote /\ row.sig /\ row.state = to
      BY <1>2, <2>1, <3>1 DEF SettledRow, Unclaimed, Rows, Evidence, States,
           Settlements, Statuses, Leases, Commitments
    <3> QED BY <1>4, <3>2
  <2>3. ASSUME exec[k].state = "confirmed"
        PROVE  to = "finalized"
    <3>1. PICK old \in evidence[k] : old.commitment = "confirmed"
      BY <1>2, <2>3 DEF RowInv, SettledInv, Commitments
    <3>2. old.commitment # to
      BY <1>1, <2>1 DEF Accepted, SettlementGuard, Decoded
    <3> QED BY <2>1, <3>1, <3>2 DEF Commitments
  <2>4. exec[k].state \in Pending \/ exec[k].state = "confirmed"
    BY <1>4 DEF Unresolved, Pending
  <2>5. Advance(exec[k], row, k)
    BY <1>1, <2>1, <2>2, <2>3, <2>4 DEF Advance
  <2> QED BY <1>1, <1>2, <2>2, <2>5, WriteMoves DEF net
<1> QED BY <1>3, <1>4 DEF RowSettle

\* So does a batch that reads the chain.
LEMMA ReconcileTells ==
  ASSUME Inv, NEW b \in Batches, Reconcile(b)
  PROVE  Tells
<1>1. ASSUME NEW S \in SUBSET Keys, BatchClaim(b, S) PROVE Tells
  BY <1>1, BatchClaimStep, HandsQuiet DEF BatchClaim, Tells, net
<1>2. CASE BatchStatuses(b)
  BY <1>2, SameQuiet DEF BatchStatuses, Tells, db, net
<1>3. CASE BatchFails(b)
  BY <1>3, BatchFailsStep, HandsQuiet DEF BatchFails, Tells, net
<1>4. ASSUME NEW k \in Keys, RowTask(b, k) PROVE Tells
  <2>1. CASE RowRelease(b, k)
    <3>1. batch[b][k].work # "none"
      BY <2>1 DEF RowRelease, Commitments
    <3> QED BY <2>1, <3>1, RowReleaseStep, HandsQuiet DEF RowRelease, Tells, net
  <2>2. CASE RowQuarantine(b, k)
    BY <2>2, RowQuarantineStep, HandsQuiet DEF RowQuarantine, Tells, net
  <2>3. CASE RowRefused(b, k)
    BY <2>3, RowRefusedStep, HandsQuiet DEF RowRefused, Tells, net
  <2> QED BY <1>4, <2>1, <2>2, <2>3, RowTransitionTells, RowSettleTells DEF RowTask
<1> QED BY <1>1, <1>2, <1>3, <1>4 DEF Reconcile

\* The chain and the clock change no row.
LEMMA EnvironmentTells ==
  ASSUME Inv, Environment
  PROVE  Tells
<1>1. ASSUME NEW k \in Keys, LeaseExpires(k) PROVE Tells
  BY <1>1, LeaseExpiresStep, HandsQuiet DEF LeaseExpires, Tells, net
<1>2. ASSUME NEW k \in Keys, BlobLapses(k) PROVE Tells
  BY <1>2, SameQuiet DEF BlobLapses, Tells, net
<1>3. ASSUME NEW q \in Quotes, QuoteExpires(q) PROVE Tells
  BY <1>3, SameQuiet DEF QuoteExpires, Tells, net
<1>4. ASSUME NEW k \in Keys, Land(k) \/ Deepen(k) \/ Reorg(k) PROVE Tells
  BY <1>4 DEF Land, Deepen, Reorg, Tells, db
<1>5. ASSUME NEW p \in Procs, Deliver(p) \/ Crash(p) PROVE Tells
  BY <1>5, SameQuiet DEF Deliver, Crash, Tells, db
<1>6. ASSUME NEW b \in Batches, BatchCrash(b) PROVE Tells
  BY <1>6, SameQuiet DEF BatchCrash, Tells, db, net
<1> QED BY <1>1, <1>2, <1>3, <1>4, <1>5, <1>6 DEF Environment

\* Every step changes rows only as their status allows.
LEMMA StepTells ==
  ASSUME Inv, [Next]_vars
  PROVE  Tells
<1>1. CASE UNCHANGED vars
  BY <1>1, SameQuiet DEF vars, Tells
<1>2. CASE Next
  BY <1>2, SubmitTells, RecoverTells, RunTells, ReconcileTells, EnvironmentTells
     DEF Next
<1> QED BY <1>1, <1>2

\* What the user has been told is never taken back, whoever writes last.
THEOREM AnswersStand == Spec => NeverTakenBack
<1> DEFINE Kept == \A k \in Keys : HasRow(k) =>
              /\ exec'[k] # NoRow /\ Forward(exec[k], exec'[k])
              /\ exec[k].sig => exec'[k].sig
<1>1. ASSUME Inv, [Next]_vars
      PROVE  Kept
  <2> SUFFICES ASSUME NEW k \in Keys, HasRow(k)
               PROVE  /\ exec'[k] # NoRow /\ Forward(exec[k], exec'[k])
                      /\ exec[k].sig => exec'[k].sig
    OBVIOUS
  <2>1. CASE Still(k)
    BY <2>1 DEF Still, HasRow, Forward
  <2>2. CASE Moves(k)
    <3>1. Forward(exec[k], exec'[k])
      BY <2>2 DEF Moves, Advance, Forward, Order, Pending, Commitments
    <3> QED BY <2>2, <3>1 DEF Moves, HasRow
  <2>3. CASE UNCHANGED exec
    BY <2>3 DEF HasRow, Forward
  <2>4. Still(k) \/ Moves(k) \/ UNCHANGED exec
    BY <1>1, StepTells DEF Tells, Quiet, Moves, Admits
  <2> QED BY <2>1, <2>2, <2>3, <2>4
<1> QED BY <1>1, Invariance, PTL DEF Spec, NeverTakenBack


-----------------------------------------------------------------------------
(* The service implements its promise.                                     *)

\* The variables of SwapPromise, read off the tables.
Swaps    == [k \in Keys |-> IF HasRow(k) THEN exec[k].quote ELSE NoRow]
Tolds    == [k \in Keys |-> Told(k)]
OnChains == [k \in Keys |-> OnChain(k)]

\* A row that tells the same keeps its quote and its answer.
LEMMA StillMaps ==
  ASSUME NEW j \in Keys, Still(j)
  PROVE  Swaps'[j] = Swaps[j] /\ Tolds'[j] = Tolds[j]
<1>1. CASE HasRow(j)
  BY <1>1 DEF Still, Swaps, Tolds, Told
<1>2. CASE ~ HasRow(j)
  BY <1>2 DEF Still, Swaps, Tolds, Told
<1> QED BY <1>1, <1>2

\* A quiet step is invisible.
LEMMA QuietMaps ==
  ASSUME Quiet, UNCHANGED <<chain, erred>>
  PROVE  UNCHANGED Promise!pvars
<1>1. Swaps' = Swaps /\ Tolds' = Tolds
  <2>1. \A j \in Keys : Swaps'[j] = Swaps[j] /\ Tolds'[j] = Tolds[j]
    BY StillMaps DEF Quiet
  <2> QED BY <2>1 DEF Swaps, Tolds
<1>2. OnChains' = OnChains
  BY DEF OnChains, OnChain
<1> QED BY <1>1, <1>2 DEF Promise!pvars, Swaps, Tolds, OnChains

\* An admission accepts the swap.
LEMMA AdmitMaps ==
  ASSUME Inv, NEW k \in Keys, Admits(k), UNCHANGED <<chain, erred>>
  PROVE  Promise!Next
<1>1. PICK q \in Quotes : q = exec'[k].quote /\ q # NoRow
  BY NoRowAssumption DEF Admits
<1>2. Tolds[k] = "nothing"
  BY DEF Admits, Tolds, Told
<1>3. \A l \in Keys : Swaps[l] # q
  BY <1>1 DEF Admits, Swaps
<1>4. Swaps' = [Swaps EXCEPT ![k] = q]
  <2>1. Swaps'[k] = q
    BY <1>1 DEF Admits, Swaps
  <2>2. \A j \in Keys \ {k} : Swaps'[j] = Swaps[j]
    BY StillMaps DEF Admits
  <2> QED BY <2>1, <2>2 DEF Swaps
<1>5. Tolds' = [Tolds EXCEPT ![k] = "pending"]
  <2>1. Tolds'[k] = "pending"
    BY DEF Admits, Tolds, Told
  <2>2. \A j \in Keys \ {k} : Tolds'[j] = Tolds[j]
    BY StillMaps DEF Admits
  <2> QED BY <2>1, <2>2 DEF Tolds
<1>6. OnChains' = OnChains
  BY DEF OnChains, OnChain
<1>7. Promise!Accept(k, q)
  BY <1>2, <1>3, <1>4, <1>5, <1>6
     DEF Promise!Accept, Promise!Tell, Swaps, Tolds, OnChains
<1> QED BY <1>1, <1>7 DEF Promise!Next

\* A row that moves tells the next answer, or the same.
LEMMA MoveMaps ==
  ASSUME Inv, NEW k \in Keys, Moves(k), UNCHANGED <<chain, erred>>
  PROVE  [Promise!Next]_Promise!pvars
<1>1. Swaps' = Swaps
  <2>1. Swaps'[k] = Swaps[k]
    BY DEF Moves, Swaps
  <2>2. \A j \in Keys \ {k} : Swaps'[j] = Swaps[j]
    BY StillMaps DEF Moves
  <2> QED BY <2>1, <2>2 DEF Swaps
<1>2. OnChains' = OnChains
  BY DEF OnChains, OnChain
<1>3. /\ Tolds[k] = Told(k) /\ Swaps[k] = exec[k].quote
      /\ Tolds' = [Tolds EXCEPT ![k] = Told(k)']
  <2>1. \A j \in Keys \ {k} : Tolds'[j] = Tolds[j]
    BY StillMaps DEF Moves
  <2> QED BY <2>1 DEF Tolds, Swaps, Moves
<1>4. ASSUME Told(k)' = Told(k)
      PROVE  UNCHANGED Promise!pvars
  <2>1. Tolds' = Tolds
    BY <1>3, <1>4 DEF Tolds
  <2> QED BY <1>1, <1>2, <2>1 DEF Promise!pvars, Swaps, Tolds, OnChains
<1>5. ASSUME Told(k)' = "failed", Told(k) = "pending",
             erred[k] \/ exec[k].quote \in Sponsored
      PROVE  Promise!Next
  <2>1. Promise!Fail(k)
    BY <1>1, <1>2, <1>3, <1>5 DEF Promise!Fail, Promise!Tell, Swaps, Tolds, OnChains
  <2> QED BY <2>1 DEF Promise!Next
<1>6. ASSUME Told(k)' = "confirmed", Told(k) = "pending", Visible(k, "confirmed")
      PROVE  Promise!Next
  <2>1. OnChains[k] \in {"confirmed", "finalized"}
    BY <1>6 DEF Visible, OnChains, OnChain, Commitments
  <2>2. Promise!Confirm(k)
    BY <1>1, <1>2, <1>3, <1>6, <2>1
       DEF Promise!Confirm, Promise!Tell, Swaps, Tolds, OnChains
  <2> QED BY <2>2 DEF Promise!Next
<1>7. ASSUME Told(k)' = "finalized", Told(k) \in {"pending", "confirmed"},
             Visible(k, "finalized")
      PROVE  Promise!Next
  <2>1. OnChains[k] = "finalized"
    BY <1>7 DEF Visible, OnChains, OnChain, Commitments
  <2>2. Promise!Finalize(k)
    BY <1>1, <1>2, <1>3, <1>7, <2>1
       DEF Promise!Finalize, Promise!Tell, Swaps, Tolds, OnChains
  <2> QED BY <2>2 DEF Promise!Next
<1>8. HasRow(k) /\ HasRow(k)' /\ Advance(exec[k], exec'[k], k)
  BY DEF Moves
<1>9. CASE exec'[k].state = exec[k].state
  <2>1. Told(k)' = Told(k)
    BY <1>8, <1>9 DEF Told
  <2> QED BY <1>4, <2>1
<1>10. CASE exec[k].state \in Pending /\ exec'[k].state \in Pending
  <2>1. Told(k)' = Told(k)
    BY <1>8, <1>10 DEF Told, Pending
  <2> QED BY <1>4, <2>1
<1>11. CASE /\ exec[k].state \in Pending /\ exec'[k].state = "failed"
            /\ erred[k] \/ exec[k].quote \in Sponsored
  <2>1. Told(k)' = "failed" /\ Told(k) = "pending"
    BY <1>8, <1>11 DEF Told, Pending
  <2> QED BY <1>5, <1>11, <2>1
<1>12. CASE /\ exec[k].state \in Pending /\ exec'[k].state \in Commitments
            /\ Visible(k, exec'[k].state)
  <2>1. Told(k)' = exec'[k].state /\ Told(k) = "pending"
    BY <1>8, <1>12 DEF Told, Pending, Commitments
  <2> QED BY <1>6, <1>7, <1>12, <2>1 DEF Commitments
<1>13. CASE /\ exec[k].state = "confirmed" /\ exec'[k].state = "finalized"
            /\ Visible(k, "finalized")
  <2>1. Told(k)' = "finalized" /\ Told(k) = "confirmed"
    BY <1>8, <1>13 DEF Told
  <2> QED BY <1>7, <1>13, <2>1
<1> QED BY <1>8, <1>9, <1>10, <1>11, <1>12, <1>13 DEF Advance

\* The chain errs or deepens, or moves where nothing is promised yet.
LEMMA ChainMaps ==
  ASSUME Inv, UNCHANGED exec, NEW k \in Keys, Land(k) \/ Deepen(k) \/ Reorg(k)
  PROVE  [Promise!Next]_Promise!pvars
<1>1. Swaps' = Swaps /\ Tolds' = Tolds
  BY DEF Swaps, Tolds, Told, HasRow
<1>2. chain[k] \in ChainStates /\ chain \in [Keys -> ChainStates] /\ erred \in [Keys -> BOOLEAN]
  BY DEF Inv, TypeOK
<1>3. ASSUME OnChains' = OnChains, UNCHANGED erred
      PROVE  UNCHANGED Promise!pvars
  BY <1>1, <1>3 DEF Promise!pvars, Swaps, Tolds, OnChains
<1>4. CASE Land(k)
  <2>1. PICK o \in {"ok", "short", "err"} :
          /\ chain' = [chain EXCEPT ![k] = [at |-> "processed", outcome |-> o]]
          /\ erred' = [erred EXCEPT ![k] = erred[k] \/ o = "err"]
          /\ chain[k].at = "absent"
    BY <1>4 DEF Land
  <2>2. OnChains' = OnChains
    <3>1. \A j \in Keys : OnChain(j)' = OnChain(j)
      BY <1>2, <2>1 DEF OnChain, Commitments
    <3> QED BY <3>1 DEF OnChains
  <2>3. erred' = erred \/ erred' = [erred EXCEPT ![k] = TRUE]
    BY <1>2, <2>1
  <2>4. ASSUME erred' = [erred EXCEPT ![k] = TRUE] PROVE Promise!Next
    <3>1. Promise!Err(k)
      BY <1>1, <2>2, <2>4 DEF Promise!Err, Swaps, Tolds, OnChains
    <3> QED BY <3>1 DEF Promise!Next
  <2> QED BY <1>3, <2>2, <2>3, <2>4
<1>5. CASE Deepen(k)
  <2> DEFINE to == IF chain[k].at = "processed" THEN "confirmed" ELSE "finalized"
             r == [chain[k] EXCEPT !.at = to]
  <2>1. /\ chain[k].at \in {"processed", "confirmed"}
        /\ chain' = [chain EXCEPT ![k] = r] /\ erred' = erred
    BY <1>2, <1>5 DEF Deepen
  <2>2. r.at = to /\ r.outcome = chain[k].outcome
    BY <1>2 DEF ChainStates
  <2> HIDE DEF r
  <2>3. /\ \A j \in Keys \ {k} : chain'[j] = chain[j]
        /\ chain'[k].at = to /\ chain'[k].outcome = chain[k].outcome
    BY <1>2, <2>1, <2>2
  <2>4. \A j \in Keys \ {k} : OnChain(j)' = OnChain(j)
    BY <2>3 DEF OnChain
  <2>5. CASE chain[k].outcome = "err"
    <3>1. OnChain(k)' = OnChain(k)
      BY <2>3, <2>5 DEF OnChain
    <3>2. OnChains' = OnChains
      BY <2>4, <3>1 DEF OnChains
    <3> QED BY <1>3, <2>1, <3>2
  <2>6. CASE chain[k].outcome # "err"
    <3>1. /\ OnChain(k) \in {"no", "confirmed"}
          /\ OnChain(k)' = IF OnChain(k) = "no" THEN "confirmed" ELSE "finalized"
      BY <2>1, <2>3, <2>6 DEF OnChain, Commitments
    <3>2. /\ OnChains[k] \in {"no", "confirmed"}
          /\ OnChains' = [OnChains EXCEPT ![k] =
                            IF @ = "no" THEN "confirmed" ELSE "finalized"]
      BY <2>4, <3>1 DEF OnChains
    <3>3. Promise!Deepen(k)
      BY <1>1, <2>1, <3>2 DEF Promise!Deepen, Swaps, Tolds, OnChains
    <3> QED BY <3>3 DEF Promise!Next
  <2> QED BY <2>5, <2>6
<1>6. CASE Reorg(k)
  <2>1. /\ chain[k].at = "processed" /\ erred' = erred
        /\ chain' = [chain EXCEPT ![k] = [at |-> "absent", outcome |-> "none"]]
    BY <1>6 DEF Reorg
  <2>2. \A j \in Keys : OnChain(j)' = OnChain(j)
    BY <1>2, <2>1 DEF OnChain, Commitments
  <2>3. OnChains' = OnChains
    BY <2>2 DEF OnChains
  <2> QED BY <1>3, <2>1, <2>3
<1> QED BY <1>4, <1>5, <1>6

\* Every execution of the service is one of SwapPromise: each step of a handler,
\* a worker, a batch, the provider or the cluster is a step the user may see, or
\* invisible.
THEOREM PromiseKept == Spec => KeepsPromise
<1>1. Init => Promise!Init
  <2> SUFFICES ASSUME Init PROVE Promise!Init
    OBVIOUS
  <2>1. \A k \in Keys : ~ HasRow(k) /\ OnChain(k) = "no"
    BY DEF Init, HasRow, OnChain, Commitments
  <2> QED BY <2>1 DEF Init, Promise!Init, Told
<1>2. Inv /\ [Next]_vars => [Promise!Next]_Promise!pvars
  <2> SUFFICES ASSUME Inv, [Next]_vars PROVE [Promise!Next]_Promise!pvars
    OBVIOUS
  <2> QED BY StepTells, QuietMaps, AdmitMaps, MoveMaps, ChainMaps DEF Tells
<1> QED BY <1>1, <1>2, Invariance, PTL DEF Spec, KeepsPromise, Promise!Spec
=============================================================================

----------------------------- MODULE IndexRecovery -----------------------------
(* Migrations that build indexes without a transaction, and the tool that       *)
(* recovers one that failed (db/tools/recover-indexes.mjs, flyway-runner.mjs).   *)
(*                                                                              *)
(* A build that fails leaves a failed row in the history and an index that may  *)
(* be absent, half built or whole; one that is killed leaves no row at all, and *)
(* the database may still be building.  Every Flyway command, and the drops of  *)
(* the tool, run under the migration lock; between them the lock is free.       *)
EXTENDS Integers, Sequences, FiniteSets

CONSTANTS
    Procs,       \* operators and deployments at work
    Plans,       \* migration -> [indexes, drops]: what it builds, whether it drops first
    Nobody

Versions == DOMAIN Plans
IndexesOf(v) == Plans[v].indexes
Indexes == UNION {{IndexesOf(v)[k] : k \in DOMAIN IndexesOf(v)} : v \in Versions}
Session(i) == <<"session", i>>      \* a killed run's connection, still building i

\* Migrations are numbered, each builds at least one index, and who holds the lock
\* is a process, a connection whose process is gone, or nobody.
ASSUME RecoveryAssumption ==
    /\ Len(Plans) \in Nat /\ Versions = 1..Len(Plans)
    /\ \A v \in Versions : Len(IndexesOf(v)) \in Nat \ {0} /\ DOMAIN IndexesOf(v) = 1..Len(IndexesOf(v))
    /\ Nobody \notin Procs
    /\ \A i \in Indexes : Session(i) \notin Procs /\ Session(i) # Nobody

VARIABLES
    history,     \* migration -> none, failed, success
    index,       \* index -> [state, by]: absent, invalid or valid, and whose
    lock,        \* who holds the migration lock
    run,         \* what each process is doing
    recovered    \* migrations a run of the tool has called recovered

RecoveryVars == <<history, index, lock, run, recovered>>

Failed == {v \in Versions : history[v] = "failed"}
Pending(target) == {v \in Versions : v <= target /\ history[v] = "none"}
NoRun == [pc |-> "idle", version |-> 0, target |-> 0, at |-> 0, tool |-> FALSE]

RecoveryInit ==
    /\ history = [v \in Versions |-> "none"]
    /\ index = [i \in Indexes |-> [state |-> "absent", by |-> 0]]
    /\ lock = Nobody /\ recovered = {}
    /\ run = [p \in Procs |-> NoRun]

Go(p, r) == run' = [run EXCEPT ![p] = r]
At(p, pc) == run[p].pc = pc
GoOn(p, pc) == Go(p, [run[p] EXCEPT !.pc = pc])
\* An error ends the run; what it held is free again.
Fail(p) == Go(p, NoRun) /\ lock' = IF lock = p THEN Nobody ELSE lock

-----------------------------------------------------------------------------
(* A Flyway command takes the lock when it connects, and is run again while    *)
(* the lock is another's (core.conf initSql, runFlyway).                       *)

Command(p, pc) == At(p, pc) /\ lock = Nobody

\* migrate: refused while the history has a failed migration.
Migrate(p) ==
    /\ At(p, "idle")
    /\ Go(p, [NoRun EXCEPT !.pc = "migrate", !.target = Len(Plans)])
    /\ UNCHANGED <<history, index, lock, recovered>>
Connect(p) ==
    /\ Command(p, "migrate") /\ Failed = {}
    /\ lock' = p
    /\ GoOn(p, "choose")
    /\ UNCHANGED <<history, index, recovered>>
Choose(p) ==
    /\ At(p, "choose")
    /\ IF Pending(run[p].target) = {}
       THEN /\ lock' = Nobody
            /\ IF run[p].tool THEN GoOn(p, "final") ELSE Go(p, NoRun)
       ELSE /\ Go(p, [run[p] EXCEPT !.pc = "build", !.at = 1,
                        !.version = CHOOSE v \in Pending(run[p].target) : \A u \in Pending(run[p].target) : v <= u])
            /\ UNCHANGED lock
    /\ UNCHANGED <<history, index, recovered>>

Building(p) == IndexesOf(run[p].version)[run[p].at]
MayBuild(p) == Plans[run[p].version].drops \/ index[Building(p)].state = "absent"
\* One index is dropped, if the script does that, and built.
Build(p) ==
    /\ At(p, "build") /\ MayBuild(p)
    /\ index' = [index EXCEPT ![Building(p)] = [state |-> "valid", by |-> run[p].version]]
    /\ IF run[p].at = Len(IndexesOf(run[p].version)) THEN GoOn(p, "record")
       ELSE Go(p, [run[p] EXCEPT !.at = @ + 1])
    /\ UNCHANGED <<history, lock, recovered>>
Record(p) ==
    /\ At(p, "record")
    /\ history' = [history EXCEPT ![run[p].version] = "success"]
    /\ GoOn(p, "choose")
    /\ UNCHANGED <<index, lock, recovered>>
\* The statement fails: a lock timeout, a cancelled build, an index in the way.
BuildFails(p) ==
    /\ At(p, "build")
    /\ history' = [history EXCEPT ![run[p].version] = "failed"]
    /\ \/ MayBuild(p)
          /\ \E left \in {"absent", "invalid"} :
               index' = [index EXCEPT ![Building(p)] = [state |-> left, by |-> run[p].version]]
       \/ UNCHANGED index
    /\ Fail(p)
    /\ UNCHANGED recovered
\* The deadline or a crash takes the run before it could leave a row; a build
\* goes on in the database, which holds the lock until it is done.
Kill(p) ==
    /\ run[p].pc \in {"build", "record"}
    /\ \/ lock' = Nobody /\ UNCHANGED index
       \/ At(p, "build") /\ MayBuild(p)
          /\ lock' = Session(Building(p))
          /\ index' = [index EXCEPT ![Building(p)] = [state |-> "invalid", by |-> run[p].version]]
    /\ Go(p, NoRun)
    /\ UNCHANGED <<history, recovered>>
SessionEnds ==
    /\ \E i \in DOMAIN index :
         /\ lock = Session(i)
         /\ UNCHANGED index \/ index' = [index EXCEPT ![i].state = "valid"]
    /\ lock' = Nobody
    /\ UNCHANGED <<history, run, recovered>>

-----------------------------------------------------------------------------
(* recover-indexes --apply                                                     *)

\* validateFailure: the failed migration is the selected one.
Recover(p) ==
    /\ At(p, "idle") /\ lock = Nobody
    /\ \E v \in Versions : Failed = {v} /\ Go(p, [NoRun EXCEPT !.pc = "read", !.version = v, !.target = v, !.tool = TRUE])
    /\ UNCHANGED <<history, index, lock, recovered>>
\* readState: the failed row is the selected one.  The first look is not under
\* the lock.
ReadState(p) ==
    /\ At(p, "read") /\ Failed = {run[p].version}
    /\ GoOn(p, "lock")
    /\ UNCHANGED <<history, index, lock, recovered>>
AcquireLock(p) ==
    /\ Command(p, "lock")
    /\ lock' = p /\ GoOn(p, "reread")
    /\ UNCHANGED <<history, index, recovered>>
\* A plausible slip: what was read before the lock is trusted.
StillFailed_Trusted(v) == TRUE
StillFailed(v) == Failed = {v}
Reread(p) ==
    /\ At(p, "reread") /\ StillFailed(run[p].version)
    /\ Go(p, [run[p] EXCEPT !.pc = "drop", !.at = 1])
    /\ UNCHANGED <<history, index, lock, recovered>>
DropIndex(p) ==
    /\ At(p, "drop")
    /\ index' = [index EXCEPT ![Building(p)] = [state |-> "absent", by |-> run[p].version]]
    /\ IF run[p].at = Len(IndexesOf(run[p].version))
       THEN lock' = Nobody /\ GoOn(p, "repair")
       ELSE UNCHANGED lock /\ Go(p, [run[p] EXCEPT !.at = @ + 1])
    /\ UNCHANGED <<history, recovered>>
\* A drop that fails leaves the index for nobody to use.
DropFails(p) ==
    /\ At(p, "drop") /\ index[Building(p)].state # "absent"
    /\ index' = [index EXCEPT ![Building(p)] = [state |-> "invalid", by |-> run[p].version]]
    /\ Fail(p)
    /\ UNCHANGED <<history, recovered>>
\* repair takes every failed row out of the history, and only then is it seen
\* which they were.
Repair(p) ==
    /\ Command(p, "repair")
    /\ history' = [v \in Versions |-> IF v \in Failed THEN "none" ELSE history[v]]
    /\ IF Failed = {run[p].version} THEN GoOn(p, "clean") ELSE Go(p, NoRun)
    /\ UNCHANGED <<index, lock, recovered>>
ValidateClean(p) ==
    /\ Command(p, "clean") /\ Failed = {}
    /\ GoOn(p, "migrate")
    /\ UNCHANGED <<history, index, lock, recovered>>
ValidateFinal(p) ==
    /\ Command(p, "final") /\ Failed = {}
    /\ GoOn(p, "verify")
    /\ UNCHANGED <<history, index, lock, recovered>>
\* verifyFinal looks without the lock.
VerifyFinal(p) ==
    LET v == run[p].target
    IN /\ At(p, "verify") /\ history[v] = "success"
       /\ \A k \in DOMAIN IndexesOf(v) : index[IndexesOf(v)[k]].state = "valid"
       /\ recovered' = recovered \union {v}
       /\ Go(p, NoRun)
       /\ UNCHANGED <<history, index, lock>>
\* An error, a timeout, a crash: finally releases, or the connection ends.
Stop(p) ==
    /\ run[p].pc \notin {"idle", "build", "record"}
    /\ Fail(p)
    /\ UNCHANGED <<history, index, recovered>>

-----------------------------------------------------------------------------
Step(p) ==
    \/ Migrate(p) \/ Connect(p) \/ Choose(p) \/ Build(p) \/ Record(p) \/ BuildFails(p) \/ Kill(p)
    \/ Recover(p) \/ ReadState(p) \/ AcquireLock(p) \/ Reread(p) \/ DropIndex(p) \/ DropFails(p) \/ Repair(p)
    \/ ValidateClean(p) \/ ValidateFinal(p) \/ VerifyFinal(p) \/ Stop(p)
RecoveryNext == SessionEnds \/ \E p \in Procs : Step(p)
RecoverySpec == RecoveryInit /\ [][RecoveryNext]_RecoveryVars

-----------------------------------------------------------------------------
\* An index that a migration on record has built stands, and is whole, until a
\* later migration takes it in hand: no recovery, late or repeated, drops it.
BuiltStands ==
    \A v \in Versions : history[v] = "success" =>
        \A k \in DOMAIN IndexesOf(v) :
            LET i == index[IndexesOf(v)[k]] IN i.state = "valid" \/ i.by > v

\* The history has no gap and at most one failure, its last row.
HistoryIsOrdered ==
    \A v, u \in Versions : v < u /\ history[u] # "none" => history[v] = "success"

\* What was called recovered is on record for good.
RecoveredIsBuilt == \A v \in recovered : history[v] = "success"

\* Recoveries, deployments and crashes in any order leave a schema that is what
\* the history says (recover-indexes.mjs readState under the lock).
RecoveryIsTrue == BuiltStands /\ HistoryIsOrdered /\ RecoveredIsBuilt
=============================================================================

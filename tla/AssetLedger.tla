------------------------------ MODULE AssetLedger ------------------------------
(* The custody ledger of one vault (assets/assetLedger.ts, with the triggers of  *)
(* db/core/migrations V003-V058): journals that move money, the chain evidence   *)
(* that confirms them, reversals, and obligations that stay open until such      *)
(* evidence clears them.                                                         *)
(*                                                                               *)
(* Every operation is a database transaction.  It takes its row locks one after  *)
(* the other, checks what it has locked, and commits; a transaction waits for a  *)
(* lock that another holds, and one of a circle of them is aborted.              *)
EXTENDS Integers, FiniteSets, FiniteSetsExt

CONSTANTS
    TxIds,          \* transactions open at a time
    Amount,         \* journal -> what it adds to the vault account
    ReversalOf,     \* journal -> the journal it reverses, or None
    Movements,      \* movements on the chain (signature, instruction, event)
    Claimed,        \* obligation -> the event a provider claimed, or None
    MaxCommits,     \* bound: transactions of more than one lock
    None

\* None is no journal, and a journal has at most one reversal
\* (asset_journals_reversal_idx, V003:52).
ASSUME LedgerAssumption ==
    /\ None \notin DOMAIN Amount
    /\ ReversalOf \in [DOMAIN Amount -> DOMAIN Amount \cup {None}]
    /\ \A r, s \in DOMAIN Amount : ReversalOf[r] = ReversalOf[s] /\ ReversalOf[r] # None => r = s

VARIABLES
    state,          \* journal -> none, claimed, confirmed, finalized, reversed
    binding,        \* event -> the journal it is bound to
    evidence,       \* chain evidence: <<journal, event, commitment>>
    owed,           \* obligation -> [state, how, journal]
    tx,             \* what each transaction has locked and found
    commits         \* commits so far (bounded)

LedgerVars == <<state, binding, evidence, owed, tx, commits>>

Journals == DOMAIN Amount
Obligations == DOMAIN Claimed
Independent == {"confirmed", "finalized"}
Counted == Independent \union {"reversed"}

NoTx == [pc |-> "idle", op |-> "none", journal |-> None, event |-> None, level |-> "none",
         commitment |-> "none", owed |-> None, how |-> "none", locks |-> {}]

LedgerInit ==
    /\ state = [j \in Journals |-> "none"]
    /\ binding = [e \in Movements |-> None] /\ evidence = {}
    /\ owed = [o \in Obligations |-> [state |-> "none", how |-> "none", journal |-> None]]
    /\ tx = [t \in TxIds |-> NoTx] /\ commits = 0

Vault == <<"vault", None>>
Free(t, r) == \A u \in TxIds \ {t} : r \notin tx[u].locks
\* Lock a row, then go on.
Lock(t, r, pc) ==
    /\ Free(t, r)
    /\ tx' = [tx EXCEPT ![t].pc = pc, ![t].locks = @ \union {r}]
    /\ UNCHANGED <<state, binding, evidence, owed, commits>>
Begin(t, rec) ==
    /\ tx[t].pc = "idle" /\ commits < MaxCommits
    /\ tx' = [tx EXCEPT ![t] = rec]
    /\ commits' = commits + 1
    /\ UNCHANGED <<state, binding, evidence, owed>>

\* The confirmed balance of the vault account.
Total(S) == MapThenSumSet(LAMBDA j : Amount[j], S)
BalanceOf(s) == Total({j \in Journals : s[j] \in Counted})

\* A journal never loses ground but to its reversal.
Advances(from, to) ==
    \/ from = "claimed" /\ to \in Independent
    \/ from = "confirmed" /\ to \in {"finalized", "reversed"}
    \/ from = "finalized" /\ to = "reversed"

-----------------------------------------------------------------------------
(* post_asset_journal: one statement, under the locks of its accounts.  A      *)
(* second post of the effect finds the first.                                  *)
Post(t, j) ==
    /\ tx[t].pc = "idle" /\ ReversalOf[j] = None /\ state[j] = "none"
    /\ Free(t, Vault)
    /\ state' = [state EXCEPT ![j] = "claimed"]
    /\ UNCHANGED <<binding, evidence, owed, tx, commits>>

(* promote: the journal, its evidence, the accounts.                           *)
Promote(t, j, e, level, commitment) ==
    /\ ReversalOf[j] = None /\ state[j] # "none" /\ (level = "finalized" => commitment = "finalized")
    /\ Begin(t, [NoTx EXCEPT !.pc = "row", !.op = "promote", !.journal = j, !.event = e,
                             !.level = level, !.commitment = commitment])
PromoteRow(t) == tx[t].pc = "row" /\ tx[t].op = "promote" /\ Lock(t, <<"journal", tx[t].journal>>, "bind")

\* A plausible slip: whatever the event is bound to, it is evidence.
Binds_Any(j, e) == TRUE
\* An event of the chain is the evidence of one movement.
Binds(j, e) == binding[e] \in {None, j}
Bind(t) ==
    /\ tx[t].pc = "bind" /\ Binds(tx[t].journal, tx[t].event)
    /\ Lock(t, <<"event", tx[t].event>>, IF tx[t].op = "promote" THEN "vault" ELSE "original")

\* set_asset_journal_state: the accounts, the step, the balance.
Moved(s, c) ==
    LET from == IF s[c.journal] = "none" THEN "claimed" ELSE s[c.journal]
        own == IF Advances(from, c.level) THEN [s EXCEPT ![c.journal] = c.level] ELSE s
    IN IF c.op = "reverse" THEN [own EXCEPT ![ReversalOf[c.journal]] = "reversed"] ELSE own
After(t) == Moved(state, tx[t])
Settles(t) ==
    /\ After(t)[tx[t].journal] = tx[t].level
    /\ BalanceOf(After(t)) >= 0
TakeVault(t) == tx[t].pc = "vault" /\ Settles(t) /\ Lock(t, Vault, "commit")

(* reverse: the reversal posted, its evidence, and the original with it.       *)
Reverse(t, r, e, level, commitment) ==
    /\ ReversalOf[r] # None /\ Amount[r] = -Amount[ReversalOf[r]] /\ (level = "finalized" => commitment = "finalized")
    /\ Begin(t, [NoTx EXCEPT !.pc = "post", !.op = "reverse", !.journal = r, !.event = e,
                             !.level = level, !.commitment = commitment])
ReversePost(t) == tx[t].pc = "post" /\ Lock(t, Vault, "own")
ReverseOwn(t) == tx[t].pc = "own" /\ Lock(t, <<"journal", tx[t].journal>>, "bind")
\* A journal that cleared an obligation, itself or by its evidence, stays.
Clears(j) == \E o \in Obligations : owed[o].state = "cleared" /\ owed[o].journal = j
ReverseOriginal(t) ==
    LET original == ReversalOf[tx[t].journal]
    IN /\ tx[t].pc = "original"
       /\ \/ state[original] \in Independent /\ ~Clears(original)
          \/ state[original] = "reversed"
       /\ Settles(t)
       /\ Lock(t, <<"journal", original>>, "commit")

Commit(t) ==
    /\ tx[t].pc = "commit" /\ tx[t].op \in {"promote", "reverse"}
    /\ binding' = [binding EXCEPT ![tx[t].event] = tx[t].journal]
    /\ evidence' = evidence \union {<<tx[t].journal, tx[t].event, tx[t].commitment>>}
    /\ state' = After(t)
    /\ tx' = [tx EXCEPT ![t] = NoTx]
    /\ UNCHANGED <<owed, commits>>

-----------------------------------------------------------------------------
(* Obligations.                                                                *)

\* open, and claim with its parts: one transaction; a second claim of the same
\* facts finds the first.
Owe(o) ==
    /\ owed[o].state = "none"
    /\ owed' = [owed EXCEPT ![o].state = "open"]
    /\ UNCHANGED <<state, binding, evidence, tx, commits>>
Review(o) ==
    /\ owed[o].state = "open" /\ \A t \in TxIds : <<"owed", o>> \notin tx[t].locks
    /\ owed' = [owed EXCEPT ![o].state = "review"]
    /\ UNCHANGED <<state, binding, evidence, tx, commits>>

Clear(t, o, j, how) ==
    /\ owed[o].state \in {"open", "review"}
    /\ Begin(t, [NoTx EXCEPT !.pc = "row", !.op = "clear", !.owed = o, !.journal = j, !.how = how])
ClearRow(t) ==
    /\ tx[t].pc = "row" /\ tx[t].op = "clear" /\ owed[tx[t].owed].state \in {"open", "review"}
    /\ Lock(t, <<"owed", tx[t].owed>>, "proof")
\* What clears is confirmed on the chain; a provider's claim is cleared by a
\* journal alone, with evidence of the very transaction the provider named.
Proves(j, o, how) ==
    /\ state[j] \in Independent
    /\ how = "evidence" => \E p \in evidence : p[1] = j /\ p[3] \in Independent
    /\ Claimed[o] # None =>
         how = "journal" /\ \E p \in evidence : p[1] = j /\ p[2] = Claimed[o] /\ p[3] \in Independent
    /\ \A u \in Obligations : owed[u].state = "cleared" /\ owed[u].how = how => owed[u].journal # j
\* A plausible slip: the journal is read and not locked.
ProofRow_Unlocked(t) == <<"owed", tx[t].owed>>
ProofRow(t) == <<"journal", tx[t].journal>>
ClearProof(t) ==
    /\ tx[t].pc = "proof" /\ Proves(tx[t].journal, tx[t].owed, tx[t].how)
    /\ Lock(t, ProofRow(t), "commit")
CommitClear(t) ==
    /\ tx[t].pc = "commit" /\ tx[t].op = "clear"
    /\ owed' = [owed EXCEPT ![tx[t].owed] = [state |-> "cleared", how |-> tx[t].how, journal |-> tx[t].journal]]
    /\ tx' = [tx EXCEPT ![t] = NoTx]
    /\ UNCHANGED <<state, binding, evidence, commits>>

\* An error, a crash or a circle of locks: nothing of it stays.
Abort(t) ==
    /\ tx[t].pc # "idle"
    /\ tx' = [tx EXCEPT ![t] = NoTx]
    /\ UNCHANGED <<state, binding, evidence, owed, commits>>

-----------------------------------------------------------------------------
TxStep(t) ==
    \/ \E j \in Journals : Post(t, j)
    \/ \E j \in Journals, e \in Movements, level, c \in Independent :
         Promote(t, j, e, level, c) \/ Reverse(t, j, e, level, c)
    \/ PromoteRow(t) \/ Bind(t) \/ TakeVault(t) \/ Commit(t)
    \/ ReversePost(t) \/ ReverseOwn(t) \/ ReverseOriginal(t)
    \/ \E o \in Obligations, j \in Journals, how \in {"journal", "evidence"} : Clear(t, o, j, how)
    \/ ClearRow(t) \/ ClearProof(t) \/ CommitClear(t) \/ Abort(t)
LedgerNext == (\E t \in TxIds : TxStep(t)) \/ \E o \in Obligations : Owe(o) \/ Review(o)
LedgerSpec == LedgerInit /\ [][LedgerNext]_LedgerVars

-----------------------------------------------------------------------------
\* What was cleared stays proved: the journal behind it is confirmed and has
\* not been reversed ("a journal used to clear an obligation cannot be
\* reversed", V006:320-335).
ClearedStands == \A o \in Obligations : owed[o].state = "cleared" => state[owed[o].journal] \in Independent

\* A reversed journal has a confirmed reversal and a confirmed reversal a
\* reversed journal: they were committed together.
ReversedInPairs ==
    \A r \in Journals : ReversalOf[r] # None => (state[r] \in Counted <=> state[ReversalOf[r]] = "reversed")

\* No order has taken more out of the vault than is confirmed to be in it.
VaultIsCovered == BalanceOf(state) >= 0

\* One movement on the chain confirms one movement in the ledger.
OneEventOneMovement ==
    /\ \A p, q \in evidence : p[2] = q[2] => p[1] = q[1]
    /\ \A j \in Journals : state[j] \in Counted => \E p \in evidence : p[1] = j

\* The books are true to the chain under any interleaving of transactions
\* (assetLedger.ts promote, reverse, clear).
LedgerIsTrue == ClearedStands /\ ReversedInPairs /\ VaultIsCovered /\ OneEventOneMovement
=============================================================================

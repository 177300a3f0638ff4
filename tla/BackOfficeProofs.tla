-------------------------- MODULE BackOfficeProofs --------------------------
(***************************************************************************)
(* Proofs about what works behind the API: the custody ledger (AssetLedger)*)
(* and the recovery of a failed migration (IndexRecovery).  For the ledger *)
(* the invariant LedgerInv says what each open transaction has locked at   *)
(* each of its steps, that two of them lock different rows, and that what  *)
(* one has found under a lock is still so when it commits.                 *)
(***************************************************************************)
EXTENDS AssetLedger, IndexRecovery, WellFoundedInduction, TLAPS

States == {"none", "claimed", "confirmed", "finalized", "reversed"}
Levels == Independent \cup {"none"}
Rows == {Vault} \cup {"journal"} \X Journals \cup {"event"} \X Movements \cup {"owed"} \X Obligations

TxRows ==
  [pc : {"idle", "row", "bind", "vault", "commit", "post", "own", "original", "proof"},
   op : {"none", "promote", "reverse", "clear"}, journal : Journals \cup {None},
   event : Movements \cup {None}, level : Levels, commitment : Levels,
   owed : Obligations \cup {None}, how : {"none", "journal", "evidence"}, locks : SUBSET Rows]

LedgerTypeOK ==
  /\ state \in [Journals -> States]
  /\ binding \in [Movements -> Journals \cup {None}]
  /\ evidence \subseteq Journals \X Movements \X Independent
  /\ owed \in [Obligations -> [state : {"none", "open", "review", "cleared"},
                               how : {"none", "journal", "evidence"}, journal : Journals \cup {None}]]
  /\ tx \in [TxIds -> TxRows]

\* No two transactions lock the same row.
LocksExclude == \A t, u \in TxIds : t # u => tx[t].locks \cap tx[u].locks = {}

Bound(t) ==
  /\ <<"event", tx[t].event>> \in tx[t].locks
  /\ binding[tx[t].event] \in {None, tx[t].journal}
RowHeld(t) == <<"journal", tx[t].journal>> \in tx[t].locks

\* What a promotion has locked and found.
Promoting(t) ==
  tx[t].op = "promote" =>
    /\ tx[t].pc \in {"row", "bind", "vault", "commit"}
    /\ tx[t].journal \in Journals /\ tx[t].event \in Movements
    /\ tx[t].level \in Independent /\ tx[t].commitment \in Independent
    /\ ReversalOf[tx[t].journal] = None
    /\ tx[t].pc # "row" => RowHeld(t)
    /\ tx[t].pc \in {"vault", "commit"} => Bound(t)
    /\ tx[t].pc = "commit" => Vault \in tx[t].locks /\ Settles(t)

\* The original of a reversal may be reversed.
MayReverse(t) ==
  LET original == ReversalOf[tx[t].journal]
  IN /\ <<"journal", original>> \in tx[t].locks
     /\ \/ state[original] \in Independent /\ ~Clears(original)
        \/ state[original] = "reversed"

\* What a reversal has locked and found.
Reversing(t) ==
  tx[t].op = "reverse" =>
    /\ tx[t].pc \in {"post", "own", "bind", "original", "commit"}
    /\ tx[t].journal \in Journals /\ tx[t].event \in Movements
    /\ tx[t].level \in Independent /\ tx[t].commitment \in Independent
    /\ ReversalOf[tx[t].journal] \in Journals
    /\ tx[t].pc # "post" => Vault \in tx[t].locks
    /\ tx[t].pc \in {"bind", "original", "commit"} => RowHeld(t)
    /\ tx[t].pc \in {"original", "commit"} => Bound(t)
    /\ tx[t].pc = "commit" => MayReverse(t) /\ Settles(t)

\* What the clearing of an obligation has locked and found.
Clearing(t) ==
  tx[t].op = "clear" =>
    /\ tx[t].pc \in {"row", "proof", "commit"}
    /\ tx[t].journal \in Journals /\ tx[t].owed \in Obligations
    /\ tx[t].pc = "commit" => RowHeld(t) /\ state[tx[t].journal] \in Independent

Resting(t) == tx[t].op = "none" => tx[t].pc = "idle"

TxFacts == \A t \in TxIds : Promoting(t) /\ Reversing(t) /\ Clearing(t) /\ Resting(t)

\* The evidence a movement gives is for the journal it is bound to.
EvidenceIsBound == \A p \in evidence : binding[p[2]] = p[1]
ClearedByJournal == \A o \in Obligations : owed[o].state = "cleared" => owed[o].journal \in Journals

LedgerInv ==
  /\ LedgerTypeOK /\ LocksExclude /\ TxFacts
  /\ EvidenceIsBound /\ ClearedByJournal /\ LedgerIsTrue

\* The vault is no journal, movement or obligation, and rows of one kind are what they name.
LEMMA RowsApart ==
  /\ Vault \in Rows
  /\ \A j \in Journals : <<"journal", j>> \in Rows /\ <<"journal", j>> # Vault
  /\ \A e \in Movements : <<"event", e>> \in Rows
  /\ \A o \in Obligations : <<"owed", o>> \in Rows
BY DEF Rows, Vault

\* What a promotion that settles makes of the journals.
LEMMA AfterPromote ==
  ASSUME LedgerTypeOK, NEW t \in TxIds, tx[t].op = "promote", tx[t].journal \in Journals,
         tx[t].level \in Independent, After(t)[tx[t].journal] = tx[t].level
  PROVE  /\ After(t) \in [Journals -> States]
         /\ \A i \in Journals : After(t)[i] = IF i = tx[t].journal THEN tx[t].level ELSE state[i]
         /\ state[tx[t].journal] # "reversed"
<1> DEFINE j == tx[t].journal
           from == IF state[j] = "none" THEN "claimed" ELSE state[j]
<1>1. After(t) = IF Advances(from, tx[t].level) THEN [state EXCEPT ![j] = tx[t].level] ELSE state
  BY DEF After, Moved
<1>2. state \in [Journals -> States] /\ tx[t].level \in States /\ tx[t].level # "reversed"
  BY DEF LedgerTypeOK, States, Independent
<1>3. ASSUME Advances(from, tx[t].level)
      PROVE  state[j] # "reversed"
  BY <1>3, <1>2 DEF Advances, Independent
<1>4. CASE Advances(from, tx[t].level)
  BY <1>1, <1>2, <1>3, <1>4
<1>5. CASE ~Advances(from, tx[t].level)
  BY <1>1, <1>2, <1>5
<1> QED BY <1>4, <1>5

\* What a reversal that settles makes of them.
LEMMA AfterReverse ==
  ASSUME LedgerTypeOK, NEW t \in TxIds, tx[t].op = "reverse", tx[t].journal \in Journals,
         ReversalOf[tx[t].journal] \in Journals,
         tx[t].level \in Independent, After(t)[tx[t].journal] = tx[t].level
  PROVE  /\ After(t) \in [Journals -> States]
         /\ \A i \in Journals :
              After(t)[i] = IF i = ReversalOf[tx[t].journal] THEN "reversed"
                            ELSE IF i = tx[t].journal THEN tx[t].level ELSE state[i]
         /\ state[tx[t].journal] # "reversed"
         /\ tx[t].journal # ReversalOf[tx[t].journal]
<1> DEFINE j == tx[t].journal
           o == ReversalOf[j]
           from == IF state[j] = "none" THEN "claimed" ELSE state[j]
           own == IF Advances(from, tx[t].level) THEN [state EXCEPT ![j] = tx[t].level] ELSE state
<1>1. After(t) = [own EXCEPT ![o] = "reversed"]
  BY DEF After, Moved
<1>2. state \in [Journals -> States] /\ tx[t].level \in States /\ tx[t].level # "reversed"
  BY DEF LedgerTypeOK, States, Independent
<1>3. own \in [Journals -> States]
  BY <1>2
<1>4. "reversed" \in States
  BY DEF States
<1>5. j # o
  <2> SUFFICES ASSUME j = o PROVE FALSE
    OBVIOUS
  <2>1. After(t)[j] = "reversed"
    <3> HIDE DEF own
    <3> QED BY <1>1, <1>3
  <2> QED BY <2>1, <1>2
<1>6. own[j] = tx[t].level
  <2>1. After(t)[j] = own[j]
    <3> HIDE DEF own
    <3> QED BY <1>1, <1>3, <1>5
  <2> QED BY <2>1
<1>7. \A i \in Journals : own[i] = IF i = j THEN tx[t].level ELSE state[i]
  BY <1>2, <1>6
<1>8. state[j] # "reversed"
  <2>1. ASSUME Advances(from, tx[t].level)
        PROVE  state[j] # "reversed"
    BY <2>1, <1>2 DEF Advances, Independent
  <2>2. ASSUME ~Advances(from, tx[t].level)
        PROVE  state[j] # "reversed"
    BY <2>2, <1>2, <1>6
  <2> QED BY <2>1, <2>2
<1>9. After(t) \in [Journals -> States]
  <2> HIDE DEF own
  <2> QED BY <1>1, <1>3, <1>4
<1>10. \A i \in Journals : After(t)[i] = IF i = o THEN "reversed" ELSE own[i]
  <2> HIDE DEF own
  <2> QED BY <1>1, <1>3
<1> QED BY <1>5, <1>7, <1>8, <1>9, <1>10

\* A step of one transaction that only locks, begins or ends it, with what it then
\* has locked and found.
LEMMA TxMoves ==
  ASSUME LedgerInv, NEW t \in TxIds, NEW rec \in TxRows, tx' = [tx EXCEPT ![t] = rec],
         UNCHANGED <<state, binding, evidence, owed>>,
         \A u \in TxIds \ {t} : rec.locks \cap tx[u].locks = {},
         (Promoting(t) /\ Reversing(t) /\ Clearing(t) /\ Resting(t))'
  PROVE  LedgerInv'
<1>1. LedgerTypeOK /\ LocksExclude /\ TxFacts /\ EvidenceIsBound /\ ClearedByJournal /\ LedgerIsTrue
  BY DEF LedgerInv
<1>2. tx'[t] = rec /\ \A u \in TxIds : u # t => tx'[u] = tx[u]
  BY <1>1 DEF LedgerTypeOK
<1>3. LedgerTypeOK'
  <2>1. tx' \in [TxIds -> TxRows]
    BY <1>1 DEF LedgerTypeOK
  <2> QED BY <1>1, <2>1 DEF LedgerTypeOK
<1>4. LocksExclude'
  BY <1>1, <1>2 DEF LocksExclude
<1>5. ASSUME NEW u \in TxIds, u # t
      PROVE  (Promoting(u) /\ Reversing(u) /\ Clearing(u) /\ Resting(u))'
  <2>1. Promoting(u) /\ Reversing(u) /\ Clearing(u) /\ Resting(u)
    BY <1>1 DEF TxFacts
  <2>2. tx'[u] = tx[u]
    BY <1>2, <1>5
  <2>3. Settles(u)' <=> Settles(u)
    <3>1. After(u)' = After(u)
      BY <2>2 DEF After
    <3> QED BY <2>2, <3>1 DEF Settles
  <2>4. MayReverse(u)' <=> MayReverse(u)
    BY <2>2 DEF MayReverse, Clears
  <2>5. (Bound(u)' <=> Bound(u)) /\ (RowHeld(u)' <=> RowHeld(u))
    BY <2>2 DEF Bound, RowHeld
  <2> QED BY <2>1, <2>2, <2>3, <2>4, <2>5 DEF Promoting, Reversing, Clearing, Resting
<1>6. TxFacts'
  BY <1>5 DEF TxFacts
<1>7. (EvidenceIsBound /\ ClearedByJournal /\ LedgerIsTrue)'
  BY <1>1 DEF EvidenceIsBound, ClearedByJournal, LedgerIsTrue, ClearedStands, ReversedInPairs,
     VaultIsCovered, OneEventOneMovement, BalanceOf
<1> QED BY <1>3, <1>4, <1>6, <1>7 DEF LedgerInv

Pcs == {"idle", "row", "bind", "vault", "commit", "post", "own", "original", "proof"}

\* What a transaction that takes a lock is then.
LEMMA Locked ==
  ASSUME LedgerInv, NEW t \in TxIds, NEW r \in Rows, NEW pc \in Pcs, Lock(t, r, pc)
  PROVE  \E rec \in TxRows :
           /\ tx' = [tx EXCEPT ![t] = rec] /\ tx'[t] = rec
           /\ rec.pc = pc /\ rec.locks = tx[t].locks \cup {r}
           /\ rec.op = tx[t].op /\ rec.journal = tx[t].journal /\ rec.event = tx[t].event
           /\ rec.level = tx[t].level /\ rec.commitment = tx[t].commitment
           /\ rec.owed = tx[t].owed /\ rec.how = tx[t].how
           /\ \A u \in TxIds \ {t} : rec.locks \cap tx[u].locks = {}
           /\ UNCHANGED <<state, binding, evidence, owed>>
<1> DEFINE rec == [tx[t] EXCEPT !.pc = pc, !.locks = @ \cup {r}]
<1>1. tx \in [TxIds -> TxRows] /\ LocksExclude
  BY DEF LedgerInv, LedgerTypeOK
<1>2. tx' = [tx EXCEPT ![t].pc = pc, ![t].locks = @ \cup {r}] /\ Free(t, r)
      /\ UNCHANGED <<state, binding, evidence, owed>>
  BY DEF Lock
<1>3. tx[t] \in TxRows
  BY <1>1
<1>4. /\ rec.pc = pc /\ rec.locks = tx[t].locks \cup {r}
      /\ rec.op = tx[t].op /\ rec.journal = tx[t].journal /\ rec.event = tx[t].event
      /\ rec.level = tx[t].level /\ rec.commitment = tx[t].commitment
      /\ rec.owed = tx[t].owed /\ rec.how = tx[t].how
  BY <1>3 DEF TxRows
<1>5. rec \in TxRows
  BY <1>3 DEF TxRows, Pcs
<1>6. tx' = [tx EXCEPT ![t] = rec]
  BY <1>1, <1>2
<1>7. tx'[t] = rec
  <2> HIDE DEF rec
  <2> QED BY <1>1, <1>6
<1>8. ASSUME NEW u \in TxIds \ {t}
      PROVE  (tx[t].locks \cup {r}) \cap tx[u].locks = {}
  <2>1. r \notin tx[u].locks
    BY <1>2 DEF Free
  <2>2. tx[t].locks \cap tx[u].locks = {}
    BY <1>1 DEF LocksExclude
  <2> QED BY <2>1, <2>2
<1> HIDE DEF rec
<1> QED BY <1>2, <1>4, <1>5, <1>6, <1>7, <1>8

\* What is known of a transaction.
LEMMA TxKnown ==
  ASSUME LedgerInv, NEW t \in TxIds
  PROVE  /\ Promoting(t) /\ Reversing(t) /\ Clearing(t) /\ Resting(t)
         /\ tx[t] \in TxRows /\ tx[t].op \in {"none", "promote", "reverse", "clear"}
         /\ LedgerTypeOK
<1>1. tx[t] \in TxRows /\ LedgerTypeOK
  BY DEF LedgerInv, LedgerTypeOK
<1>2. Promoting(t) /\ Reversing(t) /\ Clearing(t) /\ Resting(t)
  BY DEF LedgerInv, TxFacts
<1> QED BY <1>1, <1>2 DEF TxRows

\* A promotion locks its journal.
LEMMA PromoteRowKeeps ==
  ASSUME LedgerInv, NEW t \in TxIds, PromoteRow(t)
  PROVE  LedgerInv'
<1>1. tx[t].op = "promote" /\ Promoting(t)
  BY TxKnown DEF PromoteRow
<1>2. Lock(t, <<"journal", tx[t].journal>>, "bind") /\ <<"journal", tx[t].journal>> \in Rows
  BY <1>1, RowsApart DEF PromoteRow, Promoting
<1>3. PICK rec \in TxRows :
           /\ tx' = [tx EXCEPT ![t] = rec] /\ tx'[t] = rec
           /\ rec.pc = "bind" /\ rec.locks = tx[t].locks \cup {<<"journal", tx[t].journal>>}
           /\ rec.op = tx[t].op /\ rec.journal = tx[t].journal /\ rec.event = tx[t].event
           /\ rec.level = tx[t].level /\ rec.commitment = tx[t].commitment
           /\ rec.owed = tx[t].owed /\ rec.how = tx[t].how
           /\ \A u \in TxIds \ {t} : rec.locks \cap tx[u].locks = {}
           /\ UNCHANGED <<state, binding, evidence, owed>>
  BY <1>2, Locked DEF Pcs
<1>4. (Promoting(t) /\ Reversing(t) /\ Clearing(t) /\ Resting(t))'
  BY <1>1, <1>3 DEF Promoting, Reversing, Clearing, Resting, RowHeld
<1> QED BY <1>3, <1>4, TxMoves

\* Its event, or a reversal's, is bound.
LEMMA BindKeeps ==
  ASSUME LedgerInv, NEW t \in TxIds, Bind(t)
  PROVE  LedgerInv'
<1> DEFINE pc == IF tx[t].op = "promote" THEN "vault" ELSE "original"
<1>1. Promoting(t) /\ Reversing(t) /\ tx[t].op \in {"promote", "reverse"}
  BY TxKnown DEF Bind, Clearing, Resting
<1>2. /\ Lock(t, <<"event", tx[t].event>>, pc) /\ <<"event", tx[t].event>> \in Rows
      /\ tx[t].pc = "bind" /\ binding[tx[t].event] \in {None, tx[t].journal}
  BY <1>1, RowsApart DEF Bind, Binds, Promoting, Reversing
<1>3. pc \in Pcs
  BY DEF Pcs
<1>4. PICK rec \in TxRows :
           /\ tx' = [tx EXCEPT ![t] = rec] /\ tx'[t] = rec
           /\ rec.pc = pc /\ rec.locks = tx[t].locks \cup {<<"event", tx[t].event>>}
           /\ rec.op = tx[t].op /\ rec.journal = tx[t].journal /\ rec.event = tx[t].event
           /\ rec.level = tx[t].level /\ rec.commitment = tx[t].commitment
           /\ rec.owed = tx[t].owed /\ rec.how = tx[t].how
           /\ \A u \in TxIds \ {t} : rec.locks \cap tx[u].locks = {}
           /\ UNCHANGED <<state, binding, evidence, owed>>
  <2> HIDE DEF pc
  <2> QED BY <1>2, <1>3, Locked
<1>5. Bound(t)'
  BY <1>2, <1>4 DEF Bound
<1>6. CASE tx[t].op = "promote"
  <2>1. RowHeld(t)' /\ rec.pc = "vault"
    BY <1>1, <1>2, <1>4, <1>6 DEF Promoting, RowHeld
  <2>2. (Promoting(t) /\ Reversing(t) /\ Clearing(t) /\ Resting(t))'
    BY <1>1, <1>4, <1>5, <1>6, <2>1 DEF Promoting, Reversing, Clearing, Resting
  <2> QED BY <1>4, <2>2, TxMoves
<1>7. CASE tx[t].op = "reverse"
  <2>1. RowHeld(t)' /\ rec.pc = "original" /\ Vault \in rec.locks
    BY <1>1, <1>2, <1>4, <1>7 DEF Reversing, RowHeld
  <2>2. (Promoting(t) /\ Reversing(t) /\ Clearing(t) /\ Resting(t))'
    BY <1>1, <1>4, <1>5, <1>7, <2>1 DEF Promoting, Reversing, Clearing, Resting
  <2> QED BY <1>4, <2>2, TxMoves
<1> QED BY <1>1, <1>6, <1>7

\* A promotion locks the vault and settles.
LEMMA TakeVaultKeeps ==
  ASSUME LedgerInv, NEW t \in TxIds, TakeVault(t)
  PROVE  LedgerInv'
<1>1. Promoting(t) /\ tx[t].op = "promote" /\ tx[t].pc = "vault" /\ Settles(t)
  BY TxKnown DEF TakeVault, Reversing, Clearing, Resting
<1>2. Lock(t, Vault, "commit") /\ Vault \in Rows
  BY RowsApart DEF TakeVault
<1>3. PICK rec \in TxRows :
           /\ tx' = [tx EXCEPT ![t] = rec] /\ tx'[t] = rec
           /\ rec.pc = "commit" /\ rec.locks = tx[t].locks \cup {Vault}
           /\ rec.op = tx[t].op /\ rec.journal = tx[t].journal /\ rec.event = tx[t].event
           /\ rec.level = tx[t].level /\ rec.commitment = tx[t].commitment
           /\ rec.owed = tx[t].owed /\ rec.how = tx[t].how
           /\ \A u \in TxIds \ {t} : rec.locks \cap tx[u].locks = {}
           /\ UNCHANGED <<state, binding, evidence, owed>>
  BY <1>2, Locked DEF Pcs
<1>4. RowHeld(t)' /\ Bound(t)'
  BY <1>1, <1>3 DEF Promoting, RowHeld, Bound
<1>5. Settles(t)'
  <2>1. Moved(state, rec) = Moved(state, tx[t])
    BY <1>3 DEF Moved
  <2> QED BY <1>1, <1>3, <2>1 DEF Settles, After
<1>6. (Promoting(t) /\ Reversing(t) /\ Clearing(t) /\ Resting(t))'
  BY <1>1, <1>3, <1>4, <1>5 DEF Promoting, Reversing, Clearing, Resting
<1> QED BY <1>3, <1>6, TxMoves

\* A reversal locks the vault to be posted.
LEMMA ReversePostKeeps ==
  ASSUME LedgerInv, NEW t \in TxIds, ReversePost(t)
  PROVE  LedgerInv'
<1>1. Reversing(t) /\ tx[t].op = "reverse"
  BY TxKnown DEF ReversePost, Promoting, Clearing, Resting
<1>2. Lock(t, Vault, "own") /\ Vault \in Rows
  BY RowsApart DEF ReversePost
<1>3. PICK rec \in TxRows :
           /\ tx' = [tx EXCEPT ![t] = rec] /\ tx'[t] = rec
           /\ rec.pc = "own" /\ rec.locks = tx[t].locks \cup {Vault}
           /\ rec.op = tx[t].op /\ rec.journal = tx[t].journal /\ rec.event = tx[t].event
           /\ rec.level = tx[t].level /\ rec.commitment = tx[t].commitment
           /\ rec.owed = tx[t].owed /\ rec.how = tx[t].how
           /\ \A u \in TxIds \ {t} : rec.locks \cap tx[u].locks = {}
           /\ UNCHANGED <<state, binding, evidence, owed>>
  BY <1>2, Locked DEF Pcs
<1>4. (Promoting(t) /\ Reversing(t) /\ Clearing(t) /\ Resting(t))'
  BY <1>1, <1>3 DEF Promoting, Reversing, Clearing, Resting
<1> QED BY <1>3, <1>4, TxMoves

\* It locks its own journal.
LEMMA ReverseOwnKeeps ==
  ASSUME LedgerInv, NEW t \in TxIds, ReverseOwn(t)
  PROVE  LedgerInv'
<1>1. Reversing(t) /\ tx[t].op = "reverse" /\ tx[t].pc = "own"
  BY TxKnown DEF ReverseOwn, Promoting, Clearing, Resting
<1>2. Lock(t, <<"journal", tx[t].journal>>, "bind") /\ <<"journal", tx[t].journal>> \in Rows
  BY <1>1, RowsApart DEF ReverseOwn, Reversing
<1>3. PICK rec \in TxRows :
           /\ tx' = [tx EXCEPT ![t] = rec] /\ tx'[t] = rec
           /\ rec.pc = "bind" /\ rec.locks = tx[t].locks \cup {<<"journal", tx[t].journal>>}
           /\ rec.op = tx[t].op /\ rec.journal = tx[t].journal /\ rec.event = tx[t].event
           /\ rec.level = tx[t].level /\ rec.commitment = tx[t].commitment
           /\ rec.owed = tx[t].owed /\ rec.how = tx[t].how
           /\ \A u \in TxIds \ {t} : rec.locks \cap tx[u].locks = {}
           /\ UNCHANGED <<state, binding, evidence, owed>>
  BY <1>2, Locked DEF Pcs
<1>4. RowHeld(t)' /\ Vault \in rec.locks
  BY <1>1, <1>3 DEF RowHeld, Reversing
<1>5. (Promoting(t) /\ Reversing(t) /\ Clearing(t) /\ Resting(t))'
  BY <1>1, <1>3, <1>4 DEF Promoting, Reversing, Clearing, Resting
<1> QED BY <1>3, <1>5, TxMoves

\* It locks the original, which it may reverse, and settles.
LEMMA ReverseOriginalKeeps ==
  ASSUME LedgerInv, NEW t \in TxIds, ReverseOriginal(t)
  PROVE  LedgerInv'
<1> DEFINE original == ReversalOf[tx[t].journal]
<1>1. Reversing(t) /\ tx[t].op = "reverse" /\ tx[t].pc = "original" /\ Settles(t)
  BY TxKnown DEF ReverseOriginal, Promoting, Clearing, Resting
<1>2. Lock(t, <<"journal", original>>, "commit") /\ <<"journal", original>> \in Rows
  BY <1>1, RowsApart DEF ReverseOriginal, Reversing
<1>3. PICK rec \in TxRows :
           /\ tx' = [tx EXCEPT ![t] = rec] /\ tx'[t] = rec
           /\ rec.pc = "commit" /\ rec.locks = tx[t].locks \cup {<<"journal", original>>}
           /\ rec.op = tx[t].op /\ rec.journal = tx[t].journal /\ rec.event = tx[t].event
           /\ rec.level = tx[t].level /\ rec.commitment = tx[t].commitment
           /\ rec.owed = tx[t].owed /\ rec.how = tx[t].how
           /\ \A u \in TxIds \ {t} : rec.locks \cap tx[u].locks = {}
           /\ UNCHANGED <<state, binding, evidence, owed>>
  BY <1>2, Locked DEF Pcs
<1>4. RowHeld(t)' /\ Bound(t)' /\ Vault \in rec.locks
  BY <1>1, <1>3 DEF Reversing, RowHeld, Bound
<1>5. Settles(t)'
  <2>1. Moved(state, rec) = Moved(state, tx[t])
    BY <1>3 DEF Moved
  <2> QED BY <1>1, <1>3, <2>1 DEF Settles, After
<1>6. MayReverse(t)'
  <2>1. \/ state[original] \in Independent /\ ~Clears(original)
        \/ state[original] = "reversed"
    BY DEF ReverseOriginal
  <2>2. Clears(original)' <=> Clears(original)
    BY <1>3 DEF Clears
  <2> QED BY <1>3, <2>1, <2>2 DEF MayReverse
<1>7. (Promoting(t) /\ Reversing(t) /\ Clearing(t) /\ Resting(t))'
  BY <1>1, <1>3, <1>4, <1>5, <1>6 DEF Promoting, Reversing, Clearing, Resting
<1> QED BY <1>3, <1>7, TxMoves

\* Clearing locks the obligation.
LEMMA ClearRowKeeps ==
  ASSUME LedgerInv, NEW t \in TxIds, ClearRow(t)
  PROVE  LedgerInv'
<1>1. Clearing(t) /\ tx[t].op = "clear"
  BY TxKnown DEF ClearRow
<1>2. Lock(t, <<"owed", tx[t].owed>>, "proof") /\ <<"owed", tx[t].owed>> \in Rows
  BY <1>1, RowsApart DEF ClearRow, Clearing
<1>3. PICK rec \in TxRows :
           /\ tx' = [tx EXCEPT ![t] = rec] /\ tx'[t] = rec
           /\ rec.pc = "proof" /\ rec.locks = tx[t].locks \cup {<<"owed", tx[t].owed>>}
           /\ rec.op = tx[t].op /\ rec.journal = tx[t].journal /\ rec.event = tx[t].event
           /\ rec.level = tx[t].level /\ rec.commitment = tx[t].commitment
           /\ rec.owed = tx[t].owed /\ rec.how = tx[t].how
           /\ \A u \in TxIds \ {t} : rec.locks \cap tx[u].locks = {}
           /\ UNCHANGED <<state, binding, evidence, owed>>
  BY <1>2, Locked DEF Pcs
<1>4. (Promoting(t) /\ Reversing(t) /\ Clearing(t) /\ Resting(t))'
  BY <1>1, <1>3 DEF Promoting, Reversing, Clearing, Resting
<1> QED BY <1>3, <1>4, TxMoves

\* It locks the journal that proves it, which is confirmed.
LEMMA ClearProofKeeps ==
  ASSUME LedgerInv, NEW t \in TxIds, ClearProof(t)
  PROVE  LedgerInv'
<1>1. Clearing(t) /\ tx[t].op = "clear"
  BY TxKnown DEF ClearProof, Promoting, Reversing, Resting
<1>2. Lock(t, <<"journal", tx[t].journal>>, "commit") /\ <<"journal", tx[t].journal>> \in Rows
  BY <1>1, RowsApart DEF ClearProof, ProofRow, Clearing
<1>3. PICK rec \in TxRows :
           /\ tx' = [tx EXCEPT ![t] = rec] /\ tx'[t] = rec
           /\ rec.pc = "commit" /\ rec.locks = tx[t].locks \cup {<<"journal", tx[t].journal>>}
           /\ rec.op = tx[t].op /\ rec.journal = tx[t].journal /\ rec.event = tx[t].event
           /\ rec.level = tx[t].level /\ rec.commitment = tx[t].commitment
           /\ rec.owed = tx[t].owed /\ rec.how = tx[t].how
           /\ \A u \in TxIds \ {t} : rec.locks \cap tx[u].locks = {}
           /\ UNCHANGED <<state, binding, evidence, owed>>
  BY <1>2, Locked DEF Pcs
<1>4. RowHeld(t)' /\ (state[tx[t].journal])' \in Independent
  BY <1>3 DEF RowHeld, ClearProof, Proves
<1>5. (Promoting(t) /\ Reversing(t) /\ Clearing(t) /\ Resting(t))'
  BY <1>1, <1>3, <1>4 DEF Promoting, Reversing, Clearing, Resting
<1> QED BY <1>3, <1>5, TxMoves

\* A transaction at rest, or one that has begun, has locked nothing.
LEMMA BeginKeeps ==
  ASSUME LedgerInv, NEW t \in TxIds, NEW rec \in TxRows, Begin(t, rec), rec.locks = {},
         \/ /\ rec.op = "promote" /\ rec.pc = "row" /\ ReversalOf[rec.journal] = None
            /\ rec.journal \in Journals /\ rec.event \in Movements
            /\ rec.level \in Independent /\ rec.commitment \in Independent
         \/ /\ rec.op = "reverse" /\ rec.pc = "post" /\ ReversalOf[rec.journal] \in Journals
            /\ rec.journal \in Journals /\ rec.event \in Movements
            /\ rec.level \in Independent /\ rec.commitment \in Independent
         \/ /\ rec.op = "clear" /\ rec.pc = "row"
            /\ rec.journal \in Journals /\ rec.owed \in Obligations
  PROVE  LedgerInv'
<1>1. tx' = [tx EXCEPT ![t] = rec] /\ UNCHANGED <<state, binding, evidence, owed>>
  BY DEF Begin
<1>2. tx'[t] = rec
  BY <1>1 DEF LedgerInv, LedgerTypeOK
<1>3. (Promoting(t) /\ Reversing(t) /\ Clearing(t) /\ Resting(t))'
  BY <1>2 DEF Promoting, Reversing, Clearing, Resting
<1> QED BY <1>1, <1>3, TxMoves

\* A promotion, a reversal and a clearing begin.
LEMMA PromoteKeeps ==
  ASSUME LedgerInv, NEW t \in TxIds, NEW j \in Journals, NEW e \in Movements,
         NEW level \in Independent, NEW commitment \in Independent,
         Promote(t, j, e, level, commitment)
  PROVE  LedgerInv'
<1> DEFINE rec == [NoTx EXCEPT !.pc = "row", !.op = "promote", !.journal = j, !.event = e,
                               !.level = level, !.commitment = commitment]
<1>1. Begin(t, rec) /\ ReversalOf[j] = None
  BY DEF Promote
<1>2. /\ rec \in TxRows /\ rec.locks = {} /\ rec.op = "promote" /\ rec.pc = "row"
      /\ rec.journal = j /\ rec.event = e /\ rec.level = level /\ rec.commitment = commitment
  BY DEF TxRows, NoTx, Levels
<1> HIDE DEF rec
<1> QED BY <1>1, <1>2, BeginKeeps

\* A writer that starts to append a reversal holds no row yet.
LEMMA ReverseKeeps ==
  ASSUME LedgerInv, NEW t \in TxIds, NEW r \in Journals, NEW e \in Movements,
         NEW level \in Independent, NEW commitment \in Independent,
         Reverse(t, r, e, level, commitment)
  PROVE  LedgerInv'
<1> DEFINE rec == [NoTx EXCEPT !.pc = "post", !.op = "reverse", !.journal = r, !.event = e,
                               !.level = level, !.commitment = commitment]
<1>1. Begin(t, rec) /\ ReversalOf[r] \in Journals
  BY LedgerAssumption DEF Reverse, Journals
<1>2. /\ rec \in TxRows /\ rec.locks = {} /\ rec.op = "reverse" /\ rec.pc = "post"
      /\ rec.journal = r /\ rec.event = e /\ rec.level = level /\ rec.commitment = commitment
  BY DEF TxRows, NoTx, Levels
<1> HIDE DEF rec
<1> QED BY <1>1, <1>2, BeginKeeps

\* A writer that starts to clear an obligation holds no row yet.
LEMMA ClearKeeps ==
  ASSUME LedgerInv, NEW t \in TxIds, NEW o \in Obligations, NEW j \in Journals,
         NEW how \in {"journal", "evidence"}, Clear(t, o, j, how)
  PROVE  LedgerInv'
<1> DEFINE rec == [NoTx EXCEPT !.pc = "row", !.op = "clear", !.owed = o, !.journal = j, !.how = how]
<1>1. Begin(t, rec)
  BY DEF Clear
<1>2. /\ rec \in TxRows /\ rec.locks = {} /\ rec.op = "clear" /\ rec.pc = "row"
      /\ rec.journal = j /\ rec.owed = o
  BY DEF TxRows, NoTx, Levels
<1> HIDE DEF rec
<1> QED BY <1>1, <1>2, BeginKeeps

\* What has ended is at rest.
LEMMA NoTxTyped ==
  NoTx \in TxRows /\ NoTx.op = "none" /\ NoTx.pc = "idle" /\ NoTx.locks = {}
BY DEF NoTx, TxRows, Levels

\* A transaction that ends without committing leaves the tables as they were
\* and gives up its rows.
LEMMA AbortKeeps ==
  ASSUME LedgerInv, NEW t \in TxIds, Abort(t)
  PROVE  LedgerInv'
<1>1. tx' = [tx EXCEPT ![t] = NoTx] /\ UNCHANGED <<state, binding, evidence, owed>>
  BY DEF Abort
<1>2. tx'[t] = NoTx
  BY <1>1, NoTxTyped DEF LedgerInv, LedgerTypeOK
<1>3. (Promoting(t) /\ Reversing(t) /\ Clearing(t) /\ Resting(t))'
  BY <1>2, NoTxTyped DEF Promoting, Reversing, Clearing, Resting
<1> QED BY <1>1, <1>3, NoTxTyped, TxMoves

\* Rows are the same only if they name the same.
LEMMA SameRow ==
  ASSUME LedgerInv, NEW t \in TxIds, NEW u \in TxIds, t # u, NEW kind, NEW a, NEW b,
         <<kind, a>> \in tx[t].locks, <<kind, b>> \in tx[u].locks
  PROVE  a # b
BY DEF LedgerInv, LocksExclude

\* A post moves no money, and no transaction that has looked at balances is open.
LEMMA PostKeeps ==
  ASSUME LedgerInv, NEW t \in TxIds, NEW j \in Journals, Post(t, j)
  PROVE  LedgerInv'
<1>1. LedgerTypeOK /\ LocksExclude /\ TxFacts /\ EvidenceIsBound /\ ClearedByJournal /\ LedgerIsTrue
  BY DEF LedgerInv
<1>2. /\ tx[t].pc = "idle" /\ ReversalOf[j] = None /\ state[j] = "none"
      /\ state' = [state EXCEPT ![j] = "claimed"]
      /\ UNCHANGED <<binding, evidence, owed, tx>> /\ Free(t, Vault)
  BY DEF Post
<1>3. /\ state \in [Journals -> States] /\ state'[j] = "claimed"
      /\ \A i \in Journals : i # j => state'[i] = state[i]
  BY <1>1, <1>2 DEF LedgerTypeOK
<1>4. LedgerTypeOK'
  <2>1. state' \in [Journals -> States]
    BY <1>2, <1>3 DEF States
  <2> QED BY <1>1, <1>2, <2>1 DEF LedgerTypeOK
<1>5. LocksExclude'
  BY <1>1, <1>2 DEF LocksExclude
<1>6. ASSUME NEW u \in TxIds
      PROVE  (Promoting(u) /\ Reversing(u) /\ Clearing(u) /\ Resting(u))'
  <2>1. Promoting(u) /\ Reversing(u) /\ Clearing(u) /\ Resting(u)
    BY TxKnown
  <2>2. u = t \/ Vault \notin tx[u].locks
    BY <1>2 DEF Free
  <2>3. Promoting(u)'
    BY <1>2, <2>1, <2>2 DEF Promoting, RowHeld, Bound
  <2>4. Reversing(u)'
    BY <1>2, <2>1, <2>2 DEF Reversing
  <2>5. Clearing(u)'
    BY <1>2, <1>3, <2>1 DEF Clearing, RowHeld, Independent
  <2>6. Resting(u)'
    BY <1>2, <2>1 DEF Resting
  <2> QED BY <2>3, <2>4, <2>5, <2>6
<1>7. TxFacts'
  BY <1>6 DEF TxFacts
<1>8. (EvidenceIsBound /\ ClearedByJournal)'
  BY <1>1, <1>2 DEF EvidenceIsBound, ClearedByJournal
<1>9. ClearedStands'
  BY <1>1, <1>2, <1>3 DEF ClearedByJournal, LedgerIsTrue, ClearedStands, Independent
<1>10. \A i \in Journals : /\ state'[i] \in Counted <=> state[i] \in Counted
                           /\ state'[i] = "reversed" <=> state[i] = "reversed"
  BY <1>2, <1>3 DEF Counted, Independent
<1>11. ReversedInPairs'
  BY <1>1, <1>10, LedgerAssumption DEF LedgerIsTrue, ReversedInPairs, Journals
<1>12. VaultIsCovered'
  <2>1. {i \in Journals : state'[i] \in Counted} = {i \in Journals : state[i] \in Counted}
    BY <1>10
  <2>2. BalanceOf(state') = BalanceOf(state)
    BY <2>1 DEF BalanceOf
  <2> QED BY <1>1, <2>2 DEF LedgerIsTrue, VaultIsCovered
<1>13. OneEventOneMovement'
  BY <1>1, <1>2, <1>10 DEF LedgerIsTrue, OneEventOneMovement
<1> QED BY <1>4, <1>5, <1>7, <1>8, <1>9, <1>11, <1>12, <1>13 DEF LedgerInv, LedgerIsTrue

\* What others know stands when one that moves money commits.
LEMMA CommitSpares ==
  ASSUME LedgerInv, NEW t \in TxIds, NEW u \in TxIds, u # t, tx'[u] = tx[u], UNCHANGED owed,
         Vault \in tx[t].locks, Bound(t), RowHeld(t),
         \A e \in Movements : e # tx[t].event => binding'[e] = binding[e],
         \A i \in Journals : <<"journal", i>> \notin tx[t].locks => state'[i] = state[i]
  PROVE  (Promoting(u) /\ Reversing(u) /\ Clearing(u) /\ Resting(u))'
<1>1. Promoting(u) /\ Reversing(u) /\ Clearing(u) /\ Resting(u) /\ LocksExclude
  BY TxKnown DEF LedgerInv
<1>2. Vault \notin tx[u].locks
  BY <1>1 DEF LocksExclude
<1>3. ASSUME Bound(u), tx[u].event \in Movements
      PROVE  Bound(u)'
  <2>1. tx[u].event # tx[t].event
    BY <1>3, SameRow DEF Bound
  <2> QED BY <1>3, <2>1 DEF Bound
<1>4. RowHeld(u)' <=> RowHeld(u)
  BY DEF RowHeld
<1>5. Promoting(u)'
  BY <1>1, <1>2, <1>3, <1>4 DEF Promoting
<1>6. Reversing(u)'
  BY <1>1, <1>2 DEF Reversing
<1>7. Clearing(u)'
  <2> SUFFICES ASSUME tx[u].op = "clear", tx[u].pc = "commit"
               PROVE  RowHeld(u)' /\ state'[tx[u].journal] \in Independent
    BY <1>1 DEF Clearing
  <2>1. RowHeld(u) /\ state[tx[u].journal] \in Independent /\ tx[u].journal \in Journals
    BY <1>1 DEF Clearing
  <2>2. <<"journal", tx[u].journal>> \notin tx[t].locks
    BY <1>1, <2>1 DEF RowHeld, LocksExclude
  <2> QED BY <1>4, <2>1, <2>2
<1>8. Resting(u)'
  BY <1>1 DEF Resting
<1> QED BY <1>5, <1>6, <1>7, <1>8

\* The commit of a promotion or a reversal: what the two have in common.
LEMMA CommitCommon ==
  ASSUME LedgerInv, NEW t \in TxIds, Commit(t)
  PROVE  /\ tx[t].op \in {"promote", "reverse"} /\ tx[t].pc = "commit"
         /\ tx[t].journal \in Journals /\ tx[t].event \in Movements
         /\ tx[t].level \in Independent /\ tx[t].commitment \in Independent
         /\ Vault \in tx[t].locks /\ Bound(t) /\ RowHeld(t) /\ Settles(t)
         /\ binding' = [binding EXCEPT ![tx[t].event] = tx[t].journal]
         /\ evidence' = evidence \cup {<<tx[t].journal, tx[t].event, tx[t].commitment>>}
         /\ state' = After(t) /\ tx' = [tx EXCEPT ![t] = NoTx] /\ UNCHANGED owed
         /\ tx'[t] = NoTx /\ \A u \in TxIds : u # t => tx'[u] = tx[u]
         /\ binding'[tx[t].event] = tx[t].journal
         /\ \A e \in Movements : e # tx[t].event => binding'[e] = binding[e]
<1>1. Promoting(t) /\ Reversing(t) /\ LedgerTypeOK
  BY TxKnown
<1>2. /\ tx[t].op \in {"promote", "reverse"} /\ tx[t].pc = "commit"
      /\ binding' = [binding EXCEPT ![tx[t].event] = tx[t].journal]
      /\ evidence' = evidence \cup {<<tx[t].journal, tx[t].event, tx[t].commitment>>}
      /\ state' = After(t) /\ tx' = [tx EXCEPT ![t] = NoTx] /\ UNCHANGED owed
  BY DEF Commit
<1>3. /\ tx[t].journal \in Journals /\ tx[t].event \in Movements
      /\ tx[t].level \in Independent /\ tx[t].commitment \in Independent
      /\ Vault \in tx[t].locks /\ Bound(t) /\ RowHeld(t) /\ Settles(t)
  BY <1>1, <1>2 DEF Promoting, Reversing
<1>4. tx'[t] = NoTx /\ \A u \in TxIds : u # t => tx'[u] = tx[u]
  BY <1>1, <1>2 DEF LedgerTypeOK
<1>5. /\ binding'[tx[t].event] = tx[t].journal
      /\ \A e \in Movements : e # tx[t].event => binding'[e] = binding[e]
  BY <1>1, <1>2, <1>3 DEF LedgerTypeOK
<1> QED BY <1>2, <1>3, <1>4, <1>5

\* What a commit leaves true whichever of the two it is: the books of evidence, the
\* balance, and what others know.
LEMMA CommitKeepsBooks ==
  ASSUME LedgerInv, NEW t \in TxIds, Commit(t), After(t) \in [Journals -> States],
         \A i \in Journals : <<"journal", i>> \notin tx[t].locks => After(t)[i] = state[i],
         \A i \in Journals : After(t)[i] \in Counted => i = tx[t].journal \/ state[i] \in Counted
  PROVE  /\ LedgerTypeOK' /\ LocksExclude' /\ TxFacts' /\ EvidenceIsBound' /\ ClearedByJournal'
         /\ VaultIsCovered' /\ OneEventOneMovement'
<1> DEFINE j == tx[t].journal
           e == tx[t].event
           new == <<j, e, tx[t].commitment>>
<1>1. LedgerTypeOK /\ LocksExclude /\ EvidenceIsBound /\ ClearedByJournal /\ LedgerIsTrue
  BY DEF LedgerInv
<1>2. /\ j \in Journals /\ e \in Movements /\ tx[t].commitment \in Independent
      /\ Vault \in tx[t].locks /\ Bound(t) /\ RowHeld(t) /\ Settles(t)
      /\ binding' = [binding EXCEPT ![e] = j] /\ evidence' = evidence \cup {new}
      /\ state' = After(t) /\ tx' = [tx EXCEPT ![t] = NoTx] /\ UNCHANGED owed
      /\ tx'[t] = NoTx /\ \A u \in TxIds : u # t => tx'[u] = tx[u]
      /\ binding'[e] = j /\ \A f \in Movements : f # e => binding'[f] = binding[f]
  BY CommitCommon
<1>3. LedgerTypeOK'
  <2>1. evidence' \subseteq Journals \X Movements \X Independent
    BY <1>1, <1>2 DEF LedgerTypeOK
  <2>2. tx' \in [TxIds -> TxRows] /\ binding' \in [Movements -> Journals \cup {None}]
    BY <1>1, <1>2, NoTxTyped DEF LedgerTypeOK
  <2>3. state' \in [Journals -> States]
    BY <1>2
  <2> QED BY <1>1, <1>2, <2>1, <2>2, <2>3 DEF LedgerTypeOK
<1>4. LocksExclude'
  BY <1>1, <1>2, NoTxTyped DEF LocksExclude
<1>5. ASSUME NEW u \in TxIds
      PROVE  (Promoting(u) /\ Reversing(u) /\ Clearing(u) /\ Resting(u))'
  <2>1. CASE u = t
    BY <1>2, <2>1, NoTxTyped DEF Promoting, Reversing, Clearing, Resting
  <2>2. CASE u # t
    BY <1>2, <2>2, CommitSpares
  <2> QED BY <2>1, <2>2
<1>6. TxFacts'
  BY <1>5 DEF TxFacts
<1>7. EvidenceIsBound'
  <2> SUFFICES ASSUME NEW p \in evidence' PROVE binding'[p[2]] = p[1]
    BY DEF EvidenceIsBound
  <2>1. CASE p = new
    BY <1>2, <2>1
  <2>2. CASE p \in evidence
    <3>1. binding[p[2]] = p[1] /\ p[1] \in Journals /\ p[2] \in Movements
      BY <1>1, <2>2 DEF EvidenceIsBound, LedgerTypeOK
    <3>2. CASE p[2] = e
      <4>1. p[1] # None
        BY <3>1, LedgerAssumption DEF Journals
      <4> QED BY <1>2, <3>1, <3>2, <4>1 DEF Bound
    <3>3. CASE p[2] # e
      BY <1>2, <3>1, <3>3
    <3> QED BY <3>2, <3>3
  <2> QED BY <1>2, <2>1, <2>2
<1>8. ClearedByJournal'
  BY <1>1, <1>2 DEF ClearedByJournal
<1>9. VaultIsCovered'
  BY <1>2 DEF VaultIsCovered, Settles
<1>10. OneEventOneMovement'
  <2>1. \A p, q \in evidence' : p[2] = q[2] => p[1] = q[1]
    BY <1>7 DEF EvidenceIsBound
  <2>2. ASSUME NEW i \in Journals, state'[i] \in Counted
        PROVE  \E p \in evidence' : p[1] = i
    <3>1. CASE i = j
      <4>1. new \in evidence'
        BY <1>2
      <4>2. new[1] = i
        BY <3>1
      <4> HIDE DEF new
      <4> QED BY <4>1, <4>2
    <3>2. CASE i # j
      <4>1. state[i] \in Counted
        BY <1>2, <2>2, <3>2
      <4> QED BY <1>1, <1>2, <4>1 DEF LedgerIsTrue, OneEventOneMovement
    <3> QED BY <3>1, <3>2
  <2> QED BY <2>1, <2>2 DEF OneEventOneMovement
<1> QED BY <1>3, <1>4, <1>6, <1>7, <1>8, <1>9, <1>10

\* A promotion leaves pairs and what was cleared as they were.
LEMMA CommitPromoteKeeps ==
  ASSUME LedgerInv, NEW t \in TxIds, Commit(t), tx[t].op = "promote"
  PROVE  LedgerInv'
<1> DEFINE j == tx[t].journal
<1>1. LedgerTypeOK /\ ClearedByJournal /\ LedgerIsTrue /\ Promoting(t)
  BY TxKnown DEF LedgerInv
<1>2. /\ j \in Journals /\ tx[t].level \in Independent /\ RowHeld(t) /\ Settles(t)
      /\ state' = After(t) /\ UNCHANGED owed /\ ReversalOf[j] = None
  BY <1>1, CommitCommon DEF Promoting
<1>3. /\ After(t) \in [Journals -> States]
      /\ \A i \in Journals : After(t)[i] = IF i = j THEN tx[t].level ELSE state[i]
      /\ state[j] # "reversed"
  BY <1>1, <1>2, AfterPromote DEF Settles
<1>4. \A i \in Journals : <<"journal", i>> \notin tx[t].locks => After(t)[i] = state[i]
  BY <1>2, <1>3 DEF RowHeld
<1>5. \A i \in Journals : After(t)[i] \in Counted => i = j \/ state[i] \in Counted
  BY <1>3
<1>6. ClearedStands'
  BY <1>1, <1>2, <1>3 DEF ClearedByJournal, LedgerIsTrue, ClearedStands
<1>7. ReversedInPairs'
  <2> SUFFICES ASSUME NEW r \in Journals, ReversalOf[r] # None
               PROVE  state'[r] \in Counted <=> state'[ReversalOf[r]] = "reversed"
    BY DEF ReversedInPairs
  <2>1. ReversalOf[r] \in Journals /\ r # j
    BY <1>2, LedgerAssumption DEF Journals
  <2>2. state'[r] = state[r]
    BY <1>2, <1>3, <2>1
  <2>3. state'[ReversalOf[r]] = "reversed" <=> state[ReversalOf[r]] = "reversed"
    BY <1>2, <1>3, <2>1 DEF Independent
  <2> QED BY <1>1, <2>2, <2>3 DEF LedgerIsTrue, ReversedInPairs
<1> QED BY <1>3, <1>4, <1>5, <1>6, <1>7, CommitKeepsBooks DEF LedgerInv, LedgerIsTrue

\* A reversal makes a pair, and what was cleared does not rest on the original.
LEMMA CommitReverseKeeps ==
  ASSUME LedgerInv, NEW t \in TxIds, Commit(t), tx[t].op = "reverse"
  PROVE  LedgerInv'
<1> DEFINE j == tx[t].journal
           o == ReversalOf[j]
<1>1. LedgerTypeOK /\ ClearedByJournal /\ LedgerIsTrue /\ Reversing(t)
  BY TxKnown DEF LedgerInv
<1>2. /\ j \in Journals /\ tx[t].level \in Independent /\ RowHeld(t) /\ Settles(t)
      /\ state' = After(t) /\ UNCHANGED owed /\ o \in Journals /\ MayReverse(t)
  BY <1>1, CommitCommon DEF Reversing
<1>3. /\ After(t) \in [Journals -> States]
      /\ \A i \in Journals :
           After(t)[i] = IF i = o THEN "reversed" ELSE IF i = j THEN tx[t].level ELSE state[i]
      /\ state[j] # "reversed" /\ j # o
  BY <1>1, <1>2, AfterReverse DEF Settles
<1>4. /\ <<"journal", o>> \in tx[t].locks
      /\ (state[o] \in Independent /\ ~Clears(o)) \/ state[o] = "reversed"
  BY <1>2 DEF MayReverse
<1>5. state[o] \in Counted
  BY <1>4 DEF Counted
<1>6. \A i \in Journals : <<"journal", i>> \notin tx[t].locks => After(t)[i] = state[i]
  BY <1>2, <1>3, <1>4 DEF RowHeld
<1>7. \A i \in Journals : After(t)[i] \in Counted => i = j \/ state[i] \in Counted
  BY <1>3, <1>5
<1>8. ClearedStands'
  <2> SUFFICES ASSUME NEW d \in Obligations, owed[d].state = "cleared"
               PROVE  state'[owed[d].journal] \in Independent
    BY <1>2 DEF ClearedStands
  <2>1. owed[d].journal \in Journals /\ state[owed[d].journal] \in Independent
    BY <1>1 DEF ClearedByJournal, LedgerIsTrue, ClearedStands
  <2>2. owed[d].journal # o
    <3> SUFFICES ASSUME owed[d].journal = o PROVE FALSE
      OBVIOUS
    <3>1. Clears(o)
      BY DEF Clears
    <3> QED BY <1>4, <2>1, <3>1 DEF Independent
  <2> QED BY <1>2, <1>3, <2>1, <2>2
<1>9. ReversedInPairs'
  <2> SUFFICES ASSUME NEW r \in Journals, ReversalOf[r] # None
               PROVE  state'[r] \in Counted <=> state'[ReversalOf[r]] = "reversed"
    BY DEF ReversedInPairs
  <2>1. ReversalOf[r] \in Journals
    BY LedgerAssumption DEF Journals
  <2>2. state[r] \in Counted <=> state[ReversalOf[r]] = "reversed"
    BY <1>1 DEF LedgerIsTrue, ReversedInPairs
  <2>3. CASE r = j
    <3>1. state'[r] = tx[t].level /\ state'[ReversalOf[r]] = "reversed"
      BY <1>2, <1>3, <2>3
    <3> QED BY <1>2, <3>1 DEF Counted
  <2>4. CASE r # j
    <3>1. ReversalOf[r] # o
      BY <1>2, <2>4, LedgerAssumption DEF Journals
    <3>2. state'[ReversalOf[r]] = "reversed" <=> state[ReversalOf[r]] = "reversed"
      BY <1>2, <1>3, <2>1, <3>1 DEF Independent
    <3>3. state'[r] \in Counted <=> state[r] \in Counted
      <4>1. CASE r = o
        BY <1>2, <1>3, <1>5, <4>1 DEF Counted
      <4>2. CASE r # o
        BY <1>2, <1>3, <2>4, <4>2
      <4> QED BY <4>1, <4>2
    <3> QED BY <2>2, <3>2, <3>3
  <2> QED BY <2>3, <2>4
<1> QED BY <1>3, <1>6, <1>7, <1>8, <1>9, CommitKeepsBooks DEF LedgerInv, LedgerIsTrue

\* Who clears an obligation holds the journal behind it.
LEMMA CommitClearKeeps ==
  ASSUME LedgerInv, NEW t \in TxIds, CommitClear(t)
  PROVE  LedgerInv'
<1> DEFINE d == tx[t].owed
           new == [state |-> "cleared", how |-> tx[t].how, journal |-> tx[t].journal]
<1>1. LedgerTypeOK /\ LocksExclude /\ TxFacts /\ EvidenceIsBound /\ ClearedByJournal /\ LedgerIsTrue
  BY DEF LedgerInv
<1>2. /\ tx[t].op = "clear" /\ tx[t].pc = "commit" /\ owed' = [owed EXCEPT ![d] = new]
      /\ tx' = [tx EXCEPT ![t] = NoTx] /\ UNCHANGED <<state, binding, evidence>>
  BY DEF CommitClear
<1>3. /\ d \in Obligations /\ tx[t].journal \in Journals /\ RowHeld(t)
      /\ state[tx[t].journal] \in Independent /\ tx[t].how \in {"none", "journal", "evidence"}
  BY <1>2, TxKnown DEF Clearing, TxRows
<1>4. new.state = "cleared" /\ new.journal = tx[t].journal
  OBVIOUS
<1>5. /\ owed'[d] = new /\ \A o \in Obligations : o # d => owed'[o] = owed[o]
      /\ owed' \in [Obligations -> [state : {"none", "open", "review", "cleared"},
                       how : {"none", "journal", "evidence"}, journal : Journals \cup {None}]]
  BY <1>1, <1>2, <1>3 DEF LedgerTypeOK
<1>6. /\ tx'[t] = NoTx /\ \A u \in TxIds : u # t => tx'[u] = tx[u]
      /\ tx' \in [TxIds -> TxRows]
  BY <1>1, <1>2, NoTxTyped DEF LedgerTypeOK
<1> HIDE DEF new
<1>7. LedgerTypeOK'
  BY <1>1, <1>2, <1>5, <1>6 DEF LedgerTypeOK
<1>8. LocksExclude'
  BY <1>1, <1>6, NoTxTyped DEF LocksExclude
<1>9. ASSUME NEW u \in TxIds
      PROVE  (Promoting(u) /\ Reversing(u) /\ Clearing(u) /\ Resting(u))'
  <2>1. CASE u = t
    BY <1>6, <2>1, NoTxTyped DEF Promoting, Reversing, Clearing, Resting
  <2>2. CASE u # t
    <3>1. Promoting(u) /\ Reversing(u) /\ Clearing(u) /\ Resting(u) /\ tx'[u] = tx[u]
      BY <1>6, <2>2, TxKnown
    <3>2. Settles(u)' <=> Settles(u)
      <4>1. After(u)' = After(u)
        BY <1>2, <3>1 DEF After
      <4> QED BY <3>1, <4>1 DEF Settles
    <3>3. (Bound(u)' <=> Bound(u)) /\ (RowHeld(u)' <=> RowHeld(u))
      BY <1>2, <3>1 DEF Bound, RowHeld
    <3>4. ASSUME MayReverse(u) PROVE MayReverse(u)'
      <4> DEFINE original == ReversalOf[tx[u].journal]
      <4>1. <<"journal", original>> \in tx[u].locks
        BY <3>4 DEF MayReverse
      <4>2. original # tx[t].journal
        BY <1>3, <2>2, <4>1, SameRow DEF RowHeld
      <4>3. ASSUME NEW j, j # tx[t].journal, ~Clears(j) PROVE ~Clears(j)'
        BY <1>4, <1>5, <4>3 DEF Clears
      <4> QED BY <1>2, <3>1, <3>4, <4>2, <4>3 DEF MayReverse
    <3> QED BY <1>2, <3>1, <3>2, <3>3, <3>4 DEF Promoting, Reversing, Clearing, Resting
  <2> QED BY <2>1, <2>2
<1>10. TxFacts'
  BY <1>9 DEF TxFacts
<1>11. EvidenceIsBound' /\ ClearedByJournal'
  BY <1>1, <1>2, <1>3, <1>4, <1>5 DEF EvidenceIsBound, ClearedByJournal
<1>12. ClearedStands'
  BY <1>1, <1>2, <1>3, <1>4, <1>5 DEF LedgerIsTrue, ClearedStands
<1>13. (ReversedInPairs /\ OneEventOneMovement)'
  BY <1>1, <1>2 DEF LedgerIsTrue, ReversedInPairs, OneEventOneMovement
<1>14. VaultIsCovered'
  BY <1>1, <1>2 DEF LedgerIsTrue, VaultIsCovered
<1> QED BY <1>7, <1>8, <1>10, <1>11, <1>12, <1>13, <1>14 DEF LedgerInv, LedgerIsTrue

\* An obligation that is opened or put up for review was not cleared, and is not.
LEMMA OwedOpens ==
  ASSUME LedgerInv, NEW o \in Obligations, owed[o].state # "cleared",
         NEW s \in {"open", "review"}, owed' = [owed EXCEPT ![o].state = s],
         UNCHANGED <<state, binding, evidence, tx>>
  PROVE  LedgerInv'
<1>1. LedgerTypeOK /\ LocksExclude /\ TxFacts /\ EvidenceIsBound /\ ClearedByJournal /\ LedgerIsTrue
  BY DEF LedgerInv
<1>2. /\ owed'[o].state = s /\ \A d \in Obligations : d # o => owed'[d] = owed[d]
      /\ owed' \in [Obligations -> [state : {"none", "open", "review", "cleared"},
                       how : {"none", "journal", "evidence"}, journal : Journals \cup {None}]]
  BY <1>1 DEF LedgerTypeOK
<1>3. \A d \in Obligations : owed'[d].state = "cleared" => d # o /\ owed'[d] = owed[d]
  BY <1>2
<1>4. LedgerTypeOK'
  BY <1>1, <1>2 DEF LedgerTypeOK
<1>5. LocksExclude'
  BY <1>1 DEF LocksExclude
<1>6. ASSUME NEW u \in TxIds
      PROVE  (Promoting(u) /\ Reversing(u) /\ Clearing(u) /\ Resting(u))'
  <2>1. Promoting(u) /\ Reversing(u) /\ Clearing(u) /\ Resting(u)
    BY TxKnown
  <2>2. Settles(u)' <=> Settles(u)
    <3>1. After(u)' = After(u)
      BY DEF After
    <3> QED BY <3>1 DEF Settles
  <2>3. (Bound(u)' <=> Bound(u)) /\ (RowHeld(u)' <=> RowHeld(u))
    BY DEF Bound, RowHeld
  <2>4. ASSUME MayReverse(u) PROVE MayReverse(u)'
    <3> DEFINE original == ReversalOf[tx[u].journal]
    <3>1. ASSUME ~Clears(original) PROVE ~Clears(original)'
      BY <1>3, <3>1 DEF Clears
    <3> QED BY <2>4, <3>1 DEF MayReverse
  <2> QED BY <2>1, <2>2, <2>3, <2>4 DEF Promoting, Reversing, Clearing, Resting
<1>7. TxFacts'
  BY <1>6 DEF TxFacts
<1>8. EvidenceIsBound' /\ ClearedByJournal' /\ ClearedStands'
  BY <1>1, <1>3 DEF EvidenceIsBound, ClearedByJournal, LedgerIsTrue, ClearedStands
<1>9. (ReversedInPairs /\ OneEventOneMovement /\ VaultIsCovered)'
  BY <1>1 DEF LedgerIsTrue, ReversedInPairs, OneEventOneMovement, VaultIsCovered
<1> QED BY <1>4, <1>5, <1>7, <1>8, <1>9 DEF LedgerInv, LedgerIsTrue

\* Nothing adds up to nothing.
LEMMA EmptyTotal == Total({}) = 0
<1> DEFINE body(g) == [s \in SUBSET {} |-> IF s = {} THEN 0
                         ELSE LET x == CHOOSE y \in s : TRUE IN Amount[x] + g[s \ {x}]]
           iter == CHOOSE g : g = body(g)
<1>1. \E g : g = body(g)
  <2>1. [s \in SUBSET {} |-> 0] = body([s \in SUBSET {} |-> 0])
    OBVIOUS
  <2> HIDE DEF body
  <2> QED BY <2>1
<1>2. iter = body(iter)
  <2> HIDE DEF body
  <2> QED BY <1>1
<1>3. iter[{}] = 0
  <2>1. body(iter)[{}] = 0
    OBVIOUS
  <2> HIDE DEF body, iter
  <2> QED BY <1>2, <2>1
<1>4. Total({}) = iter[{}]
  BY DEF Total, MapThenSumSet, MapThenFoldSet
<1> QED BY <1>3, <1>4

\* The books are true before anything is posted.
LEMMA LedgerInitHolds == LedgerInit => LedgerInv
<1> SUFFICES ASSUME LedgerInit PROVE LedgerInv
  OBVIOUS
<1>1. /\ state = [j \in Journals |-> "none"] /\ binding = [e \in Movements |-> None] /\ evidence = {}
      /\ owed = [o \in Obligations |-> [state |-> "none", how |-> "none", journal |-> None]]
      /\ tx = [t \in TxIds |-> NoTx]
  BY DEF LedgerInit
<1>2. LedgerTypeOK
  BY <1>1, NoTxTyped DEF LedgerTypeOK, States
<1>3. \A t \in TxIds : tx[t] = NoTx
  BY <1>1
<1>4. LocksExclude /\ TxFacts
  BY <1>3, NoTxTyped DEF LocksExclude, TxFacts, Promoting, Reversing, Clearing, Resting
<1>5. EvidenceIsBound /\ ClearedByJournal /\ ClearedStands
  BY <1>1 DEF EvidenceIsBound, ClearedByJournal, ClearedStands
<1>6. \A j \in Journals : state[j] \notin Counted /\ state[j] # "reversed"
  BY <1>1 DEF Counted, Independent
<1>7. ReversedInPairs /\ OneEventOneMovement
  BY <1>1, <1>6, LedgerAssumption DEF ReversedInPairs, OneEventOneMovement, Journals
<1>8. VaultIsCovered
  <2>1. {j \in Journals : state[j] \in Counted} = {}
    BY <1>6
  <2>2. BalanceOf(state) = Total({})
    BY <2>1 DEF BalanceOf
  <2> QED BY <2>2, EmptyTotal DEF VaultIsCovered
<1> QED BY <1>2, <1>4, <1>5, <1>7, <1>8 DEF LedgerInv, LedgerIsTrue

\* Every step of a transaction keeps the invariant.
LEMMA LedgerStep == LedgerInv /\ [LedgerNext]_LedgerVars => LedgerInv'
<1> SUFFICES ASSUME LedgerInv, [LedgerNext]_LedgerVars PROVE LedgerInv'
  OBVIOUS
<1>1. CASE UNCHANGED LedgerVars
  <2>1. UNCHANGED <<state, binding, evidence, owed, tx>>
    BY <1>1 DEF LedgerVars
  <2>2. LedgerTypeOK /\ LocksExclude /\ TxFacts /\ EvidenceIsBound /\ ClearedByJournal /\ LedgerIsTrue
    BY DEF LedgerInv
  <2>3. (LedgerTypeOK /\ LocksExclude /\ EvidenceIsBound /\ ClearedByJournal)'
    BY <2>1, <2>2 DEF LedgerTypeOK, LocksExclude, EvidenceIsBound, ClearedByJournal
  <2>4. LedgerIsTrue'
    BY <2>1, <2>2 DEF LedgerIsTrue, ClearedStands, ReversedInPairs, VaultIsCovered, OneEventOneMovement
  <2>5. TxFacts'
    <3> SUFFICES ASSUME NEW t \in TxIds
                 PROVE  (Promoting(t) /\ Reversing(t) /\ Clearing(t) /\ Resting(t))'
      BY DEF TxFacts
    <3>1. Settles(t)' <=> Settles(t)
      <4>1. After(t)' = After(t)
        BY <2>1 DEF After
      <4> QED BY <2>1, <4>1 DEF Settles
    <3>2. MayReverse(t)' <=> MayReverse(t)
      BY <2>1 DEF MayReverse, Clears
    <3>3. (Bound(t)' <=> Bound(t)) /\ (RowHeld(t)' <=> RowHeld(t))
      BY <2>1 DEF Bound, RowHeld
    <3> QED BY <2>1, <3>1, <3>2, <3>3, TxKnown DEF Promoting, Reversing, Clearing, Resting
  <2> QED BY <2>3, <2>4, <2>5 DEF LedgerInv
<1>2. ASSUME NEW t \in TxIds, NEW j \in Journals, Post(t, j) PROVE LedgerInv'
  BY <1>2, PostKeeps
<1>3. ASSUME NEW t \in TxIds, NEW j \in Journals, NEW e \in Movements,
             NEW level \in Independent, NEW c \in Independent,
             Promote(t, j, e, level, c) \/ Reverse(t, j, e, level, c)
      PROVE  LedgerInv'
  BY <1>3, PromoteKeeps, ReverseKeeps
<1>4. ASSUME NEW t \in TxIds,
             PromoteRow(t) \/ Bind(t) \/ TakeVault(t) \/ ReversePost(t) \/ ReverseOwn(t)
             \/ ReverseOriginal(t) \/ ClearRow(t) \/ ClearProof(t) \/ Abort(t)
      PROVE  LedgerInv'
  BY <1>4, PromoteRowKeeps, BindKeeps, TakeVaultKeeps, ReversePostKeeps, ReverseOwnKeeps,
     ReverseOriginalKeeps, ClearRowKeeps, ClearProofKeeps, AbortKeeps
<1>5. ASSUME NEW t \in TxIds, NEW o \in Obligations, NEW j \in Journals,
             NEW how \in {"journal", "evidence"}, Clear(t, o, j, how)
      PROVE  LedgerInv'
  BY <1>5, ClearKeeps
<1>6. ASSUME NEW t \in TxIds, Commit(t) PROVE LedgerInv'
  BY <1>6, CommitCommon, CommitPromoteKeeps, CommitReverseKeeps
<1>7. ASSUME NEW t \in TxIds, CommitClear(t) PROVE LedgerInv'
  BY <1>7, CommitClearKeeps
<1>8. ASSUME NEW o \in Obligations, Owe(o) PROVE LedgerInv'
  BY <1>8, OwedOpens DEF Owe
<1>9. ASSUME NEW o \in Obligations, Review(o) PROVE LedgerInv'
  BY <1>9, OwedOpens DEF Review
<1> QED BY <1>1, <1>2, <1>3, <1>4, <1>5, <1>6, <1>7, <1>8, <1>9 DEF LedgerNext, TxStep

\* The books are true to the chain under any interleaving of transactions, for any
\* journals, movements and obligations: what cleared an obligation stays confirmed,
\* a reversal and its original change together, the vault is covered, and one
\* movement on the chain confirms one in the ledger (assetLedger.ts promote,
\* reverse, clear).
THEOREM TrueLedger == LedgerSpec => []LedgerIsTrue
<1>1. LedgerInv => LedgerIsTrue
  BY DEF LedgerInv
<1> QED BY <1>1, LedgerInitHolds, LedgerStep, PTL DEF LedgerSpec

(***************************************************************************)
(* The recovery of a failed migration.  RecoveryInv says who has the       *)
(* migration lock, and what whoever has it knows of the history and of the *)
(* indexes: nobody else changes either until the lock is free.             *)
(***************************************************************************)
Held == {"choose", "build", "record", "reread", "drop"}
ToolPcs == {"read", "lock", "reread", "drop", "repair", "clean", "final", "verify"}
Runs == [pc : Held \cup ToolPcs \cup {"idle", "migrate"}, version : Nat, target : Nat, at : Nat,
         tool : BOOLEAN]
IndexRows == [state : {"absent", "invalid", "valid"}, by : Nat]

RecoveryTypeOK ==
  /\ history \in [Versions -> {"none", "failed", "success"}]
  /\ index \in [Indexes -> IndexRows]
  /\ run \in [Procs -> Runs]
  /\ recovered \subseteq Versions

\* Whoever works under the lock has it, and nobody else.
LockIsHeld == \A p \in Procs : run[p].pc \in Held <=> lock = p

Valid(v, k) == index[IndexesOf(v)[k]].state = "valid"

\* What each process knows of the history and of the indexes it has built.
Knows(p) ==
  LET v == run[p].version
  IN /\ run[p].tool => run[p].target \in Versions /\ v \in Versions
     /\ run[p].pc \in ToolPcs => run[p].tool
     /\ run[p].pc \in {"choose", "build", "record"} => Failed = {}
     /\ run[p].pc \in {"build", "record"} =>
          v \in Versions /\ history[v] = "none" /\ \A u \in Versions : u < v => history[u] = "success"
     /\ run[p].pc = "build" =>
          run[p].at \in DOMAIN IndexesOf(v) /\ \A k \in DOMAIN IndexesOf(v) : k < run[p].at => Valid(v, k)
     /\ run[p].pc = "record" => \A k \in DOMAIN IndexesOf(v) : Valid(v, k)
     /\ run[p].pc = "drop" => history[v] = "failed" /\ run[p].at \in DOMAIN IndexesOf(v)

RecoveryInv == RecoveryTypeOK /\ LockIsHeld /\ (\A p \in Procs : Knows(p)) /\ RecoveryIsTrue

\* Some migrations are numbered from a least one.
LEMMA LeastVersion ==
  ASSUME NEW S \in SUBSET Versions, S # {}
  PROVE  \E v \in S : \A u \in S : v <= u
<1>1. S \subseteq Nat
  BY RecoveryAssumption
<1>2. PICK v \in S : \A u \in S : <<u, v>> \notin OpToRel(<, Nat)
  BY <1>1, NatLessThanWellFounded, WFMin
<1>3. \A u \in S : ~(u < v)
  BY <1>1, <1>2 DEF OpToRel
<1>4. v \in Nat /\ \A u \in S : u \in Nat
  BY <1>1
<1> QED BY <1>3, <1>4

\* The index a process works on.
LEMMA BuildingIsIndex ==
  ASSUME NEW p \in Procs, run[p].version \in Versions, run[p].at \in DOMAIN IndexesOf(run[p].version)
  PROVE  Building(p) \in Indexes
BY DEF Building, Indexes

\* A process at rest knows nothing.
LEMMA NoRunTyped ==
  /\ NoRun \in Runs /\ NoRun.pc = "idle" /\ NoRun.tool = FALSE
  /\ NoRun.target = 0 /\ NoRun.version = 0
BY DEF NoRun, Runs

\* What is known of the whole.
LEMMA RecoveryKnown ==
  ASSUME RecoveryInv, NEW p \in Procs
  PROVE  /\ RecoveryTypeOK /\ LockIsHeld /\ Knows(p) /\ run[p] \in Runs
         /\ BuiltStands /\ HistoryIsOrdered /\ RecoveredIsBuilt
BY DEF RecoveryInv, RecoveryTypeOK, RecoveryIsTrue

\* A process that holds no lock moves on, and what it relies on stands.
LEMMA QuietMoves ==
  ASSUME RecoveryInv, NEW p \in Procs, NEW rec \in Runs, Go(p, rec),
         UNCHANGED <<history, index, lock>>,
         run[p].pc \notin Held, rec.pc \notin Held, Knows(p)'
  PROVE  LockIsHeld' /\ (\A q \in Procs : Knows(q)') /\ run' \in [Procs -> Runs]
         /\ BuiltStands' /\ HistoryIsOrdered'
<1>1. RecoveryTypeOK /\ LockIsHeld /\ (\A q \in Procs : Knows(q)) /\ BuiltStands /\ HistoryIsOrdered
  BY DEF RecoveryInv, RecoveryIsTrue
<1>2. /\ run' = [run EXCEPT ![p] = rec] /\ run'[p] = rec
      /\ \A q \in Procs : q # p => run'[q] = run[q]
  BY <1>1 DEF Go, RecoveryTypeOK
<1>3. run' \in [Procs -> Runs]
  BY <1>1, <1>2 DEF RecoveryTypeOK
<1>4. LockIsHeld'
  BY <1>1, <1>2 DEF LockIsHeld
<1>5. ASSUME NEW q \in Procs PROVE Knows(q)'
  <2>1. CASE q = p
    BY <2>1
  <2>2. CASE q # p
    BY <1>1, <1>2, <2>2 DEF Knows, Failed, Valid
  <2> QED BY <2>1, <2>2
<1>6. BuiltStands' /\ HistoryIsOrdered'
  BY <1>1 DEF BuiltStands, HistoryIsOrdered
<1> QED BY <1>3, <1>4, <1>5, <1>6

\* When no other process holds the lock, one may take it, keep it or let it go, and
\* change what is under it.
LEMMA HolderMoves ==
  ASSUME RecoveryInv, NEW p \in Procs, NEW rec \in Runs, Go(p, rec),
         lock \in {p, Nobody}, \A q \in Procs : q # p => lock' # q,
         rec.pc \in Held <=> lock' = p, Knows(p)'
  PROVE  LockIsHeld' /\ (\A q \in Procs : Knows(q)') /\ run' \in [Procs -> Runs]
<1>1. RecoveryTypeOK /\ LockIsHeld /\ (\A q \in Procs : Knows(q))
  BY DEF RecoveryInv
<1>2. /\ run' = [run EXCEPT ![p] = rec] /\ run'[p] = rec
      /\ \A q \in Procs : q # p => run'[q] = run[q]
  BY <1>1 DEF Go, RecoveryTypeOK
<1>3. run' \in [Procs -> Runs]
  BY <1>1, <1>2 DEF RecoveryTypeOK
<1>4. \A q \in Procs : q # p => run[q].pc \notin Held
  BY <1>1, RecoveryAssumption DEF LockIsHeld
<1>5. LockIsHeld'
  BY <1>2, <1>4 DEF LockIsHeld
<1>6. ASSUME NEW q \in Procs PROVE Knows(q)'
  <2>1. CASE q = p
    BY <2>1
  <2>2. CASE q # p
    <3>1. run'[q] = run[q] /\ run[q].pc \notin Held /\ Knows(q)
      BY <1>1, <1>2, <1>4, <2>2
    <3> QED BY <3>1 DEF Knows, Held
  <2> QED BY <2>1, <2>2
<1> QED BY <1>3, <1>5, <1>6

\* What is on record is older than what is not.
LEMMA RecordedIsOlder ==
  ASSUME RecoveryTypeOK, HistoryIsOrdered, NEW v \in Versions, history[v] # "success",
         NEW u \in Versions, history[u] # "none", u # v
  PROVE  u < v
<1>1. u \in Nat /\ v \in Nat
  BY RecoveryAssumption
<1>2. ~(v < u)
  BY DEF HistoryIsOrdered
<1> QED BY <1>1, <1>2

\* An index taken in hand by a migration that is not on record is no older one's.
LEMMA IndexChanges ==
  ASSUME RecoveryInv, NEW v \in Versions, history[v] # "success",
         NEW i \in Indexes, NEW new \in IndexRows, new.by = v, index' = [index EXCEPT ![i] = new],
         \A u \in Versions : history'[u] = "success" => history[u] = "success"
  PROVE  /\ index' \in [Indexes -> IndexRows] /\ BuiltStands'
         /\ index'[i] = new /\ \A j \in Indexes : j # i => index'[j] = index[j]
<1>1. RecoveryTypeOK /\ BuiltStands /\ HistoryIsOrdered
  BY DEF RecoveryInv, RecoveryIsTrue
<1>2. /\ index' \in [Indexes -> IndexRows]
      /\ index'[i] = new /\ \A j \in Indexes : j # i => index'[j] = index[j]
  BY <1>1 DEF RecoveryTypeOK
<1>3. BuiltStands'
  <2> SUFFICES ASSUME NEW u \in Versions, history'[u] = "success", NEW k \in DOMAIN IndexesOf(u)
               PROVE  index'[IndexesOf(u)[k]].state = "valid" \/ index'[IndexesOf(u)[k]].by > u
    BY DEF BuiltStands
  <2>1. history[u] = "success"
    OBVIOUS
  <2>2. u < v
    BY <1>1, <2>1, RecordedIsOlder
  <2>3. IndexesOf(u)[k] \in Indexes
    BY DEF Indexes
  <2>4. CASE IndexesOf(u)[k] = i
    BY <1>2, <2>2, <2>4, RecoveryAssumption
  <2>5. CASE IndexesOf(u)[k] # i
    BY <1>1, <1>2, <2>1, <2>3, <2>5 DEF BuiltStands
  <2> QED BY <2>4, <2>5
<1> QED BY <1>2, <1>3

\* A deployment starts, or a tool is asked to recover what failed.
LEMMA MigrateKeeps ==
  ASSUME RecoveryInv, NEW p \in Procs, Migrate(p)
  PROVE  RecoveryInv'
<1> DEFINE rec == [NoRun EXCEPT !.pc = "migrate", !.target = Len(Plans)]
<1>1. Go(p, rec) /\ UNCHANGED <<history, index, lock, recovered>> /\ run[p].pc = "idle"
  BY DEF Migrate, At
<1>2. rec \in Runs /\ rec.pc = "migrate" /\ rec.tool = FALSE
  BY RecoveryAssumption DEF NoRun, Runs
<1> HIDE DEF rec
<1>3. RecoveryTypeOK /\ RecoveredIsBuilt
  BY RecoveryKnown
<1>4. run'[p] = rec
  BY <1>1, <1>3 DEF Go, RecoveryTypeOK
<1>5. Knows(p)'
  BY <1>2, <1>4 DEF Knows, ToolPcs
<1>6. run[p].pc \notin Held /\ rec.pc \notin Held
  BY <1>1, <1>2 DEF Held
<1>7. LockIsHeld' /\ (\A q \in Procs : Knows(q)') /\ run' \in [Procs -> Runs]
      /\ BuiltStands' /\ HistoryIsOrdered'
  BY <1>1, <1>2, <1>5, <1>6, QuietMoves
<1> QED BY <1>1, <1>3, <1>7 DEF RecoveryInv, RecoveryTypeOK, RecoveryIsTrue, RecoveredIsBuilt

\* The tool starts on one migration without the lock.
LEMMA RecoverKeeps ==
  ASSUME RecoveryInv, NEW p \in Procs, Recover(p)
  PROVE  RecoveryInv'
<1>1. PICK v \in Versions :
        Go(p, [NoRun EXCEPT !.pc = "read", !.version = v, !.target = v, !.tool = TRUE])
  BY DEF Recover
<1> DEFINE rec == [NoRun EXCEPT !.pc = "read", !.version = v, !.target = v, !.tool = TRUE]
<1>2. Go(p, rec) /\ UNCHANGED <<history, index, lock, recovered>> /\ run[p].pc = "idle"
  BY <1>1 DEF Recover, At
<1>3. rec \in Runs /\ rec.pc = "read" /\ rec.tool = TRUE /\ rec.target = v /\ rec.version = v
  <2>1. v \in Nat
    BY RecoveryAssumption
  <2> QED BY <2>1 DEF NoRun, Runs, ToolPcs
<1> HIDE DEF rec
<1>4. RecoveryTypeOK /\ RecoveredIsBuilt
  BY RecoveryKnown
<1>5. run'[p] = rec
  BY <1>2, <1>4 DEF Go, RecoveryTypeOK
<1>6. Knows(p)'
  BY <1>3, <1>5 DEF Knows, ToolPcs
<1>7. run[p].pc \notin Held /\ rec.pc \notin Held
  BY <1>2, <1>3 DEF Held
<1>8. LockIsHeld' /\ (\A q \in Procs : Knows(q)') /\ run' \in [Procs -> Runs]
      /\ BuiltStands' /\ HistoryIsOrdered'
  BY <1>2, <1>3, <1>6, <1>7, QuietMoves
<1> QED BY <1>2, <1>4, <1>8 DEF RecoveryInv, RecoveryTypeOK, RecoveryIsTrue, RecoveredIsBuilt

\* The tool goes from one of its commands to the next, or to its migration.
LEMMA ToolMoves ==
  ASSUME RecoveryInv, NEW p \in Procs, NEW pc \in (ToolPcs \cup {"migrate"}) \ Held, GoOn(p, pc),
         run[p].pc \in ToolPcs \ Held, UNCHANGED <<history, index, lock, recovered>>
  PROVE  RecoveryInv'
<1> DEFINE rec == [run[p] EXCEPT !.pc = pc]
<1>1. Go(p, rec)
  BY DEF GoOn
<1>2. RecoveryTypeOK /\ RecoveredIsBuilt /\ Knows(p) /\ run[p] \in Runs
  BY RecoveryKnown
<1>3. /\ rec \in Runs /\ rec.pc = pc /\ rec.tool = run[p].tool
      /\ rec.target = run[p].target /\ rec.version = run[p].version
  BY <1>2 DEF Runs
<1> HIDE DEF rec
<1>4. run'[p] = rec
  BY <1>1, <1>2 DEF Go, RecoveryTypeOK
<1>5. Knows(p)'
  BY <1>2, <1>3, <1>4 DEF Knows, ToolPcs, Held
<1>6. LockIsHeld' /\ (\A q \in Procs : Knows(q)') /\ run' \in [Procs -> Runs]
      /\ BuiltStands' /\ HistoryIsOrdered'
  BY <1>1, <1>3, <1>5, QuietMoves
<1> QED BY <1>2, <1>6 DEF RecoveryInv, RecoveryTypeOK, RecoveryIsTrue, RecoveredIsBuilt

\* The first look, and the two validations.
LEMMA LooksKeep ==
  ASSUME RecoveryInv, NEW p \in Procs, ReadState(p) \/ ValidateClean(p) \/ ValidateFinal(p)
  PROVE  RecoveryInv'
<1>1. CASE ReadState(p)
  BY <1>1, ToolMoves DEF ReadState, At, ToolPcs, Held
<1>2. CASE ValidateClean(p)
  BY <1>2, ToolMoves DEF ValidateClean, Command, At, ToolPcs, Held
<1>3. CASE ValidateFinal(p)
  BY <1>3, ToolMoves DEF ValidateFinal, Command, At, ToolPcs, Held
<1> QED BY <1>1, <1>2, <1>3

\* What the last look finds on record stays there.
LEMMA VerifyFinalKeeps ==
  ASSUME RecoveryInv, NEW p \in Procs, VerifyFinal(p)
  PROVE  RecoveryInv'
<1>1. RecoveryTypeOK /\ RecoveredIsBuilt /\ Knows(p)
  BY RecoveryKnown
<1>2. /\ run[p].pc = "verify" /\ history[run[p].target] = "success"
      /\ recovered' = recovered \cup {run[p].target}
      /\ Go(p, NoRun) /\ UNCHANGED <<history, index, lock>>
  BY DEF VerifyFinal, At
<1>3. run[p].target \in Versions
  BY <1>1, <1>2 DEF Knows, ToolPcs
<1>4. run'[p] = NoRun
  BY <1>1, <1>2, NoRunTyped DEF Go, RecoveryTypeOK
<1>5. Knows(p)'
  BY <1>4, NoRunTyped DEF Knows, ToolPcs
<1>6. run[p].pc \notin Held /\ NoRun.pc \notin Held
  BY <1>2, NoRunTyped DEF Held
<1>7. LockIsHeld' /\ (\A q \in Procs : Knows(q)') /\ run' \in [Procs -> Runs]
      /\ BuiltStands' /\ HistoryIsOrdered'
  BY <1>2, <1>5, <1>6, NoRunTyped, QuietMoves
<1>8. recovered' \subseteq Versions /\ RecoveredIsBuilt'
  BY <1>1, <1>2, <1>3 DEF RecoveryTypeOK, RecoveredIsBuilt
<1> QED BY <1>1, <1>2, <1>7, <1>8 DEF RecoveryInv, RecoveryTypeOK, RecoveryIsTrue

\* A step that takes, keeps or frees the lock and changes nothing under it.
LEMMA LockMoves ==
  ASSUME RecoveryInv, NEW p \in Procs, NEW rec \in Runs, Go(p, rec),
         UNCHANGED <<history, index, recovered>>,
         lock \in {p, Nobody}, lock' \in {p, Nobody}, rec.pc \in Held <=> lock' = p, Knows(p)'
  PROVE  RecoveryInv'
<1>1. RecoveryTypeOK /\ BuiltStands /\ HistoryIsOrdered /\ RecoveredIsBuilt
  BY RecoveryKnown
<1>2. \A q \in Procs : q # p => lock' # q
  BY RecoveryAssumption
<1>3. LockIsHeld' /\ (\A q \in Procs : Knows(q)') /\ run' \in [Procs -> Runs]
  BY <1>2, HolderMoves
<1>4. (BuiltStands /\ HistoryIsOrdered /\ RecoveredIsBuilt)'
  BY <1>1 DEF BuiltStands, HistoryIsOrdered, RecoveredIsBuilt
<1> QED BY <1>1, <1>3, <1>4 DEF RecoveryInv, RecoveryTypeOK, RecoveryIsTrue

\* A run that ends frees what it holds.
LEMMA StopKeeps ==
  ASSUME RecoveryInv, NEW p \in Procs, Stop(p)
  PROVE  RecoveryInv'
<1>1. RecoveryTypeOK /\ LockIsHeld /\ RecoveredIsBuilt
  BY RecoveryKnown
<1>2. Go(p, NoRun) /\ lock' = (IF lock = p THEN Nobody ELSE lock) /\ UNCHANGED <<history, index, recovered>>
  BY DEF Stop, Fail
<1>3. run'[p] = NoRun
  BY <1>1, <1>2, NoRunTyped DEF Go, RecoveryTypeOK
<1>4. Knows(p)' /\ NoRun.pc \notin Held
  BY <1>3, NoRunTyped DEF Knows, ToolPcs, Held
<1>5. CASE lock = p
  <2>1. lock' = Nobody /\ lock' # p
    BY <1>2, <1>5, RecoveryAssumption
  <2> QED BY <1>2, <1>4, <1>5, <2>1, NoRunTyped, LockMoves
<1>6. CASE lock # p
  <2>1. run[p].pc \notin Held /\ UNCHANGED lock
    BY <1>1, <1>2, <1>6 DEF LockIsHeld
  <2>2. LockIsHeld' /\ (\A q \in Procs : Knows(q)') /\ run' \in [Procs -> Runs]
        /\ BuiltStands' /\ HistoryIsOrdered'
    BY <1>2, <1>4, <2>1, NoRunTyped, QuietMoves
  <2> QED BY <1>1, <1>2, <2>2 DEF RecoveryInv, RecoveryTypeOK, RecoveryIsTrue, RecoveredIsBuilt
<1> QED BY <1>5, <1>6

\* A command that connects has the lock.
LEMMA ConnectKeeps ==
  ASSUME RecoveryInv, NEW p \in Procs, Connect(p) \/ AcquireLock(p)
  PROVE  RecoveryInv'
<1> DEFINE pc == IF run[p].pc = "migrate" THEN "choose" ELSE "reread"
           rec == [run[p] EXCEPT !.pc = pc]
<1>1. /\ Go(p, rec) /\ lock = Nobody /\ lock' = p /\ UNCHANGED <<history, index, recovered>>
      /\ (run[p].pc = "migrate" /\ Failed = {}) \/ run[p].pc = "lock"
  BY DEF Connect, AcquireLock, Command, At, GoOn
<1>2. RecoveryTypeOK /\ Knows(p) /\ run[p] \in Runs
  BY RecoveryKnown
<1>3. /\ rec \in Runs /\ rec.pc = pc /\ rec.tool = run[p].tool
      /\ rec.target = run[p].target /\ rec.version = run[p].version
  BY <1>2 DEF Runs, Held
<1>4. pc \in Held /\ (pc = "choose" => Failed = {}) /\ pc \in {"choose", "reread"}
      /\ (pc \in ToolPcs => run[p].tool)
  BY <1>1, <1>2 DEF Held, ToolPcs, Knows
<1> HIDE DEF rec, pc
<1>5. run'[p] = rec
  BY <1>1, <1>2 DEF Go, RecoveryTypeOK
<1>6. Failed' = Failed
  BY <1>1 DEF Failed
<1>7. Knows(p)'
  BY <1>2, <1>3, <1>4, <1>5, <1>6 DEF Knows
<1> QED BY <1>1, <1>3, <1>4, <1>7, LockMoves

\* The second look, under the lock.
LEMMA RereadKeeps ==
  ASSUME RecoveryInv, NEW p \in Procs, Reread(p)
  PROVE  RecoveryInv'
<1> DEFINE rec == [run[p] EXCEPT !.pc = "drop", !.at = 1]
<1>1. /\ Go(p, rec) /\ UNCHANGED <<history, index, lock, recovered>>
      /\ run[p].pc = "reread" /\ Failed = {run[p].version}
  BY DEF Reread, At, StillFailed
<1>2. RecoveryTypeOK /\ LockIsHeld /\ Knows(p) /\ run[p] \in Runs
  BY RecoveryKnown
<1>3. /\ rec \in Runs /\ rec.pc = "drop" /\ rec.at = 1 /\ rec.tool = run[p].tool
      /\ rec.target = run[p].target /\ rec.version = run[p].version
  BY <1>2 DEF Runs, Held
<1> HIDE DEF rec
<1>4. run'[p] = rec /\ lock = p
  BY <1>1, <1>2 DEF Go, RecoveryTypeOK, LockIsHeld, Held
<1>5. run[p].tool /\ run[p].version \in Versions /\ history[run[p].version] = "failed"
  BY <1>1, <1>2 DEF Knows, ToolPcs, Failed
<1>6. 1 \in DOMAIN IndexesOf(run[p].version)
  BY <1>5, RecoveryAssumption
<1>7. Knows(p)'
  BY <1>1, <1>2, <1>3, <1>4, <1>5, <1>6 DEF Knows, ToolPcs
<1> QED BY <1>1, <1>3, <1>4, <1>7, LockMoves DEF Held

\* The next migration to run is the first that is not on record.
LEMMA ChooseKeeps ==
  ASSUME RecoveryInv, NEW p \in Procs, Choose(p)
  PROVE  RecoveryInv'
<1> DEFINE pending == Pending(run[p].target)
<1>1. /\ run[p].pc = "choose" /\ UNCHANGED <<history, index, recovered>>
  BY DEF Choose, At
<1>2. RecoveryTypeOK /\ LockIsHeld /\ Knows(p) /\ run[p] \in Runs
  BY RecoveryKnown
<1>3. lock = p /\ Failed = {} /\ p # Nobody
  BY <1>1, <1>2, RecoveryAssumption DEF LockIsHeld, Held, Knows
<1>4. Failed' = Failed
  BY <1>1 DEF Failed
<1>5. CASE pending = {} /\ run[p].tool
  <2> DEFINE rec == [run[p] EXCEPT !.pc = "final"]
  <2>1. Go(p, rec) /\ lock' = Nobody
    BY <1>5 DEF Choose, GoOn
  <2>2. /\ rec \in Runs /\ rec.pc = "final" /\ rec.tool = run[p].tool
        /\ rec.target = run[p].target /\ rec.version = run[p].version
    BY <1>2 DEF Runs, ToolPcs
  <2> HIDE DEF rec
  <2>3. run'[p] = rec
    BY <1>2, <2>1 DEF Go, RecoveryTypeOK
  <2>4. Knows(p)'
    BY <1>2, <1>5, <2>2, <2>3 DEF Knows, ToolPcs
  <2> QED BY <1>1, <1>3, <2>1, <2>2, <2>4, LockMoves DEF Held
<1>6. CASE pending = {} /\ ~run[p].tool
  <2>1. Go(p, NoRun) /\ lock' = Nobody
    BY <1>6 DEF Choose
  <2>2. run'[p] = NoRun
    BY <1>2, <2>1, NoRunTyped DEF Go, RecoveryTypeOK
  <2>3. Knows(p)' /\ NoRun.pc \notin Held
    BY <2>2, NoRunTyped DEF Knows, ToolPcs, Held
  <2> QED BY <1>1, <1>3, <2>1, <2>3, NoRunTyped, LockMoves
<1>7. CASE pending # {}
  <2> DEFINE next == CHOOSE v \in pending : \A u \in pending : v <= u
             rec == [run[p] EXCEPT !.pc = "build", !.at = 1, !.version = next]
  <2>1. Go(p, rec) /\ lock' = lock
    BY <1>7 DEF Choose
  <2>2. /\ next \in Versions /\ history[next] = "none"
        /\ \A u \in Versions : u < next => history[u] = "success"
    <3>1. pending \in SUBSET Versions
      BY DEF Pending
    <3>2. next \in pending /\ \A u \in pending : next <= u
      <4> HIDE DEF pending
      <4> QED BY <1>7, <3>1, LeastVersion
    <3>3. next \in Versions /\ history[next] = "none" /\ next <= run[p].target
      BY <3>2 DEF Pending
    <3>4. ASSUME NEW u \in Versions, u < next PROVE history[u] = "success"
      <4> HIDE DEF next, pending
      <4>1. PICK t \in Nat : t = run[p].target
        BY <1>2 DEF Runs
      <4>2. u \in Nat /\ next \in Nat
        BY <3>3, RecoveryAssumption
      <4>3. u <= t /\ ~(next <= u)
        BY <3>3, <3>4, <4>1, <4>2
      <4>4. u \notin pending
        BY <3>2, <4>3
      <4>5. history[u] # "none"
        BY <4>1, <4>3, <4>4 DEF pending, Pending
      <4>6. history[u] # "failed"
        BY <1>3 DEF Failed
      <4> QED BY <1>2, <4>5, <4>6 DEF RecoveryTypeOK
    <3> QED BY <3>3, <3>4
  <2>3. next \in Nat
    BY <2>2, RecoveryAssumption
  <2> HIDE DEF next
  <2>4. /\ rec \in Runs /\ rec.pc = "build" /\ rec.at = 1 /\ rec.tool = run[p].tool
        /\ rec.target = run[p].target /\ rec.version = next
    BY <1>2, <2>3 DEF Runs, Held
  <2> HIDE DEF rec
  <2>5. run'[p] = rec
    BY <1>2, <2>1 DEF Go, RecoveryTypeOK
  <2>6. 1 \in DOMAIN IndexesOf(next) /\ \A k \in DOMAIN IndexesOf(next) : ~(k < 1)
    BY <2>2, RecoveryAssumption
  <2>7. Knows(p)'
    BY <1>1, <1>2, <1>3, <1>4, <2>2, <2>4, <2>5, <2>6 DEF Knows, ToolPcs
  <2> QED BY <1>1, <1>3, <2>1, <2>4, <2>7, LockMoves DEF Held
<1> QED BY <1>5, <1>6, <1>7

\* Who builds or records has the lock, and its migration is not on record.
LEMMA WorkKnown ==
  ASSUME RecoveryInv, NEW p \in Procs, run[p].pc \in {"build", "record", "drop"}
  PROVE  /\ lock = p /\ p # Nobody /\ run[p].version \in Versions /\ run[p].version \in Nat
         /\ history[run[p].version] \in {"none", "failed"}
         /\ run[p].pc \in {"build", "record"} => history[run[p].version] = "none" /\ Failed = {}
         /\ run[p].pc \in {"build", "drop"} =>
              run[p].at \in DOMAIN IndexesOf(run[p].version) /\ Building(p) \in Indexes
         /\ run[p].pc = "drop" => run[p].tool /\ history[run[p].version] = "failed"
         /\ run[p] \in Runs
<1>1. RecoveryTypeOK /\ LockIsHeld /\ Knows(p) /\ run[p] \in Runs
  BY RecoveryKnown
<1>2. lock = p /\ p # Nobody
  BY <1>1, RecoveryAssumption DEF LockIsHeld, Held
<1>3. /\ run[p].version \in Versions
      /\ run[p].pc \in {"build", "record"} => history[run[p].version] = "none" /\ Failed = {}
      /\ run[p].pc = "drop" => run[p].tool /\ history[run[p].version] = "failed"
      /\ run[p].pc \in {"build", "drop"} => run[p].at \in DOMAIN IndexesOf(run[p].version)
  BY <1>1 DEF Knows, ToolPcs
<1>4. run[p].version \in Nat
  BY <1>3, RecoveryAssumption
<1>5. run[p].pc \in {"build", "drop"} => Building(p) \in Indexes
  BY <1>3, BuildingIsIndex
<1> QED BY <1>1, <1>2, <1>3, <1>4, <1>5

\* An index is built; the last one of its migration completes it.
LEMMA BuildKeeps ==
  ASSUME RecoveryInv, NEW p \in Procs, Build(p)
  PROVE  RecoveryInv'
<1>0. PICK v \in Versions : v = run[p].version
  BY WorkKnown DEF Build, At
<1> DEFINE new == [state |-> "valid", by |-> v]
           last == run[p].at = Len(IndexesOf(v))
           rec == IF last THEN [run[p] EXCEPT !.pc = "record"] ELSE [run[p] EXCEPT !.at = @ + 1]
<1>1. /\ run[p].pc = "build" /\ index' = [index EXCEPT ![Building(p)] = new]
      /\ Go(p, rec) /\ UNCHANGED <<history, lock, recovered>>
  BY <1>0 DEF Build, At, GoOn
<1>2. RecoveryTypeOK /\ HistoryIsOrdered /\ RecoveredIsBuilt /\ Knows(p)
  BY RecoveryKnown
<1>3. /\ lock = p /\ p # Nobody /\ v \in Versions /\ v \in Nat /\ history[v] = "none" /\ Failed = {}
      /\ run[p].at \in DOMAIN IndexesOf(v) /\ Building(p) \in Indexes /\ run[p] \in Runs
  BY <1>0, <1>1, WorkKnown
<1>4. new \in IndexRows /\ new.by = v /\ new.state = "valid"
  BY <1>3 DEF IndexRows
<1>5. PICK n \in Nat : n = Len(IndexesOf(v)) /\ DOMAIN IndexesOf(v) = 1..n
  BY <1>3, RecoveryAssumption
<1>6. PICK a \in Nat : a = run[p].at /\ a \in 1..n
  BY <1>3, <1>5
<1>7. /\ rec \in Runs /\ rec.pc \in {"build", "record"}
      /\ rec.pc = (IF a = n THEN "record" ELSE "build")
      /\ a # n => rec.at = a + 1
      /\ rec.tool = run[p].tool /\ rec.target = run[p].target /\ rec.version = v
  BY <1>0, <1>1, <1>3, <1>5, <1>6 DEF Runs, Held
<1> HIDE DEF rec, new
<1>8. /\ index' \in [Indexes -> IndexRows] /\ BuiltStands'
      /\ index'[Building(p)] = new /\ \A j \in Indexes : j # Building(p) => index'[j] = index[j]
  BY <1>1, <1>3, <1>4, IndexChanges
<1>9. \A k \in DOMAIN IndexesOf(v) : k <= a => index'[IndexesOf(v)[k]].state = "valid"
  <2> SUFFICES ASSUME NEW k \in DOMAIN IndexesOf(v), k <= a
               PROVE  index'[IndexesOf(v)[k]].state = "valid"
    OBVIOUS
  <2>1. IndexesOf(v)[k] \in Indexes
    BY <1>3 DEF Indexes
  <2>2. CASE IndexesOf(v)[k] = Building(p)
    BY <1>4, <1>8, <2>2
  <2>3. CASE IndexesOf(v)[k] # Building(p)
    <3>1. k # a
      BY <1>0, <1>6, <2>3 DEF Building
    <3>2. k < run[p].at
      BY <1>5, <1>6, <3>1
    <3>3. index[IndexesOf(v)[k]].state = "valid"
      BY <1>0, <1>1, <1>2, <3>2 DEF Knows, Valid
    <3> QED BY <1>8, <2>1, <2>3, <3>3
  <2> QED BY <2>2, <2>3
<1>10. run'[p] = rec
  BY <1>1, <1>2, <1>7 DEF Go, RecoveryTypeOK
<1>11. Failed' = Failed
  BY <1>1 DEF Failed
<1>12. Knows(p)'
  <2>1. run'[p].tool => run'[p].target \in Versions /\ run'[p].version \in Versions
    BY <1>0, <1>2, <1>3, <1>7, <1>10 DEF Knows
  <2>2. run'[p].pc \notin ToolPcs
    BY <1>7, <1>10 DEF ToolPcs
  <2>3. run'[p].pc = "build" =>
          run'[p].at \in DOMAIN IndexesOf(v) /\ \A k \in DOMAIN IndexesOf(v) : k < run'[p].at => index'[IndexesOf(v)[k]].state = "valid"
    <3> SUFFICES ASSUME run'[p].pc = "build"
                 PROVE  run'[p].at \in DOMAIN IndexesOf(v)
                        /\ \A k \in DOMAIN IndexesOf(v) : k < run'[p].at => index'[IndexesOf(v)[k]].state = "valid"
      OBVIOUS
    <3>1. run'[p].at = a + 1 /\ a + 1 \in 1..n
      BY <1>6, <1>7, <1>10
    <3>2. \A k \in 1..n : k < a + 1 => k <= a
      OBVIOUS
    <3> QED BY <1>5, <1>9, <3>1, <3>2
  <2>4. run'[p].pc = "record" => \A k \in DOMAIN IndexesOf(v) : index'[IndexesOf(v)[k]].state = "valid"
    <3>1. run'[p].pc = "record" => a = n
      BY <1>7, <1>10
    <3>2. \A k \in 1..n : k <= n
      OBVIOUS
    <3> QED BY <1>5, <1>9, <3>1, <3>2
  <2>5. run'[p].version = v /\ run'[p].pc \in {"build", "record"}
    BY <1>7, <1>10
  <2>6. \A u \in Versions : u < v => history'[u] = "success"
    BY <1>0, <1>1, <1>2 DEF Knows
  <2> QED BY <1>1, <1>3, <1>11, <2>1, <2>2, <2>3, <2>4, <2>5, <2>6 DEF Knows, Valid
<1>13. \A q \in Procs : q # p => lock' # q
  BY <1>1, <1>3
<1>14. LockIsHeld' /\ (\A q \in Procs : Knows(q)') /\ run' \in [Procs -> Runs]
  BY <1>1, <1>3, <1>7, <1>12, <1>13, HolderMoves DEF Held
<1>15. HistoryIsOrdered' /\ RecoveredIsBuilt'
  BY <1>1, <1>2 DEF HistoryIsOrdered, RecoveredIsBuilt
<1> QED BY <1>1, <1>2, <1>8, <1>14, <1>15 DEF RecoveryInv, RecoveryTypeOK, RecoveryIsTrue

\* A migration goes on record with all its indexes, after all before it.
LEMMA RecordKeeps ==
  ASSUME RecoveryInv, NEW p \in Procs, Record(p)
  PROVE  RecoveryInv'
<1> DEFINE v == run[p].version
           rec == [run[p] EXCEPT !.pc = "choose"]
<1>1. /\ run[p].pc = "record" /\ history' = [history EXCEPT ![v] = "success"]
      /\ Go(p, rec) /\ UNCHANGED <<index, lock, recovered>>
  BY DEF Record, At, GoOn
<1>2. RecoveryTypeOK /\ BuiltStands /\ HistoryIsOrdered /\ RecoveredIsBuilt /\ Knows(p)
  BY RecoveryKnown
<1>3. /\ lock = p /\ p # Nobody /\ v \in Versions /\ history[v] = "none" /\ Failed = {}
      /\ run[p] \in Runs
  BY <1>1, WorkKnown
<1>4. /\ rec \in Runs /\ rec.pc = "choose" /\ rec.tool = run[p].tool
      /\ rec.target = run[p].target /\ rec.version = v
  BY <1>3 DEF Runs, Held
<1> HIDE DEF rec
<1>5. /\ history' \in [Versions -> {"none", "failed", "success"}]
      /\ history'[v] = "success" /\ \A u \in Versions : u # v => history'[u] = history[u]
  BY <1>1, <1>2, <1>3 DEF RecoveryTypeOK
<1>6. run'[p] = rec
  BY <1>1, <1>2, <1>4 DEF Go, RecoveryTypeOK
<1>7. Failed' = {}
  BY <1>3, <1>5 DEF Failed
<1>8. Knows(p)'
  BY <1>2, <1>4, <1>6, <1>7 DEF Knows, ToolPcs
<1>9. \A q \in Procs : q # p => lock' # q
  BY <1>1, <1>3
<1>10. LockIsHeld' /\ (\A q \in Procs : Knows(q)') /\ run' \in [Procs -> Runs]
  BY <1>1, <1>3, <1>4, <1>8, <1>9, HolderMoves DEF Held
<1>11. BuiltStands'
  <2> SUFFICES ASSUME NEW u \in Versions, history'[u] = "success", NEW k \in DOMAIN IndexesOf(u)
               PROVE  index'[IndexesOf(u)[k]].state = "valid" \/ index'[IndexesOf(u)[k]].by > u
    BY DEF BuiltStands
  <2>1. CASE u = v
    BY <1>1, <1>2, <2>1 DEF Knows, Valid
  <2>2. CASE u # v
    BY <1>1, <1>2, <1>5, <2>2 DEF BuiltStands
  <2> QED BY <2>1, <2>2
<1>12. HistoryIsOrdered'
  <2> SUFFICES ASSUME NEW w \in Versions, NEW u \in Versions, w < u, history'[u] # "none"
               PROVE  history'[w] = "success"
    BY DEF HistoryIsOrdered
  <2>1. CASE u = v
    <3>1. history[w] = "success"
      BY <1>1, <1>2, <2>1 DEF Knows
    <3>2. w # v
      BY <2>1, RecoveryAssumption
    <3> QED BY <1>5, <3>1, <3>2
  <2>2. CASE u # v
    BY <1>2, <1>5, <2>2 DEF HistoryIsOrdered
  <2> QED BY <2>1, <2>2
<1>13. RecoveredIsBuilt'
  BY <1>1, <1>2, <1>5 DEF RecoveredIsBuilt, RecoveryTypeOK
<1> QED BY <1>1, <1>2, <1>5, <1>10, <1>11, <1>12, <1>13 DEF RecoveryInv, RecoveryTypeOK, RecoveryIsTrue

\* A migration that fails leaves a failed row, after all before it, and frees the lock.
LEMMA BuildFailsKeeps ==
  ASSUME RecoveryInv, NEW p \in Procs, BuildFails(p)
  PROVE  RecoveryInv'
<1>1. PICK v \in Versions : v = run[p].version
  BY WorkKnown DEF BuildFails, At
<1>2. /\ run[p].pc = "build" /\ history' = [history EXCEPT ![v] = "failed"]
      /\ Go(p, NoRun) /\ lock' = (IF lock = p THEN Nobody ELSE lock) /\ UNCHANGED recovered
  BY <1>1 DEF BuildFails, At, Fail
<1>3. RecoveryTypeOK /\ BuiltStands /\ HistoryIsOrdered /\ RecoveredIsBuilt /\ Knows(p)
  BY RecoveryKnown
<1>4. /\ lock = p /\ p # Nobody /\ v \in Nat /\ history[v] = "none" /\ Building(p) \in Indexes
      /\ lock' = Nobody
  BY <1>1, <1>2, WorkKnown
<1>5. /\ history' \in [Versions -> {"none", "failed", "success"}]
      /\ history'[v] = "failed" /\ \A u \in Versions : u # v => history'[u] = history[u]
  BY <1>2, <1>3 DEF RecoveryTypeOK
<1>6. \A u \in Versions : history'[u] = "success" => history[u] = "success"
  BY <1>5
<1>7. index' \in [Indexes -> IndexRows] /\ BuiltStands'
  <2>1. CASE UNCHANGED index
    BY <1>3, <1>6, <2>1 DEF RecoveryTypeOK, BuiltStands
  <2>2. CASE \E left \in {"absent", "invalid"} :
               index' = [index EXCEPT ![Building(p)] = [state |-> left, by |-> v]]
    <3>1. PICK left \in {"absent", "invalid"} :
            index' = [index EXCEPT ![Building(p)] = [state |-> left, by |-> v]]
      BY <2>2
    <3>2. [state |-> left, by |-> v] \in IndexRows /\ [state |-> left, by |-> v].by = v
      BY <1>4 DEF IndexRows
    <3> QED BY <1>4, <1>6, <3>1, <3>2, IndexChanges
  <2> QED BY <1>1, <2>1, <2>2 DEF BuildFails
<1>8. run'[p] = NoRun
  BY <1>2, <1>3, NoRunTyped DEF Go, RecoveryTypeOK
<1>9. Knows(p)' /\ NoRun.pc \notin Held
  BY <1>8, NoRunTyped DEF Knows, ToolPcs, Held
<1>10. \A q \in Procs : lock' # q
  BY <1>4, RecoveryAssumption
<1>11. LockIsHeld' /\ (\A q \in Procs : Knows(q)') /\ run' \in [Procs -> Runs]
  BY <1>2, <1>4, <1>9, <1>10, NoRunTyped, HolderMoves
<1>12. HistoryIsOrdered'
  <2> SUFFICES ASSUME NEW w \in Versions, NEW u \in Versions, w < u, history'[u] # "none"
               PROVE  history'[w] = "success"
    BY DEF HistoryIsOrdered
  <2>1. history[w] = "success"
    <3>1. CASE u = v
      BY <1>1, <1>2, <1>3, <3>1 DEF Knows
    <3>2. CASE u # v
      BY <1>3, <1>5, <3>2 DEF HistoryIsOrdered
    <3> QED BY <3>1, <3>2
  <2> QED BY <1>4, <1>5, <2>1
<1>13. RecoveredIsBuilt'
  BY <1>2, <1>3, <1>4, <1>5 DEF RecoveredIsBuilt, RecoveryTypeOK
<1> QED BY <1>2, <1>3, <1>5, <1>7, <1>11, <1>12, <1>13 DEF RecoveryInv, RecoveryTypeOK, RecoveryIsTrue

\* A migration that is killed leaves no row, and perhaps a build that goes on with
\* the lock.
LEMMA KillKeeps ==
  ASSUME RecoveryInv, NEW p \in Procs, Kill(p)
  PROVE  RecoveryInv'
<1>1. PICK v \in Versions : v = run[p].version
  BY WorkKnown DEF Kill
<1>2. run[p].pc \in {"build", "record"} /\ Go(p, NoRun) /\ UNCHANGED <<history, recovered>>
  BY DEF Kill
<1>3. RecoveryTypeOK /\ BuiltStands /\ HistoryIsOrdered /\ RecoveredIsBuilt
  BY RecoveryKnown
<1>4. lock = p /\ p # Nobody /\ v \in Nat /\ history[v] = "none"
  BY <1>1, <1>2, WorkKnown
<1>5. /\ index' \in [Indexes -> IndexRows] /\ BuiltStands'
      /\ \A q \in Procs : lock' # q
  <2>1. CASE lock' = Nobody /\ UNCHANGED index
    BY <1>2, <1>3, <2>1, RecoveryAssumption DEF RecoveryTypeOK, BuiltStands
  <2>2. CASE /\ run[p].pc = "build" /\ lock' = Session(Building(p))
             /\ index' = [index EXCEPT ![Building(p)] = [state |-> "invalid", by |-> v]]
    <3>1. Building(p) \in Indexes
      BY <2>2, WorkKnown
    <3>2. [state |-> "invalid", by |-> v] \in IndexRows /\ [state |-> "invalid", by |-> v].by = v
      BY <1>4 DEF IndexRows
    <3>3. \A u \in Versions : history'[u] = "success" => history[u] = "success"
      BY <1>2
    <3>4. index' \in [Indexes -> IndexRows] /\ BuiltStands'
      BY <1>4, <2>2, <3>1, <3>2, <3>3, IndexChanges
    <3> QED BY <2>2, <3>1, <3>4, RecoveryAssumption
  <2> QED BY <1>1, <2>1, <2>2 DEF Kill, At
<1>6. run'[p] = NoRun
  BY <1>2, <1>3, NoRunTyped DEF Go, RecoveryTypeOK
<1>7. Knows(p)' /\ NoRun.pc \notin Held
  BY <1>6, NoRunTyped DEF Knows, ToolPcs, Held
<1>8. LockIsHeld' /\ (\A q \in Procs : Knows(q)') /\ run' \in [Procs -> Runs]
  BY <1>2, <1>4, <1>5, <1>7, NoRunTyped, HolderMoves
<1>9. HistoryIsOrdered' /\ RecoveredIsBuilt'
  BY <1>2, <1>3 DEF HistoryIsOrdered, RecoveredIsBuilt
<1> QED BY <1>2, <1>3, <1>5, <1>8, <1>9 DEF RecoveryInv, RecoveryTypeOK, RecoveryIsTrue

\* The build that went on is done: its index may be whole, and the lock is free.
LEMMA SessionEndsKeeps ==
  ASSUME RecoveryInv, SessionEnds
  PROVE  RecoveryInv'
<1>1. RecoveryTypeOK /\ LockIsHeld /\ (\A q \in Procs : Knows(q))
      /\ BuiltStands /\ HistoryIsOrdered /\ RecoveredIsBuilt
  BY DEF RecoveryInv, RecoveryIsTrue
<1>2. PICK i \in Indexes : /\ lock = Session(i)
                           /\ (UNCHANGED index \/ index' = [index EXCEPT ![i].state = "valid"])
  BY <1>1 DEF SessionEnds, RecoveryTypeOK
<1>3. lock' = Nobody /\ UNCHANGED <<history, run, recovered>>
  BY DEF SessionEnds
<1>4. /\ index' \in [Indexes -> IndexRows]
      /\ \A j \in Indexes : index'[j] = index[j] \/ index'[j].state = "valid"
  <2>1. CASE UNCHANGED index
    BY <1>1, <2>1 DEF RecoveryTypeOK
  <2>2. CASE index' = [index EXCEPT ![i].state = "valid"]
    <3>1. index[i] \in IndexRows
      BY <1>1 DEF RecoveryTypeOK
    <3>2. [index[i] EXCEPT !.state = "valid"] \in IndexRows
          /\ [index[i] EXCEPT !.state = "valid"].state = "valid"
      BY <3>1 DEF IndexRows
    <3>3. index' = [index EXCEPT ![i] = [index[i] EXCEPT !.state = "valid"]]
      BY <2>2
    <3> QED BY <1>1, <3>2, <3>3 DEF RecoveryTypeOK
  <2> QED BY <1>2, <2>1, <2>2
<1>5. \A q \in Procs : run[q].pc \notin Held
  BY <1>1, <1>2, RecoveryAssumption DEF LockIsHeld
<1>6. LockIsHeld' /\ \A q \in Procs : Knows(q)'
  <2>1. LockIsHeld'
    BY <1>3, <1>5, RecoveryAssumption DEF LockIsHeld
  <2>2. ASSUME NEW q \in Procs PROVE Knows(q)'
    BY <1>1, <1>3, <1>5 DEF Knows, Held
  <2> QED BY <2>1, <2>2
<1>7. BuiltStands'
  <2> SUFFICES ASSUME NEW u \in Versions, history'[u] = "success", NEW k \in DOMAIN IndexesOf(u)
               PROVE  index'[IndexesOf(u)[k]].state = "valid" \/ index'[IndexesOf(u)[k]].by > u
    BY DEF BuiltStands
  <2>1. IndexesOf(u)[k] \in Indexes
    BY DEF Indexes
  <2> QED BY <1>1, <1>3, <1>4, <2>1 DEF BuiltStands
<1>8. HistoryIsOrdered' /\ RecoveredIsBuilt'
  BY <1>1, <1>3 DEF HistoryIsOrdered, RecoveredIsBuilt
<1> QED BY <1>1, <1>3, <1>4, <1>6, <1>7, <1>8 DEF RecoveryInv, RecoveryTypeOK, RecoveryIsTrue

\* The tool drops, or fails to drop, an index of the migration that failed.
LEMMA DropKeeps ==
  ASSUME RecoveryInv, NEW p \in Procs, DropIndex(p) \/ DropFails(p)
  PROVE  RecoveryInv'
<1>1. PICK v \in Versions : v = run[p].version
  BY WorkKnown DEF DropIndex, DropFails, At
<1>2. run[p].pc = "drop" /\ UNCHANGED <<history, recovered>>
  BY DEF DropIndex, DropFails, At
<1>3. RecoveryTypeOK /\ BuiltStands /\ HistoryIsOrdered /\ RecoveredIsBuilt /\ Knows(p)
  BY RecoveryKnown
<1>4. /\ lock = p /\ p # Nobody /\ v \in Nat /\ history[v] = "failed" /\ Building(p) \in Indexes
      /\ run[p].at \in DOMAIN IndexesOf(v) /\ run[p].tool /\ run[p] \in Runs
  BY <1>1, <1>2, WorkKnown
<1>5. \A u \in Versions : history'[u] = "success" => history[u] = "success"
  BY <1>2
<1>6. index' \in [Indexes -> IndexRows] /\ BuiltStands'
  <2>1. PICK left \in {"absent", "invalid"} :
          index' = [index EXCEPT ![Building(p)] = [state |-> left, by |-> v]]
    BY <1>1 DEF DropIndex, DropFails
  <2>2. [state |-> left, by |-> v] \in IndexRows /\ [state |-> left, by |-> v].by = v
    BY <1>4 DEF IndexRows
  <2> QED BY <1>4, <1>5, <2>1, <2>2, IndexChanges
<1>7. \E rec \in Runs : /\ Go(p, rec) /\ lock' \in {p, Nobody} /\ (rec.pc \in Held <=> lock' = p)
                        /\ Knows(p)'
  <2>1. CASE DropFails(p)
    <3>1. Go(p, NoRun) /\ lock' = Nobody
      BY <1>4, <2>1 DEF DropFails, Fail
    <3>2. run'[p] = NoRun
      BY <1>3, <3>1, NoRunTyped DEF Go, RecoveryTypeOK
    <3>3. Knows(p)' /\ NoRun.pc \notin Held
      BY <3>2, NoRunTyped DEF Knows, ToolPcs, Held
    <3> QED BY <1>4, <3>1, <3>3, NoRunTyped
  <2>2. CASE DropIndex(p) /\ run[p].at = Len(IndexesOf(v))
    <3> DEFINE rec == [run[p] EXCEPT !.pc = "repair"]
    <3>1. Go(p, rec) /\ lock' = Nobody
      BY <1>1, <2>2 DEF DropIndex, GoOn
    <3>2. /\ rec \in Runs /\ rec.pc = "repair" /\ rec.tool = run[p].tool
          /\ rec.target = run[p].target /\ rec.version = v
      BY <1>1, <1>4 DEF Runs, ToolPcs
    <3> HIDE DEF rec
    <3>3. run'[p] = rec
      BY <1>3, <3>1, <3>2 DEF Go, RecoveryTypeOK
    <3>4. Knows(p)' /\ rec.pc \notin Held
      BY <1>1, <1>3, <1>4, <3>2, <3>3 DEF Knows, ToolPcs, Held
    <3> QED BY <1>4, <3>1, <3>2, <3>4
  <2>3. CASE DropIndex(p) /\ run[p].at # Len(IndexesOf(v))
    <3>1. PICK n \in Nat : n = Len(IndexesOf(v)) /\ DOMAIN IndexesOf(v) = 1..n
      BY RecoveryAssumption
    <3>2. PICK a \in Nat : a = run[p].at /\ a \in 1..n /\ a + 1 \in 1..n
      BY <1>4, <2>3, <3>1
    <3> DEFINE rec == [run[p] EXCEPT !.at = a + 1]
    <3>3. Go(p, rec) /\ lock' = p
      BY <1>1, <1>4, <2>3, <3>2 DEF DropIndex
    <3>4. /\ rec \in Runs /\ rec.pc = "drop" /\ rec.at = a + 1 /\ rec.tool = run[p].tool
          /\ rec.target = run[p].target /\ rec.version = v
      <4>1. run[p] \in Runs /\ run[p].pc = "drop" /\ run[p].version = v
        BY <1>1, <1>2, <1>4 DEF RecoveryInv, RecoveryTypeOK
      <4>2. a + 1 \in Nat
        BY <3>2
      <4> QED BY <4>1, <4>2 DEF Runs
    <3> HIDE DEF rec
    <3>5. run'[p] = rec
      BY <1>3, <3>3, <3>4 DEF Go, RecoveryTypeOK
    <3>6. Knows(p)' /\ rec.pc \in Held
      BY <1>1, <1>2, <1>3, <1>4, <3>1, <3>2, <3>4, <3>5 DEF Knows, ToolPcs, Held
    <3> QED BY <3>3, <3>4, <3>6
  <2> QED BY <2>1, <2>2, <2>3
<1>8. PICK rec \in Runs : /\ Go(p, rec) /\ lock' \in {p, Nobody} /\ (rec.pc \in Held <=> lock' = p)
                          /\ Knows(p)'
  BY <1>7
<1>9. \A q \in Procs : q # p => lock' # q
  BY <1>8, RecoveryAssumption
<1>10. LockIsHeld' /\ (\A q \in Procs : Knows(q)') /\ run' \in [Procs -> Runs]
  BY <1>4, <1>8, <1>9, HolderMoves
<1>11. HistoryIsOrdered' /\ RecoveredIsBuilt'
  BY <1>2, <1>3 DEF HistoryIsOrdered, RecoveredIsBuilt
<1> QED BY <1>2, <1>3, <1>6, <1>10, <1>11 DEF RecoveryInv, RecoveryTypeOK, RecoveryIsTrue

\* A repair takes failed rows out of the history, and leaves what is on record.
LEMMA RepairKeeps ==
  ASSUME RecoveryInv, NEW p \in Procs, Repair(p)
  PROVE  RecoveryInv'
<1>1. RecoveryTypeOK /\ LockIsHeld /\ BuiltStands /\ HistoryIsOrdered /\ RecoveredIsBuilt
      /\ Knows(p) /\ run[p] \in Runs
  BY RecoveryKnown
<1>2. /\ run[p].pc = "repair" /\ lock = Nobody /\ UNCHANGED <<index, lock, recovered>>
      /\ history' = [v \in Versions |-> IF v \in Failed THEN "none" ELSE history[v]]
  BY DEF Repair, Command, At
<1>3. /\ history' \in [Versions -> {"none", "failed", "success"}]
      /\ \A v \in Versions : history'[v] = "success" <=> history[v] = "success"
      /\ \A v \in Versions : history'[v] # "none" => history'[v] = "success"
  BY <1>1, <1>2 DEF RecoveryTypeOK, Failed
<1>4. \E rec \in Runs : Go(p, rec) /\ rec.pc \notin Held /\ Knows(p)'
  <2>1. CASE Go(p, NoRun)
    <3>1. run'[p] = NoRun
      BY <1>1, <2>1, NoRunTyped DEF Go, RecoveryTypeOK
    <3>2. Knows(p)' /\ NoRun.pc \notin Held
      BY <3>1, NoRunTyped DEF Knows, ToolPcs, Held
    <3> QED BY <2>1, <3>2, NoRunTyped
  <2>2. CASE GoOn(p, "clean")
    <3> DEFINE rec == [run[p] EXCEPT !.pc = "clean"]
    <3>1. Go(p, rec)
      BY <2>2 DEF GoOn
    <3>2. /\ rec \in Runs /\ rec.pc = "clean" /\ rec.tool = run[p].tool
          /\ rec.target = run[p].target /\ rec.version = run[p].version
      BY <1>1 DEF Runs, ToolPcs
    <3> HIDE DEF rec
    <3>3. run'[p] = rec
      BY <1>1, <3>1, <3>2 DEF Go, RecoveryTypeOK
    <3>4. Knows(p)' /\ rec.pc \notin Held
      BY <1>1, <1>2, <3>2, <3>3 DEF Knows, ToolPcs, Held
    <3> QED BY <3>1, <3>2, <3>4
  <2> QED BY <2>1, <2>2 DEF Repair
<1>5. PICK rec \in Runs : Go(p, rec) /\ rec.pc \notin Held /\ Knows(p)'
  BY <1>4
<1>6. LockIsHeld' /\ (\A q \in Procs : Knows(q)') /\ run' \in [Procs -> Runs]
  BY <1>2, <1>5, RecoveryAssumption, HolderMoves
<1>7. BuiltStands' /\ HistoryIsOrdered' /\ RecoveredIsBuilt'
  <2>1. BuiltStands'
    BY <1>1, <1>2, <1>3 DEF BuiltStands
  <2>2. HistoryIsOrdered'
    <3> SUFFICES ASSUME NEW w \in Versions, NEW u \in Versions, w < u, history'[u] # "none"
                 PROVE  history'[w] = "success"
      BY DEF HistoryIsOrdered
    <3>1. history[u] = "success"
      BY <1>3
    <3>2. history[w] = "success"
      BY <1>1, <3>1 DEF HistoryIsOrdered
    <3> QED BY <1>3, <3>2
  <2>3. RecoveredIsBuilt'
    BY <1>1, <1>2, <1>3 DEF RecoveredIsBuilt, RecoveryTypeOK
  <2> QED BY <2>1, <2>2, <2>3
<1> QED BY <1>1, <1>2, <1>3, <1>6, <1>7 DEF RecoveryInv, RecoveryTypeOK, RecoveryIsTrue

\* Nothing is on record at first.
LEMMA RecoveryInitHolds == RecoveryInit => RecoveryInv
<1> SUFFICES ASSUME RecoveryInit PROVE RecoveryInv
  OBVIOUS
<1>1. /\ history = [v \in Versions |-> "none"]
      /\ index = [i \in Indexes |-> [state |-> "absent", by |-> 0]]
      /\ lock = Nobody /\ recovered = {} /\ run = [p \in Procs |-> NoRun]
  BY DEF RecoveryInit
<1>2. RecoveryTypeOK
  BY <1>1, NoRunTyped DEF RecoveryTypeOK, IndexRows
<1>3. \A p \in Procs : run[p] = NoRun
  BY <1>1
<1>4. LockIsHeld
  BY <1>1, <1>3, NoRunTyped, RecoveryAssumption DEF LockIsHeld, Held
<1>5. \A p \in Procs : Knows(p)
  BY <1>3, NoRunTyped DEF Knows, ToolPcs
<1>6. RecoveryIsTrue
  BY <1>1 DEF RecoveryIsTrue, BuiltStands, HistoryIsOrdered, RecoveredIsBuilt
<1> QED BY <1>2, <1>4, <1>5, <1>6 DEF RecoveryInv

\* Every step of a process keeps the invariant.
LEMMA RecoveryStep == RecoveryInv /\ [RecoveryNext]_RecoveryVars => RecoveryInv'
<1> SUFFICES ASSUME RecoveryInv, [RecoveryNext]_RecoveryVars PROVE RecoveryInv'
  OBVIOUS
<1>1. CASE UNCHANGED RecoveryVars
  BY <1>1 DEF RecoveryVars, RecoveryInv, RecoveryTypeOK, LockIsHeld, Knows, Valid, Failed,
     RecoveryIsTrue, BuiltStands, HistoryIsOrdered, RecoveredIsBuilt
<1>2. CASE SessionEnds
  BY <1>2, SessionEndsKeeps
<1>3. ASSUME NEW p \in Procs, Step(p) PROVE RecoveryInv'
  <2>1. CASE Migrate(p) \/ Connect(p) \/ Choose(p) \/ Build(p) \/ Record(p) \/ BuildFails(p) \/ Kill(p)
    BY <2>1, MigrateKeeps, ConnectKeeps, ChooseKeeps, BuildKeeps, RecordKeeps, BuildFailsKeeps, KillKeeps
  <2>2. CASE Recover(p) \/ ReadState(p) \/ AcquireLock(p) \/ Reread(p) \/ DropIndex(p) \/ DropFails(p)
    BY <2>2, RecoverKeeps, LooksKeep, ConnectKeeps, RereadKeeps, DropKeeps
  <2>3. CASE Repair(p) \/ ValidateClean(p) \/ ValidateFinal(p) \/ VerifyFinal(p) \/ Stop(p)
    BY <2>3, RepairKeeps, LooksKeep, VerifyFinalKeeps, StopKeeps
  <2> QED BY <1>3, <2>1, <2>2, <2>3 DEF Step
<1> QED BY <1>1, <1>2, <1>3 DEF RecoveryNext

\* Recoveries, deployments and crashes in any order, of any migrations, leave a schema
\* that is what the history says: what a migration on record has built stands, the
\* history has no gap and one failure at most, its last row, and what was called
\* recovered is on record (recover-indexes.mjs readState under the lock).
THEOREM TrueRecovery == RecoverySpec => []RecoveryIsTrue
<1>1. RecoveryInv => RecoveryIsTrue
  BY DEF RecoveryInv
<1> QED BY <1>1, RecoveryInitHolds, RecoveryStep, PTL DEF RecoverySpec
=============================================================================

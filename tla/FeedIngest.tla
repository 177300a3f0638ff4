---------------------------- MODULE FeedIngest ----------------------------
(* The market indexer (fervor-feed-rs bin/market_indexer.rs): sessions with *)
(* rotating stream endpoints, the raw journal and its checkpoint            *)
(* (market_journal.rs), the adapter and the decoders, and the trade stream  *)
(* and dead letters they feed (stream_bus.rs).                              *)
(*                                                                          *)
(* Arrivals is the order in which the source emits transactions; a slot may *)
(* arrive at most Disorder slots late.  What the adapter and the decoders   *)
(* make of a transaction is data.  An endpoint of Altered serves other      *)
(* bytes for a transaction than the rest do.                                *)
EXTENDS Integers, FiniteSets, Sequences, FiniteSetsExt

CONSTANTS
    Arrivals,       \* sequence of [slot, adapts, supply, verdict]
    Endpoints,      \* number of endpoints the indexer rotates through
    Altered,        \* pairs <<endpoint, transaction>> whose bytes differ
    MaxSessions,    \* bound: sessions opened
    NoSlot          \* no checkpoint yet, no from_slot

VARIABLES
    emitted,        \* how many arrivals the source has emitted
    reconnects,     \* failures so far; picks the endpoint
    session,        \* [open, from, at, pending]: the running session
    journal,        \* raw rows: transaction -> the bytes accepted
    checkpoint,     \* the slot of the subscription's checkpoint row
    started,        \* arrivals emitted before the first session are nobody's
    trades,         \* <<transaction, bytes>> published as trades
    letters         \* <<transaction, bytes>> dead-lettered, per decoder

vars == <<emitted, reconnects, session, journal, checkpoint, started, trades, letters>>

ReplaySlots == 2
Txs == 1 .. Len(Arrivals)
Endpoint == reconnects % Endpoints
Bytes(i) == IF <<Endpoint, i>> \in Altered THEN "altered" ELSE "plain"
Closed == [open |-> FALSE, from |-> NoSlot, at |-> 0, pending |-> 0]

\* A plausible slip: the session resumes at the checkpoint itself.
ResumeFrom_Exact(slot) == slot
ResumeFrom(slot) == IF slot > ReplaySlots THEN slot - ReplaySlots ELSE 0

Init ==
    /\ emitted \in 0 .. 1
    /\ reconnects = 0 /\ session = Closed
    /\ journal = <<>> /\ checkpoint = NoSlot /\ started = NoSlot
    /\ trades = {} /\ letters = {}

Emit ==
    /\ emitted < Len(Arrivals)
    /\ emitted' = emitted + 1
    /\ UNCHANGED <<reconnects, session, journal, checkpoint, started, trades, letters>>

\* run_endpoint: connect, read the checkpoint, subscribe from two slots below
\* it; without a checkpoint the stream starts at what comes next.
Open ==
    /\ ~session.open /\ reconnects < MaxSessions
    /\ session' = IF checkpoint = NoSlot
                  THEN [open |-> TRUE, from |-> NoSlot, at |-> emitted, pending |-> 0]
                  ELSE [open |-> TRUE, from |-> ResumeFrom(checkpoint), at |-> 0, pending |-> 0]
    /\ started' = IF checkpoint = NoSlot THEN emitted ELSE started
    /\ UNCHANGED <<emitted, reconnects, journal, checkpoint, trades, letters>>

\* The next transaction the endpoint sends: those below from_slot are not sent.
Sent(i) == session.from = NoSlot \/ Arrivals[i].slot >= session.from
Ahead == {i \in session.at + 1 .. emitted : Sent(i)}

\* accept(): insert the raw row or compare it with the one there, then raise
\* the checkpoint, in one transaction that commits before anything is decoded.
\* A plausible slip: a row already there is taken for the same.
SameBytes_Trusting(i) == TRUE
SameBytes(i) == i \in DOMAIN journal => journal[i] = Bytes(i)

Raised(slot) == IF checkpoint = NoSlot \/ slot > checkpoint THEN slot ELSE checkpoint
Accept ==
    /\ session.open /\ session.pending = 0 /\ Ahead # {}
    /\ LET i == Min(Ahead)
       IN /\ SameBytes(i)
          /\ journal' = [j \in DOMAIN journal \union {i} |->
                            IF j \in DOMAIN journal THEN journal[j] ELSE Bytes(i)]
          /\ checkpoint' = Raised(Arrivals[i].slot)
          /\ session' = [session EXCEPT !.at = i, !.pending = i]
    /\ UNCHANGED <<emitted, reconnects, started, trades, letters>>

\* The journal refuses changed bytes: the error ends the session.
Refuse ==
    /\ session.open /\ session.pending = 0 /\ Ahead # {}
    /\ ~SameBytes(Min(Ahead))
    /\ session' = Closed /\ reconnects' = reconnects + 1
    /\ UNCHANGED <<emitted, journal, checkpoint, started, trades, letters>>

\* Decoding is pure; each verdict ends in one place.  A transaction already
\* journaled is decoded and published again: publication follows the commit,
\* so the earlier session may have ended in between.
Decoded == session.open /\ session.pending # 0
Moved == session' = [session EXCEPT !.pending = 0]
This == <<session.pending, Bytes(session.pending)>>

Quarantined ==
    /\ Decoded /\ ~Arrivals[session.pending].adapts
    /\ letters' = letters \union {This}
    /\ Moved
    /\ UNCHANGED <<emitted, reconnects, journal, checkpoint, started, trades>>

\* The supply decoder's quarantine is a letter of its own and does not stop
\* the swap decoder.
SupplyLetter(tx) == IF tx.supply = "bad" THEN {This} ELSE {}
Skipped ==
    /\ Decoded /\ Arrivals[session.pending].adapts
    /\ Arrivals[session.pending].verdict = "none"
    /\ letters' = letters \union SupplyLetter(Arrivals[session.pending])
    /\ Moved
    /\ UNCHANGED <<emitted, reconnects, journal, checkpoint, started, trades>>
Undecodable ==
    /\ Decoded /\ Arrivals[session.pending].adapts
    /\ Arrivals[session.pending].verdict = "bad"
    /\ letters' = letters \union {This}
    /\ Moved
    /\ UNCHANGED <<emitted, reconnects, journal, checkpoint, started, trades>>
Publish ==
    /\ Decoded /\ Arrivals[session.pending].adapts
    /\ Arrivals[session.pending].verdict = "swap"
    /\ trades' = trades \union {This}
    /\ letters' = letters \union SupplyLetter(Arrivals[session.pending])
    /\ Moved
    /\ UNCHANGED <<emitted, reconnects, journal, checkpoint, started>>

\* The stream, the journal or the bus failed, at any point of the loop; the
\* next endpoint is tried after a delay.
Disconnect ==
    /\ session.open
    /\ session' = Closed /\ reconnects' = reconnects + 1
    /\ UNCHANGED <<emitted, journal, checkpoint, started, trades, letters>>
\* The process died: it starts over with its first endpoint.
Crash ==
    /\ session.open
    /\ session' = Closed /\ reconnects' = 0
    /\ UNCHANGED <<emitted, journal, checkpoint, started, trades, letters>>

Next ==
    \/ Emit \/ Open \/ Accept \/ Refuse
    \/ Quarantined \/ Skipped \/ Undecodable \/ Publish
    \/ Disconnect \/ Crash

Spec == Init /\ [][Next]_vars

-----------------------------------------------------------------------------
\* Where a transaction must end up once the indexer is past it.
Settled(i) ==
    LET tx == Arrivals[i]
        told(S) == \E b \in {"plain", "altered"} : <<i, b>> \in S
    IN /\ tx.adapts /\ tx.verdict = "swap" => told(trades)
       /\ ~tx.adapts \/ tx.verdict = "bad" \/ tx.supply = "bad" => told(letters)

\* A session that resumes leaves nothing behind: every transaction the next
\* subscription would not be sent again has been published or dead-lettered
\* (resume_from, market_journal.rs accept).
ResumeLeavesNothing ==
    checkpoint # NoSlot =>
        \A i \in started + 1 .. emitted :
            Arrivals[i].slot < ResumeFrom(checkpoint) => Settled(i)

\* What was published is what was journaled, however many endpoints served it
\* ("source replay changed bytes", market_journal.rs accept).
ToldIsJournaled ==
    \A told \in trades \union letters :
        told[1] \in DOMAIN journal /\ journal[told[1]] = told[2]

\* The feed is true to its source: nothing is left behind a checkpoint and
\* nothing is told that the journal does not hold.
FeedIsTrue == ResumeLeavesNothing /\ ToldIsJournaled
=============================================================================

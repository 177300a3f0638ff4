--------------------------- MODULE PumpLifecycle ---------------------------
(* The lifecycle of one Pump token as the feed rebuilds it from the events  *)
(* of the program (fervor-feed-rs pump.rs, PumpProjection::reconstruct):    *)
(* created, traded along the bonding curve, completed by the trade that     *)
(* empties it, migrated.  The program emits the completion on either side   *)
(* of its final trade, within one instruction.                              *)
(*                                                                          *)
(* An event is [kind, ix, buy, sol, token]: the instruction it is in and,   *)
(* of a trade, its side and the reserves after it (the virtual and the real *)
(* ones move together, so one pair stands for both).  Its place in the      *)
(* sequence is its canonical order.                                         *)
EXTENDS Integers, Sequences, FiniteSets, SequencesExt

CONSTANTS MaxEvents, MaxReserve

VARIABLE events     \* the events of the mint, in canonical order

Unknown == -1
NoEvent == [kind |-> "none", ix |-> 0, buy |-> FALSE, sol |-> 0, token |-> 0]
Unborn == [phase |-> "none", bad |-> FALSE, pending |-> NoEvent, last |-> NoEvent,
           sol |-> Unknown, token |-> Unknown, applied |-> 0, buys |-> 0, sells |-> 0,
           completed |-> 0, curve |-> <<>>]
Refused(p) == [p EXCEPT !.bad = TRUE]
SameInstruction(e, f) == e.ix = f.ix

Create(p, e) ==
    IF p.phase # "none" \/ p.pending # NoEvent THEN Refused(p)
    ELSE [p EXCEPT !.phase = "curve", !.applied = 1]

\* A buy moves SOL in and tokens out, a sale the other way; the first trade
\* has nothing to be compared with.
Moves(p, e) ==
    \/ p.token = Unknown
    \/ e.buy /\ e.sol >= p.sol /\ e.token <= p.token
    \/ ~e.buy /\ e.sol <= p.sol /\ e.token >= p.token

Traded(p, e) ==
    IF p.phase # "curve" \/ ~Moves(p, e) THEN Refused(p)
    ELSE [p EXCEPT !.applied = @ + 1, !.buys = @ + (IF e.buy THEN 1 ELSE 0),
                   !.sells = @ + (IF e.buy THEN 0 ELSE 1),
                   !.sol = e.sol, !.token = e.token]
Completed(p, e) ==
    IF p.phase # "curve" \/ p.token # 0 THEN Refused(p)
    ELSE [p EXCEPT !.applied = @ + 1, !.phase = "complete", !.completed = e.ix]
Point(p, e) == [sol |-> e.sol, token |-> e.token, complete |-> p.phase = "complete"]

\* A trade takes the completion that waits for it, if one does.
\* A plausible slip: any waiting completion is taken for this trade's.
Trade_AnyPending(p, e) ==
    LET traded == Traded([p EXCEPT !.pending = NoEvent], e)
        after == IF p.pending # NoEvent /\ ~traded.bad THEN Completed(traded, p.pending) ELSE traded
    IN IF p.phase = "none" \/ after.bad THEN Refused(p)
       ELSE [after EXCEPT !.curve = Append(@, Point(after, e)), !.last = e]
Trade(p, e) ==
    LET traded == Traded([p EXCEPT !.pending = NoEvent], e)
        after == IF p.pending # NoEvent /\ ~traded.bad THEN Completed(traded, p.pending) ELSE traded
    IN IF \/ p.pending # NoEvent /\ ~SameInstruction(p.pending, e)
          \/ p.phase = "none" \/ after.bad
       THEN Refused(p)
       ELSE [after EXCEPT !.curve = Append(@, Point(after, e)), !.last = e]

\* A completion belongs to the trade before it when that one emptied the
\* curve, and otherwise waits for the trade after it.
Complete(p, e) ==
    IF p.phase # "curve" THEN Refused(p)
    ELSE IF p.token = 0
    THEN IF SameInstruction(p.last, e)
         THEN [Completed(p, e) EXCEPT !.curve[Len(p.curve)].complete = TRUE]
         ELSE Refused(p)
    ELSE IF p.pending # NoEvent THEN Refused(p) ELSE [p EXCEPT !.pending = e]

Withdraw(p, e) ==
    IF p.pending # NoEvent \/ p.phase # "complete" THEN Refused(p)
    ELSE [p EXCEPT !.applied = @ + 1, !.phase = "migrated"]

Step(p, e) ==
    IF p.bad THEN p
    ELSE CASE e.kind = "create" -> Create(p, e)
           [] e.kind = "trade" -> Trade(p, e)
           [] e.kind = "complete" -> Complete(p, e)
           [] OTHER -> Withdraw(p, e)
Replayed(es) == FoldLeft(Step, Unborn, es)

\* What reconstruct answers: no waiting completion, and a created token.
Accepted(es) ==
    LET p == Replayed(es)
    IN ~p.bad /\ p.pending = NoEvent /\ p.phase # "none"

-----------------------------------------------------------------------------
(* The program emits events; the feed has read those so far.                 *)

Kinds == {[NoEvent EXCEPT !.kind = k] : k \in {"create", "complete", "withdraw"}}
Trades == {[kind |-> "trade", ix |-> 0, buy |-> b, sol |-> s, token |-> t] :
             b \in BOOLEAN, s \in 0 .. 1, t \in 0 .. MaxReserve}
LastIx == IF events = <<>> THEN 1 ELSE Last(events).ix

PumpInit == events = <<>>
\* A refused history is refused whatever follows, so it is not continued.
Emit == \E e \in Kinds \union Trades, i \in {LastIx, LastIx + 1} :
    /\ Len(events) < MaxEvents /\ ~Replayed(events).bad
    /\ events' = Append(events, [e EXCEPT !.ix = i])
PumpNext == Emit
PumpSpec == PumpInit /\ [][PumpNext]_events

-----------------------------------------------------------------------------
Where(kind) == {k \in DOMAIN events : events[k].kind = kind}

\* Every event counts once, and each trade has its point on the curve.
CountsAddUp ==
    LET p == Replayed(events)
    IN /\ p.applied = Len(events) /\ Len(p.curve) = p.buys + p.sells
       /\ Len(p.curve) = Cardinality(Where("trade"))

\* A completed token was completed once, beside the trade of the same
\* instruction that emptied the curve, and that trade is its last point: the
\* only one marked complete.
CompletionIsPaired ==
    LET p == Replayed(events)
    IN /\ p.phase \in {"complete", "migrated"} =>
              \E c, t \in DOMAIN events :
                 /\ Where("complete") = {c} /\ t \in {c - 1, c + 1}
                 /\ events[t].kind = "trade" /\ events[t].ix = events[c].ix
                 /\ events[t].token = 0
                 /\ \A k \in Where("trade") : k <= t
       /\ \A k \in DOMAIN p.curve :
              p.curve[k].complete <=> k = Len(p.curve) /\ p.phase # "curve"

\* On whichever side of the trade that emptied the curve the completion is
\* read, the token and its curve come out the same.
Empties(t) == events[t].token = 0 /\ \A k \in Where("trade") : k < t => events[k].token # 0
EitherSide ==
    \A c \in Where("complete") : \A t \in {c - 1, c + 1} \intersect Where("trade") :
        events[t].ix = events[c].ix /\ Empties(t) =>
            LET low == IF c < t THEN c ELSE t
                swapped == [events EXCEPT ![low] = events[low + 1], ![low + 1] = events[low]]
            IN /\ Accepted(swapped)
               /\ [Replayed(swapped) EXCEPT !.last = NoEvent]
                    = [Replayed(events) EXCEPT !.last = NoEvent]

\* An accepted history is a lifecycle (pump.rs reconstruct).
LifecycleHolds == Accepted(events) => CountsAddUp /\ CompletionIsPaired /\ EitherSide
=============================================================================

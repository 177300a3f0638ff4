--------------------------- MODULE WalletIndexer ---------------------------
(* One tracked wallet: the poller that walks its history in both directions *)
(* (walletIndexerService.ts) and the store that keeps its events, their     *)
(* fan-out rows and the position projected from them                        *)
(* (walletProjectionRepository.ts).  Two databases are involved: the lease  *)
(* and the cursors are one row of the core database, the events and the     *)
(* projection live in the market database, so no transaction spans both and *)
(* a fenced heartbeat inside the market transaction stands in for one.      *)
(*                                                                          *)
(* An event is its index in Chain, the wallet's history in canonical order  *)
(* (time, slot, transaction index, event index, key).  The projection is    *)
(* kept as the sequence of events applied since it was last emptied; what   *)
(* the tables hold is Position(applied).                                    *)
EXTENDS Integers, FiniteSets, Sequences, SequencesExt, FiniteSetsExt

CONSTANTS
    Pollers,        \* processes running runBatch
    Chain,          \* sequence of [slot, kind, quantity, value]
    PageSize,       \* WALLET_BACKFILL_LIMIT
    MaxPolls,       \* bound: claims made
    Unpriced        \* the value of an event that carries none

VARIABLES
    visible,    \* how much of Chain the provider serves
    row,        \* wallet_sources: the lease and the cursors
    stored,     \* wallet_events
    fanned,     \* wallet_event_fanout rows with published_at set
    stream,     \* events in the walletEvents stream
    applied,    \* the events behind the projection tables, in order
    poll        \* what each poller remembers across its awaits

vars == <<visible, row, stored, fanned, stream, applied, poll>>

Events == 1 .. Len(Chain)
Bare == [low |-> 0, before |-> 0, complete |-> FALSE, cursor |-> 0, high |-> 0]
Resting == [pc |-> "rest", seq |-> 0, next |-> Bare, page |-> {}, more |-> 0, owed |-> {}]

-----------------------------------------------------------------------------
(* The position: lots bought, consumed first in first out.                   *)

NoPosition ==
    [quantity |-> 0, cost |-> 0, unknown |-> 0, realized |-> 0, consumed |-> 0,
     unresolved |-> 0, untracked |-> 0, lots |-> <<>>]

Least(a, b) == IF a < b THEN a ELSE b

Buy(p, e) ==
    LET priced == e.value # Unpriced
        value == IF priced THEN e.value ELSE 0
    IN [p EXCEPT !.quantity = @ + e.quantity, !.cost = @ + value,
                 !.unknown = @ + (IF priced THEN 0 ELSE e.quantity),
                 !.lots = Append(@, [left |-> e.quantity, cost |-> value, priced |-> priced])]

\* How much of each lot a sale of `tracked` units consumes, and at what cost.
TakenFrom(p, tracked) ==
    [k \in DOMAIN p.lots |->
        LET earlier == MapThenSumSet(LAMBDA j : p.lots[j].left, 1 .. k - 1)
        IN IF tracked <= earlier THEN 0 ELSE Least(tracked - earlier, p.lots[k].left)]
TakenCost(lot, n) ==
    IF ~lot.priced THEN 0 ELSE IF n = lot.left THEN lot.cost ELSE (lot.cost * n) \div lot.left
\* A plausible slip: a lot sold in part keeps its whole cost.
LotsAfter_FullCost(p, taken) ==
    SelectSeq([k \in DOMAIN p.lots |-> [p.lots[k] EXCEPT !.left = @ - taken[k]]],
              LAMBDA lot : lot.left > 0)
LotsAfter(p, taken) ==
    LET rest == [k \in DOMAIN p.lots |->
                    [p.lots[k] EXCEPT !.left = @ - taken[k],
                                      !.cost = @ - TakenCost(p.lots[k], taken[k])]]
    IN SelectSeq(rest, LAMBDA lot : lot.left > 0)

Sell(p, e) ==
    LET tracked == Least(e.quantity, p.quantity)
        taken == TakenFrom(p, tracked)
        known == MapThenSumSet(LAMBDA k : taken[k], {k \in DOMAIN taken : p.lots[k].priced})
        cost == MapThenSumSet(LAMBDA k : TakenCost(p.lots[k], taken[k]), DOMAIN taken)
        moved == e.kind = "transfer_out"
        settled == ~moved /\ e.value # Unpriced /\ known > 0
    IN [p EXCEPT !.quantity = @ - tracked, !.cost = @ - cost,
                 !.unknown = @ - (tracked - known), !.consumed = @ + cost,
                 !.realized = @ + (IF settled THEN (e.value * known) \div e.quantity - cost ELSE 0),
                 !.unresolved = @ + (IF moved THEN 0
                                     ELSE IF e.value = Unpriced THEN tracked ELSE tracked - known),
                 !.untracked = @ + (e.quantity - tracked),
                 !.lots = LotsAfter(p, taken)]

Projected(p, i) == IF Chain[i].kind = "buy" THEN Buy(p, Chain[i]) ELSE Sell(p, Chain[i])
Position(events) == FoldLeft(Projected, NoPosition, events)

-----------------------------------------------------------------------------
(* The provider and the store.                                               *)

Canonical(S) == SetToSortSeq(S, <)

\* A page is the newest PageSize events the provider serves before a cursor
\* and after a slot; the token for the next page is there when more remain.
Served(before, afterSlot) ==
    {i \in 1 .. visible : (before = 0 \/ i < before) /\ Chain[i].slot > afterSlot}
Page(S) == {i \in S : Cardinality({j \in S : j > i}) < PageSize}
NextCursor(S) == IF Page(S) = S THEN 0 ELSE Min(Page(S))
Newest(page) == IF page = {} THEN 0 ELSE Chain[Max(page)].slot

Fenced(w) == row.seq = poll[w].seq

\* A plausible slip: the order is not compared with what was projected before.
Extended_Blind(created) ==
    IF applied = <<>> THEN Canonical(stored \union created) ELSE applied \o Canonical(created)
\* What projecting the events just created makes of the tables: only a batch
\* that follows everything projected extends them, any other rebuilds.
Extended(created) ==
    IF applied = <<>> \/ \E i \in created : i <= Last(applied)
    THEN Canonical(stored \union created)
    ELSE applied \o Canonical(created)

Init ==
    /\ visible \in 0 .. 1
    /\ row = [seq |-> 0, held |-> FALSE, at |-> Bare]
    /\ stored = {} /\ fanned = {} /\ stream = {} /\ applied = <<>>
    /\ poll = [w \in Pollers |-> Resting]

ChainGrows ==
    /\ visible < Len(Chain)
    /\ visible' = visible + 1
    /\ UNCHANGED <<row, stored, fanned, stream, applied, poll>>

-----------------------------------------------------------------------------
(* A poll.                                                                   *)

Claim(w) ==
    /\ poll[w].pc = "rest" /\ ~row.held /\ row.seq < MaxPolls
    /\ row' = [row EXCEPT !.seq = @ + 1, !.held = TRUE]
    /\ poll' = [poll EXCEPT ![w] = [Resting EXCEPT !.pc = "live", !.seq = row.seq + 1, !.next = row.at]]
    /\ UNCHANGED <<visible, stored, fanned, stream, applied>>

\* The provider's rate gate is closed: the poll ends where it began.
Delayed(w) ==
    /\ poll[w].pc = "live"
    /\ row' = IF Fenced(w) THEN [row EXCEPT !.held = FALSE] ELSE row
    /\ poll' = [poll EXCEPT ![w] = Resting]
    /\ UNCHANGED <<visible, stored, fanned, stream, applied>>

\* A plausible slip: the filter starts right after the checkpoint.
AfterSlot_Exact(next) == next.low
\* The live pages overlap the slot of the checkpoint by one.
AfterSlot(next) == IF next.low > 0 THEN next.low - 1 ELSE 0

Live(next) == Served(next.cursor, AfterSlot(next))
FetchLive(w) ==
    /\ poll[w].pc = "live"
    /\ LET next == poll[w].next
           S == IF next.low = 0 THEN Served(0, 0) ELSE Live(next)
       IN poll' = [poll EXCEPT ![w].pc = "keepLive", ![w].page = Page(S), ![w].more = NextCursor(S)]
    /\ UNCHANGED <<visible, row, stored, fanned, stream, applied>>

FetchHistory(w) ==
    /\ poll[w].pc = "history"
    /\ LET S == Served(poll[w].next.before, 0)
       IN poll' = [poll EXCEPT ![w].pc = "keepHistory", ![w].page = Page(S), ![w].more = NextCursor(S)]
    /\ UNCHANGED <<visible, row, stored, fanned, stream, applied>>

\* A plausible slip: the lease is not renewed inside the transaction.
MayAppend_NoHeartbeat(w) == TRUE
\* appendMany takes the source's lock, renews the lease by its sequence and
\* token, and inserts; an empty page does nothing at all.  The events it found
\* without a published fan-out row are the ones the poll goes on to deliver.
MayAppend(w) == poll[w].page = {} \/ Fenced(w)

KeepPage(w) ==
    /\ poll[w].pc \in {"keepLive", "keepHistory"}
    /\ MayAppend(w)
    /\ LET page == poll[w].page
           created == page \ stored
           projectNow == poll[w].pc = "keepLive" /\ poll[w].next.low # 0 /\ poll[w].next.complete
       IN /\ stored' = stored \union page
          /\ applied' = IF projectNow /\ created # {} THEN Extended(created) ELSE applied
          /\ poll' = [poll EXCEPT ![w].owed = page \ fanned,
                                  ![w].pc = IF @ = "keepLive" THEN "tellLive" ELSE "tellHistory"]
    /\ UNCHANGED <<visible, row, fanned, stream>>

\* deliver(): the stream first, then the fan-out row; a crash or an error in
\* between leaves the row for the redrive, and publishOnce knows the key.
Publish(w) == \E i \in poll[w].owed \ stream :
    /\ poll[w].pc \in {"tellLive", "tellHistory"}
    /\ stream' = stream \union {i}
    /\ UNCHANGED <<visible, row, stored, fanned, applied, poll>>
MarkPublished(w) == \E i \in poll[w].owed \intersect stream :
    /\ poll[w].pc \in {"tellLive", "tellHistory"}
    /\ fanned' = fanned \union {i}
    /\ poll' = [poll EXCEPT ![w].owed = @ \ {i}]
    /\ UNCHANGED <<visible, row, stored, stream, applied>>
Redrive == \E i \in stored \ fanned :
    /\ stream' = stream \union {i}
    /\ fanned' = fanned \union {i}
    /\ UNCHANGED <<visible, row, stored, applied, poll>>

\* What a page changes in the poller's copy of the cursors.
AfterFirstPage(next, page, more) ==
    [next EXCEPT !.low = IF page = {} THEN @ ELSE Newest(page), !.before = more, !.complete = more = 0]
\* A plausible slip: the checkpoint follows the first live page at once.
AfterLivePage_Early(next, page, more) ==
    [next EXCEPT !.cursor = more, !.low = IF page # {} /\ next.cursor = 0 THEN Newest(page) ELSE @]
AfterLivePage(next, page, more) ==
    LET high == IF next.cursor = 0 THEN Newest(page) ELSE next.high
    IN IF more # 0 THEN [next EXCEPT !.cursor = more, !.high = high]
       ELSE [next EXCEPT !.cursor = 0, !.high = 0,
                         !.low = IF high # 0 THEN high
                                 ELSE IF page # {} THEN Newest(page) ELSE @]
AfterHistoryPage(next, more) == [next EXCEPT !.before = more, !.complete = more = 0]

NextStep(before, after, stage) ==
    IF after.complete /\ ~before.complete THEN "rebuild"
    ELSE IF stage = "live" /\ ~after.complete /\ before.low # 0 THEN "history" ELSE "finish"

LiveKept(w) ==
    /\ poll[w].pc = "tellLive" /\ poll[w].owed = {}
    /\ LET next == poll[w].next
           first == next.low = 0
           after == IF first THEN AfterFirstPage(next, poll[w].page, poll[w].more)
                    ELSE AfterLivePage(next, poll[w].page, poll[w].more)
           rebuilds == first /\ after.complete
       IN poll' = [poll EXCEPT ![w].next = after,
                     ![w].pc = IF rebuilds THEN "rebuild" ELSE NextStep(next, after, "live")]
    /\ UNCHANGED <<visible, row, stored, fanned, stream, applied>>
HistoryKept(w) ==
    /\ poll[w].pc = "tellHistory" /\ poll[w].owed = {}
    /\ LET after == AfterHistoryPage(poll[w].next, poll[w].more)
       IN poll' = [poll EXCEPT ![w].next = after, ![w].pc = NextStep(poll[w].next, after, "history")]
    /\ UNCHANGED <<visible, row, stored, fanned, stream, applied>>

\* The history is complete: the tables are emptied and every stored event is
\* projected in canonical order, the lease renewed on the way.
Rebuild(w) ==
    /\ poll[w].pc = "rebuild"
    /\ stored = {} \/ Fenced(w)
    /\ applied' = Canonical(stored)
    /\ poll' = [poll EXCEPT ![w].pc = "finish"]
    /\ UNCHANGED <<visible, row, stored, fanned, stream>>

Higher(a, b) == IF a > b THEN a ELSE b
FinishRow(next) == [row EXCEPT !.held = FALSE, !.at = [next EXCEPT !.low = Higher(row.at.low, @)]]
Finish(w) ==
    /\ poll[w].pc = "finish"
    /\ row' = IF Fenced(w) THEN FinishRow(poll[w].next) ELSE row
    /\ poll' = [poll EXCEPT ![w] = Resting]
    /\ UNCHANGED <<visible, stored, fanned, stream, applied>>

\* A provider error, a lost lease, a failed publication: the copy is dropped
\* and the cursors stay.
Fail(w) ==
    /\ poll[w].pc \notin {"rest", "finish"}
    /\ row' = IF Fenced(w) THEN [row EXCEPT !.held = FALSE] ELSE row
    /\ poll' = [poll EXCEPT ![w] = Resting]
    /\ UNCHANGED <<visible, stored, fanned, stream, applied>>

Crash(w) ==
    /\ poll[w].pc # "rest"
    /\ poll' = [poll EXCEPT ![w] = Resting]
    /\ UNCHANGED <<visible, row, stored, fanned, stream, applied>>

LeaseExpires ==
    /\ row.held
    /\ row' = [row EXCEPT !.held = FALSE]
    /\ UNCHANGED <<visible, stored, fanned, stream, applied, poll>>

PollStep(w) ==
    \/ Claim(w) \/ Delayed(w) \/ FetchLive(w) \/ FetchHistory(w) \/ KeepPage(w)
    \/ Publish(w) \/ MarkPublished(w) \/ LiveKept(w) \/ HistoryKept(w)
    \/ Rebuild(w) \/ Finish(w) \/ Fail(w) \/ Crash(w)
Next == ChainGrows \/ Redrive \/ LeaseExpires \/ \E w \in Pollers : PollStep(w)

Spec == Init /\ [][Next]_vars

-----------------------------------------------------------------------------
(* What a reader of the wallet page relies on.                               *)

\* Once the row says the history is complete, the projected position is the
\* history's: every stored event, once, in canonical order, whichever poller
\* stored it and whatever its copy of the row said.  (A wallet found empty is
\* complete with no checkpoint; its first page is stored, then rebuilt.)
PositionIsHistory == row.at.complete /\ row.at.low # 0 => applied = Canonical(stored)

\* The cursors never pass an event: what lies below the checkpoint (and, while
\* the history is still walked, above its cursor) is stored and published.
NothingSkipped ==
    \A i \in 1 .. visible :
        /\ Chain[i].slot < row.at.low
        /\ row.at.complete \/ i >= row.at.before
        => i \in stored /\ i \in stream

\* The tables add up whatever the order: the lots hold the quantity and the
\* cost the position shows, and what was paid is either held or consumed.
TablesAddUp(events) ==
    LET p == Position(events)
        bought == {k \in DOMAIN events : Chain[events[k]].kind = "buy"}
        priced == {k \in bought : Chain[events[k]].value # Unpriced}
        paid == MapThenSumSet(LAMBDA k : Chain[events[k]].value, priced)
    IN /\ p.quantity = MapThenSumSet(LAMBDA k : p.lots[k].left, DOMAIN p.lots)
       /\ p.cost = MapThenSumSet(LAMBDA k : p.lots[k].cost, DOMAIN p.lots)
       /\ p.unknown = MapThenSumSet(LAMBDA k : p.lots[k].left, {k \in DOMAIN p.lots : ~p.lots[k].priced})
       /\ p.cost + p.consumed = paid

\* The wallet page is true: the position is the history's, the tables add up,
\* and no event the cursors have passed is missing or unannounced
\* (walletIndexerService.ts poll, walletProjectionRepository.ts appendMany).
WalletIsTrue == PositionIsHistory /\ NothingSkipped /\ TablesAddUp(applied)
=============================================================================

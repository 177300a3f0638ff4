------------------------------ MODULE ReplayView ------------------------------
(***************************************************************************)
(* The browser's view of a replay (TradingTerminal.tsx, realtime.worker.ts,*)
(* services/replay.ts): the tape of trades, the candles and the table of   *)
(* participants that a user sees.                                          *)
(*                                                                         *)
(* Three sources feed the view and race each other: frames of a web socket,*)
(* which a worker batches; pages of history and of participants, which are *)
(* asked for with a cut and arrive later; and the answers of the controls. *)
(* The run behind them (srv) only has an epoch, a cursor and a status here:*)
(* ReplayRun and ReplayFeed are about it. What a trade says never changes, *)
(* so an answer about a prefix of the tape is the same whenever it is read.*)
(*                                                                         *)
(* A trade is known by its cursor; the visible rows of activity, the price *)
(* lines and the pacing of frames are left out.                            *)
(***************************************************************************)
EXTENDS Integers, FiniteSets, Sequences, SequencesExt, Functions

CONSTANTS
  Trades,        \* the tape: a sequence of [maker, buys, at, price]
  HistoryLimit,  \* how many trades a page of history reaches back (replayHistoryLimit)
  Preview,       \* how many trades the short range shows (replayPreviewTrades)
  MaxPending,    \* how many frames the worker keeps (maxPending)
  MaxEpoch,      \* bound on the seeks
  MaxBreaks,     \* bound on connections lost
  MaxControls,   \* bound on controls used
  None           \* nothing there

VARIABLES
  srv,      \* the run: [epoch, cursor, status]
  link,     \* what the connection has been sent: [epoch, cursor, status], or None
  worker,   \* [pending, known]: the frames kept, and the cut to resume from
  view,     \* the component's references, see EmptyView
  range,    \* "preview" or "full"
  control,  \* the control in use: [op, stage, state], or None
  get,    
  breaks, controls,
  reached,  \* history: how far each epoch has played
  fell,     \* history: the worker has thrown frames away
  mixed     \* history: a batch held trades from before a snapshot it also held

vars == <<srv, link, worker, view, range, control, get, breaks, controls, reached, fell, mixed>>

Total == Len(Trades)
Cursors == 0 .. Total
Makers == {Trades[i].maker : i \in 1 .. Total}
Larger(a, b) == IF a > b THEN a ELSE b
Smaller(a, b) == IF a < b THEN a ELSE b

(***************************************************************************)
(* Participants: the server folds a prefix, the browser goes on from there.*)
(***************************************************************************)
\* What one trade adds to its maker's row.
Counted(rows, c) ==
  LET t == Trades[c + 1] IN
  [rows EXCEPT ![t.maker] =
     [bought |-> @.bought + IF t.buys THEN t.amount ELSE 0,
      sold |-> @.sold + IF t.buys THEN 0 ELSE t.amount,
      trades |-> @.trades + 1]]

NoRows == [m \in Makers |-> [bought |-> 0, sold |-> 0, trades |-> 0]]

Project(epoch, c) ==
  [epoch |-> epoch, cut |-> c,
   rows |-> [m \in Makers |->
               LET mine == {i \in 1 .. c : Trades[i].maker = m}
                   Sum(S) == FoldFunctionOnSet(LAMBDA t, s : s + t.amount, 0, Trades, S)
               IN [bought |-> Sum({i \in mine : Trades[i].buys}),
                   sold |-> Sum({i \in mine : ~Trades[i].buys}),
                   trades |-> Cardinality(mine)]]]

\* Mutant: a gap in the trades is passed over.
Advance_Gaps(table, cursors) ==
  LET Take(t, c) == IF c < t.cut THEN t ELSE [t EXCEPT !.cut = c + 1, !.rows = Counted(@, c)]
  IN FoldLeft(Take, table, SortSeq(cursors, <))

\* The browser's fold: trades below its cut are skipped, and a gap spoils the whole.
Advance(table, cursors) ==
  LET Take(t, c) ==
        CASE t = None -> None
          [] t # None /\ c < t.cut -> t
          [] t # None /\ c = t.cut -> [t EXCEPT !.cut = @ + 1, !.rows = Counted(@, c)]
          [] OTHER -> None
  IN FoldLeft(Take, table, SortSeq(cursors, <))

(***************************************************************************)
(* Candles: trades in the order of time are appended, others are inserted. *)
(***************************************************************************)
Candle(t, open) ==
  [at |-> t.at, open |-> open, high |-> Larger(open, t.price), low |-> Smaller(open, t.price),
   close |-> t.price, trades |-> 1]

Touched(k, t) ==
  [k EXCEPT !.high = Larger(@, t.price), !.low = Smaller(@, t.price),
            !.close = t.price, !.trades = @ + 1]

AddLast(candles, c) ==
  LET t == Trades[c + 1] IN
  IF candles # <<>> /\ Last(candles).at = t.at
  THEN [candles EXCEPT ![Len(candles)] = Touched(@, t)]
  ELSE Append(candles, Candle(t, IF candles = <<>> THEN t.price ELSE Last(candles).close))

AddAny(candles, c) ==
  LET t == Trades[c + 1]
      there == {i \in DOMAIN candles : candles[i].at = t.at}
  IN IF there # {} THEN [candles EXCEPT ![CHOOSE i \in there : TRUE] = Touched(@, t)]
     ELSE SortSeq(Append(candles, Candle(t, t.price)), LAMBDA a, b : a.at < b.at)

\* connectCandles
Connected(candles) ==
  [i \in DOMAIN candles |->
     IF i = 1 THEN candles[1]
     ELSE LET close == candles[i - 1].close IN
          [candles[i] EXCEPT !.open = close, !.high = Larger(@, close), !.low = Smaller(@, close)]]

MergeCandles(candles, cursors) ==
  LET At(i) == Trades[cursors[i] + 1].at
      inOrder == /\ candles # <<>> => At(1) >= Last(candles).at
                 /\ \A i \in 2 .. Len(cursors) : At(i) >= At(i - 1)
  IN IF cursors = <<>> THEN candles
     ELSE IF inOrder THEN FoldLeft(AddLast, candles, cursors)
     ELSE Connected(FoldLeft(AddAny, candles, cursors))

(***************************************************************************)
(* The view.                                                               *)
(*   cut      the state last applied, resync  the server asked to start over*)
(*   tape     the trades kept; visual, detail  those not painted, not listed*)
(*   parts    the participants, with their epoch and cut                   *)
(*   hist, people   the latest hydrations, known by the cut they are for   *)
(***************************************************************************)
EmptyView == [cut |-> None, resync |-> FALSE, tape |-> <<>>, visual |-> <<>>, detail |-> <<>>,
              candles |-> <<>>, parts |-> None, hist |-> None, people |-> None]

Older(a, b) == a.epoch < b.epoch \/ (a.epoch = b.epoch /\ a.cursor < b.cursor)

ApplyReplay(v, s) ==
  IF v.cut # None /\ Older(s, v.cut) THEN v
  ELSE LET over == v.resync \/ (v.cut # None /\ v.cut.epoch # s.epoch)
       IN [(IF over THEN EmptyView ELSE v) EXCEPT !.cut = s, !.resync = FALSE]

WantHistory(v, s) ==
  IF s.cursor = 0 THEN v ELSE [v EXCEPT !.hist = [epoch |-> s.epoch, target |-> s.cursor]]
WantPeople(v, s) == [v EXCEPT !.people = [epoch |-> s.epoch, target |-> s.cursor]]

\* The tape in the order of its cursors, each trade once.
MergeTape(a, b) == SetToSortSeq(Range(a) \union Range(b), <)

AppendTape(tape, fresh) ==
  LET ordered == tape # <<>> /\ \A i \in DOMAIN fresh :
                   fresh[i] > (IF i = 1 THEN Last(tape) ELSE fresh[i - 1])
  IN IF fresh = <<>> THEN tape
     ELSE IF ordered THEN tape \o fresh ELSE MergeTape(tape, fresh)

\* Mutant: a trade is taken whichever epoch it is from.
OnFrame_AnyEpoch(b, f) ==
  LET s == [epoch |-> f.epoch, cursor |-> f.cursor, status |-> f.status]
      w == ApplyReplay(b.view, s)
  IN CASE f.kind = "snapshot" ->
            [b EXCEPT !.view = WantPeople(IF w.tape = <<>> THEN WantHistory(w, s) ELSE w, s)]
       [] f.kind = "resync" -> [b EXCEPT !.view.resync = TRUE]
       [] f.kind = "trade" /\ (range = "preview" => f.cursor < Preview) ->
            [b EXCEPT !.batch = Append(@, f.cursor)]
       [] f.kind = "state" /\ b.view.cut # None -> [b EXCEPT !.view.cut = s]
       [] OTHER -> b

\* One frame of a batch: b is [view, batch], the trades being collected on the side.
OnFrame(b, f) ==
  LET v == b.view
      stale == v.cut # None /\ f.epoch # v.cut.epoch
      s == [epoch |-> f.epoch, cursor |-> f.cursor, status |-> f.status]
      w == ApplyReplay(v, s)
  IN CASE f.kind = "snapshot" ->
            [b EXCEPT !.view = WantPeople(IF w.tape = <<>> THEN WantHistory(w, s) ELSE w, s)]
       [] f.kind = "resync" -> [b EXCEPT !.view.resync = TRUE]
       [] f.kind = "trade" /\ ~stale /\ (range = "preview" => f.cursor < Preview) ->
            [b EXCEPT !.batch = Append(@, f.cursor)]
       [] f.kind = "state" /\ ~stale /\ v.cut # None -> [b EXCEPT !.view.cut = s]
       [] OTHER -> b

\* onReplayFrames: the trades of the batch are added once all its frames are seen.
OnFrames(v, frames) ==
  LET b == FoldLeft(OnFrame, [view |-> v, batch |-> <<>>], frames)
      fresh == SelectSeq(b.batch, LAMBDA c : c \notin Range(b.view.tape))
  IN [b.view EXCEPT !.tape = AppendTape(@, fresh), !.visual = @ \o fresh, !.detail = @ \o fresh]

(***************************************************************************)
(* The worker: what it remembers to resume from, and what it keeps.        *)
(***************************************************************************)
Frame(kind, s) == [kind |-> kind, epoch |-> s.epoch, cursor |-> s.cursor, status |-> s.status]

Remember(known, f) ==
  CASE f.kind = "resync" -> None
    [] f.kind = "snapshot" -> [epoch |-> f.epoch, cursor |-> f.cursor]
    [] f.kind = "trade" -> [epoch |-> f.epoch, cursor |-> f.cursor + 1]
    [] OTHER -> known

\* A full queue takes a newer state for an older one; for anything else it is thrown
\* away and the connection with it.
Enqueue(w, f) ==
  LET same == {i \in DOMAIN w.pending : w.pending[i].kind = f.kind}
  IN CASE Len(w.pending) < MaxPending -> [w EXCEPT !.pending = Append(@, f)]
       [] Len(w.pending) >= MaxPending /\ f.kind \in {"state", "snapshot"} /\ same # {} ->
            [w EXCEPT !.pending[CHOOSE i \in same : \A j \in same : j <= i] = f]
       [] OTHER -> [pending |-> <<>>, known |-> None, open |-> FALSE]

Receive(w, f) ==
  IF ~w.open THEN w ELSE Enqueue([w EXCEPT !.known = Remember(@, f)], f)

\* The frames reach the worker, in order.
Send(frames, now) ==
  LET w == FoldLeft(Receive, worker @@ [open |-> TRUE], frames)
  IN /\ worker' = [pending |-> w.pending, known |-> w.known]
     /\ link' = IF w.open THEN now ELSE None
     /\ fell' = (fell \/ ~w.open)

(***************************************************************************)
(* The run and its feed.                                                   *)
(***************************************************************************)
TradeFrame(epoch, c) == [kind |-> "trade", epoch |-> epoch, cursor |-> c, status |-> "running"]

Init ==
  /\ srv \in [epoch : {1}, cursor : {0, 1}, status : {"paused"}]
  /\ link = None /\ worker = [pending |-> <<>>, known |-> None]
  /\ view = EmptyView /\ range = "preview" /\ control = None /\ get = [stage |-> "sent", state |-> None]
  /\ breaks = 0 /\ controls = 0
  /\ reached = [e \in 1 .. MaxEpoch |-> IF e = 1 THEN srv.cursor ELSE 0]
  /\ fell = FALSE /\ mixed = FALSE

Page == <<view, range, control, get, breaks, controls, mixed>>

\* The clock takes the next trade.
Play ==
  /\ srv.status = "running"
  /\ srv' = [srv EXCEPT !.cursor = @ + 1,
                        !.status = IF srv.cursor + 1 = Total THEN "complete" ELSE @]
  /\ reached' = [reached EXCEPT ![srv.epoch] = Larger(@, srv.cursor + 1)]
  /\ UNCHANGED <<link, worker, fell, Page>>

\* The trades of an epoch from one cursor to another, and the state they lead to.
Deltas(from) ==
  [i \in 1 .. srv.cursor - from.cursor |-> TradeFrame(srv.epoch, from.cursor + i - 1)]
    \o <<Frame("state", srv)>>

Serve ==
  /\ link # None /\ link # srv
  /\ Send(IF link.epoch = srv.epoch THEN Deltas(link)
          ELSE <<Frame("resync", srv), Frame("snapshot", srv)>>, srv)
  /\ UNCHANGED <<srv, reached, Page>>

\* The connection opens: it resumes if the feed still has every frame after the cut
\* the worker names; else there is a snapshot, after a warning if a cut was named.
Connect ==
  /\ link = None
  /\ \/ /\ worker.known # None => worker.known.epoch # srv.epoch
        /\ Send(<<Frame("snapshot", srv)>>, srv)
     \/ /\ worker.known # None /\ worker.known.epoch = srv.epoch
        /\ \/ Send(<<Frame("resync", srv), Frame("snapshot", srv)>>, srv)
           \/ Send(Deltas(worker.known), srv)
  /\ UNCHANGED <<srv, reached, Page>>

\* The connection is lost; a server that falls behind says so before it closes.
Break ==
  /\ link # None /\ breaks < MaxBreaks
  /\ breaks' = breaks + 1
  /\ \/ link' = None /\ UNCHANGED <<worker, fell>>
     \/ Send(<<Frame("resync", srv)>>, None)
  /\ UNCHANGED <<srv, reached, view, range, control, get, controls, mixed>>

(***************************************************************************)
(* The page.                                                               *)
(***************************************************************************)
Others == <<srv, link, range, control, get, breaks, controls, reached, fell>>

\* The worker posts what it has and the page handles all of it.
Flush ==
  /\ worker.pending # <<>>
  /\ worker' = [worker EXCEPT !.pending = <<>>]
  /\ view' = OnFrames(view, worker.pending)
  /\ mixed' = (mixed \/ \E i, j \in DOMAIN worker.pending :
                 /\ i < j /\ worker.pending[i].kind = "trade" /\ worker.pending[j].kind = "snapshot")
  /\ UNCHANGED Others

Paint ==
  /\ view.visual # <<>>
  /\ view' = [view EXCEPT !.candles = MergeCandles(@, view.visual), !.visual = <<>>]
  /\ UNCHANGED <<worker, mixed, Others>>

\* The chart starts over, or another interval is chosen.
Redraw ==
  /\ view.tape # <<>>
  /\ view' = [view EXCEPT !.candles = MergeCandles(<<>>, view.tape), !.visual = <<>>]
  /\ UNCHANGED <<worker, mixed, Others>>

FlushDetail ==
  /\ view.detail # <<>>
  /\ view' = [view EXCEPT
       !.detail = <<>>,
       !.parts = IF @ = None \/ Advance(@, view.detail) = None THEN @ ELSE Advance(@, view.detail)]
  /\ UNCHANGED <<worker, mixed, Others>>

\* A page of history arrives, or the request fails.
HistoryArrives ==
  LET h == view.hist
      first == Larger(0, h.target - HistoryLimit)
      pages == [i \in 1 .. h.target - first |-> first + i - 1]
      tape == MergeTape(pages, view.tape)
  IN /\ h # None
     /\ view' = IF view.cut.epoch = h.epoch /\ view.cut.cursor >= h.target
                THEN [view EXCEPT !.hist = None, !.tape = tape, !.visual = <<>>, !.detail = <<>>,
                                  !.candles = MergeCandles(<<>>, tape)]
                ELSE [view EXCEPT !.hist = None]
     /\ UNCHANGED <<worker, mixed, Others>>

PeopleArrive ==
  LET p == view.people
      base == Project(p.epoch, p.target)
      next == Advance(base, SelectSeq(view.tape, LAMBDA c : c >= p.target))
      fits == /\ view.cut.epoch = p.epoch /\ view.cut.cursor >= p.target
              /\ next # None /\ next.cut = view.cut.cursor
  IN /\ p # None
     /\ view' = [view EXCEPT !.people = None, !.parts = IF fits THEN next ELSE @]
     /\ UNCHANGED <<worker, mixed, Others>>

RequestFails ==
  /\ \/ view.hist # None /\ view' = [view EXCEPT !.hist = None]
     \/ view.people # None /\ view' = [view EXCEPT !.people = None]
  /\ UNCHANGED <<worker, mixed, Others>>

\* The snapshot the page asks for when it opens, and again after a control failed.
GetRead ==
  /\ get.stage = "sent"
  /\ get' \in {[stage |-> "read", state |-> srv], [stage |-> "none", state |-> None]}
  /\ UNCHANGED <<srv, link, worker, view, range, control, breaks, controls, reached, fell, mixed>>

GetArrives ==
  /\ get.stage = "read" /\ get' = [stage |-> "none", state |-> None]
  /\ view' = WantPeople(WantHistory(ApplyReplay(view, get.state), get.state), get.state)
  /\ UNCHANGED <<srv, link, worker, range, control, breaks, controls, reached, fell, mixed>>

(***************************************************************************)
(* Controls. One is in use at a time, from the click until what it asked   *)
(* for has loaded.                                                         *)
(***************************************************************************)
Use(op, target) ==
  /\ control = None /\ view.cut # None /\ controls < MaxControls
  /\ controls' = controls + 1
  /\ control' = [op |-> op, target |-> target, stage |-> "sent", state |-> view.cut]

Click ==
  /\ LET status == view.cut.status IN
     /\ view.cut # None
     /\ \/ status = "running" /\ Use("pause", 0)
        \/ status = "paused" /\ Use("play", 0)
        \/ status = "complete" /\ Use("again", 0)
        \/ status # "running" /\ Use("step", 0)
        \/ status # "running" /\ view.cut.cursor > 0 /\ Use("seek", 0)
  /\ UNCHANGED <<srv, link, worker, view, range, get, breaks, reached, fell, mixed>>

\* The short range stops the run where it ends.
AutoStop ==
  /\ range = "preview" /\ view.cut # None
  /\ view.cut.status = "running" /\ view.cut.cursor >= Preview
  /\ IF view.cut.cursor = Preview THEN Use("pause", 0) ELSE Use("seek", Preview)
  /\ UNCHANGED <<srv, link, worker, view, range, get, breaks, reached, fell, mixed>>

ChangeRange ==
  /\ control = None /\ view.cut # None /\ view.cut.status # "running"
  /\ range' = IF range = "preview" THEN "full" ELSE "preview"
  /\ IF view.cut.cursor > 0 THEN Use("seek", 0) ELSE UNCHANGED <<control, controls>>
  /\ UNCHANGED <<srv, link, worker, view, get, breaks, reached, fell, mixed>>

\* The owner takes a control that names its present state; a pause need only name
\* the epoch. A seek to where the run is moves nothing.
Moved(c) == [epoch |-> srv.epoch + 1, cursor |-> c, status |-> IF c = Total THEN "complete" ELSE "paused"]
After(op, target) ==
  CASE op = "pause" -> [srv EXCEPT !.status = IF @ = "running" THEN "paused" ELSE @]
    [] op = "play" -> [srv EXCEPT !.status = "running"]
    [] op = "step" /\ srv.cursor < Total ->
         [srv EXCEPT !.cursor = @ + 1, !.status = IF srv.cursor + 1 = Total THEN "complete" ELSE @]
    [] op \in {"seek", "again"} /\ target # srv.cursor -> Moved(target)
    [] OTHER -> srv

Allowed(op, seen) ==
  CASE op = "pause" -> seen.epoch = srv.epoch
    [] op = "play" -> srv.status = "paused"
    [] op = "step" -> srv.status # "running"
    [] OTHER -> srv.status # "running"

Handle ==
  /\ control # None /\ control.stage = "sent"
  /\ \/ /\ control.state.epoch = srv.epoch
        /\ control.op # "pause" => control.state.cursor = srv.cursor
        /\ Allowed(control.op, control.state)
        /\ After(control.op, control.target).epoch <= MaxEpoch
        /\ srv' = After(control.op, control.target)
        /\ reached' = [reached EXCEPT ![srv'.epoch] = Larger(@, srv'.cursor)]
        /\ control' = [control EXCEPT !.stage = "answered", !.state = srv']
     \/ control' = [control EXCEPT !.stage = "failed"] /\ UNCHANGED <<srv, reached>>
  /\ UNCHANGED <<link, worker, view, range, get, breaks, controls, fell, mixed>>

\* The answer: a run that was over is played again once it is back at its start; a
\* control other than play loads the history and the participants of its cut.
Answered ==
  LET w == ApplyReplay(view, control.state)
      v == IF control.op = "play" THEN w ELSE WantPeople(WantHistory(w, control.state), control.state)
  IN /\ control # None /\ control.stage = "answered"
     /\ IF control.op = "again"
        THEN /\ view' = w
             /\ control' = [control EXCEPT !.op = "play", !.stage = "sent"]
        ELSE /\ view' = v
             /\ control' = IF control.op = "play" THEN None ELSE [control EXCEPT !.stage = "loading"]
     /\ UNCHANGED <<srv, link, worker, range, get, breaks, controls, reached, fell, mixed>>

\* What it asked for has come, or something newer was asked for since.
Settle ==
  /\ control # None /\ control.stage = "loading"
  /\ LET mine == [epoch |-> control.state.epoch, target |-> control.state.cursor]
     IN view.hist # mine /\ view.people # mine
  /\ control' = None
  /\ UNCHANGED <<srv, link, worker, view, range, get, breaks, controls, reached, fell, mixed>>

Failed ==
  /\ control # None /\ control.stage = "failed"
  /\ control' = None /\ get' = [stage |-> "sent", state |-> None]
  /\ UNCHANGED <<srv, link, worker, view, range, breaks, controls, reached, fell, mixed>>

Next ==
  \/ Play \/ Serve \/ Connect \/ Break
  \/ Flush \/ Paint \/ Redraw \/ FlushDetail
  \/ HistoryArrives \/ PeopleArrive \/ RequestFails \/ GetRead \/ GetArrives
  \/ Click \/ AutoStop \/ ChangeRange \/ Handle \/ Answered \/ Settle \/ Failed

Spec == Init /\ [][Next]_vars

(***************************************************************************)
(* Properties.                                                             *)
(***************************************************************************)
\* The participants shown are what the server would say of the same cut of the same
\* epoch, whichever answers and frames the browser put together to get there
\* (advanceReplayParticipants).
ParticipantsAreExact ==
  view.parts # None => view.parts = Project(view.cut.epoch, view.parts.cut)

\* Every trade painted is counted in one candle, once, and lies between its low and
\* its high, whichever of history, frames and redraws brought it (mergeCandles).
CandlesCountTape ==
  \A at \in {t.at : t \in Range(Trades)} :
    LET painted == {c \in Range(view.tape) \ Range(view.visual) : Trades[c + 1].at = at}
        candles == SelectSeq(view.candles, LAMBDA k : k.at = at)
    IN IF painted = {} THEN candles = <<>>
       ELSE /\ Len(candles) = 1 /\ candles[1].trades = Cardinality(painted)
            /\ \A c \in painted : candles[1].low <= Trades[c + 1].price
                                 /\ Trades[c + 1].price <= candles[1].high

\* No trade is shown before the run has played it in the epoch on the screen: views of
\* two epochs are never mixed (onReplayFrames, applyReplay).
ShownIsPlayed ==
  view.cut # None => \A c \in Range(view.tape) : c < reached[view.cut.epoch]

\* What the three say together, ShownIsPlayed only of the batches in which no trade
\* comes before a snapshot: onReplayFrames adds the trades of a batch after all its
\* frames, those from before a snapshot too.
ViewIsTrue == ParticipantsAreExact /\ CandlesCountTape /\ (~mixed => ShownIsPlayed)
=============================================================================

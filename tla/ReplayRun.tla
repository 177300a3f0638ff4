----------------------------- MODULE ReplayRun -----------------------------
(***************************************************************************)
(* The owner of a historical replay: a tape of trades played into a        *)
(* projection and a paper broker, controlled over stdin and a socket, with *)
(* its state saved in files.                                               *)
(*                                                                         *)
(*   - the coordinator moves a cursor over the tape; the scheduler takes   *)
(*     trades from it and gives each to the projection and the broker;     *)
(*   - pause, seek, checkpoint and stop are mutations: they await a timer  *)
(*     or the file system, and one at a time may be active;                *)
(*   - a session file holds projection and broker of one cut.  Files are   *)
(*     written once; a writer that lost a race or its reply is refused.    *)
(*                                                                         *)
(* The rolling windows and latest prices of the projection are functions   *)
(* of the tape before its cursor, which stands for them.  A trade offers   *)
(* an order an input amount (0: wrong side, wrong price or nothing left of *)
(* it after fees).  Whether the projection or the broker refuses a trade   *)
(* depends on data left out here, so either may.  Hashes of files that are *)
(* written once are the files' numbers.  Time 0 is null.                   *)
(***************************************************************************)
EXTENDS Integers, Sequences, FiniteSets, SequencesExt

CONSTANTS
  Tape,        \* the trades: [at |-> observedAt, input |-> amount offered]
  OrderIds,
  Input,       \* inputRaw of an order
  Latency,     \* clientMs + buildMs + submitMs
  Lookahead,   \* maxLookaheadMs
  EpochBound,  \* bound: epochs
  SaveBound    \* bound: sessions saved

ASSUME ReplayAssumption ==
  /\ \A i \in 1 .. Len(Tape) : Tape[i].at \in Nat \ {0} /\ Tape[i].input \in Nat
  /\ \A i \in 1 .. Len(Tape) - 1 : Tape[i].at <= Tape[i + 1].at
  /\ Input \in Nat \ {0} /\ Latency \in Nat /\ Lookahead \in Nat
  /\ EpochBound \in Nat /\ SaveBound \in Nat

VARIABLES
  owner,     \* the process that owns the run
  sessions,  \* the session files of the run, in order
  replays,   \* cursors that have a replay checkpoint file
  shown      \* history: the revision served last

RunVars == <<owner, sessions, replays, shown>>

\* A revision served to readers is a state of ReplaySource.
Source == INSTANCE ReplaySource WITH
  source <- shown, Total <- Len(Tape), MaxEpoch <- EpochBound,
  MaxFact <- 6 * Cardinality(OrderIds)

Cursors == 0 .. Len(Tape)
TimeAt(c) == IF c = 0 THEN 0 ELSE Tape[c].at
Terminal(status) == status \in {"filled", "expired", "cancelled"}

(***************************************************************************)
(* The paper broker.  A paper state holds the epoch and the cursor it is   *)
(* bound to, its orders in the order they were placed, and its facts.      *)
(***************************************************************************)
\* Op(x), with x evaluated once: TLC substitutes arguments unevaluated.
On(x, Op(_)) == CHOOSE r \in {Op(y) : y \in {x}} : TRUE
FoldOn(Op(_, _), base, seq) == FoldLeft(LAMBDA acc, e : On(acc, LAMBDA a : Op(a, e)), base, seq)

EmptyPaper(epoch, cursor) ==
  [epoch |-> epoch, cursor |-> cursor, orders |-> <<>>, log |-> <<>>]

FactsOf(log, id) == SelectSeq(log, LAMBDA f : f.order = id)

\* Appends a fact about the i-th order, with the status it has by now.
EmitFact(paper, i, kind, cursor, at, why, input) ==
  On(paper, LAMBDA p : [p EXCEPT !.log = Append(@,
     [order |-> p.orders[i].id, seq |-> Len(FactsOf(@, p.orders[i].id)), kind |-> kind,
      status |-> p.orders[i].status, epoch |-> p.epoch, cursor |-> cursor, at |-> at,
      why |-> why, input |-> input])])

PlaceOrder(p, id) ==
  LET at == TimeAt(p.cursor)
      order == [id |-> id, placed |-> p.cursor, placedAt |-> at,
                eligible |-> IF at = 0 THEN 0 ELSE at + Latency,
                status |-> "pending", remaining |-> Input, fills |-> <<>>]
      q == [p EXCEPT !.orders = Append(@, order)]
  IN EmitFact(q, Len(q.orders), "intent", p.cursor, at, "none", 0)

CancelOrder(p, i) ==
  EmitFact([p EXCEPT !.orders[i].status = "cancelled"], i, "cancelled",
           p.cursor, TimeAt(p.cursor), "user", 0)

\* What a trade at time `at` does to the age of the i-th order.
AgeOrder(p, i, at) ==
  LET o == p.orders[i]
      due == IF o.eligible = 0 THEN at + Latency ELSE o.eligible
      q == [p EXCEPT !.orders[i].eligible = due]
  IN CASE Terminal(o.status) -> p
       [] ~Terminal(o.status) /\ at >= due + Lookahead ->
            EmitFact([q EXCEPT !.orders[i].status = "expired"], i, "expired",
                     p.cursor, at, "lookahead_elapsed", 0)
       [] o.status = "pending" /\ at >= due /\ at < due + Lookahead ->
            EmitFact([q EXCEPT !.orders[i].status = "eligible"], i, "eligible",
                     p.cursor, at, "none", 0)
       [] OTHER -> q

\* Fills the i-th order from what is left of the trade.
FillOrder(acc, i, at) ==
  LET o == acc.paper.orders[i]
      input == IF o.remaining < acc.left THEN o.remaining ELSE acc.left
      status == IF input = o.remaining THEN "filled" ELSE "partially_filled"
      q == [acc.paper EXCEPT
              !.orders[i].remaining = @ - input,
              !.orders[i].status = status,
              !.orders[i].fills = Append(@, [cursor |-> acc.paper.cursor, at |-> at, input |-> input])]
      r == EmitFact(q, i, "fill", q.cursor, at, "none", input)
  IN IF acc.left = 0 \/ o.status \notin {"eligible", "partially_filled"} THEN acc
     ELSE [paper |-> IF status = "filled"
                       THEN EmitFact(r, i, "filled", r.cursor, at, "none", 0) ELSE r,
           left |-> acc.left - input]

Indexes(p) == [i \in 1 .. Len(p.orders) |-> i]

\* Only the orders and the facts are other ones after that.
Reckoned(p, q) == [p EXCEPT !.orders = q.orders, !.log = q.log]

AgeOrders(p) ==
  On(FoldOn(LAMBDA q, i : AgeOrder(q, i, Tape[p.cursor + 1].at), p, Indexes(p)),
     LAMBDA q : Reckoned(p, q))

\* The broker takes the trade at its cursor.
ApplyTrade(p) ==
  LET trade == Tape[p.cursor + 1]
      Filled(aged) == FoldOn(LAMBDA acc, i : FillOrder(acc, i, trade.at),
                             [paper |-> aged, left |-> trade.input], Indexes(aged)).paper
  IN On(On(AgeOrders(p), Filled), LAMBDA q : [Reckoned(p, q) EXCEPT !.cursor = @ + 1])

\* The tape is over: what is still open expires.
FinishPaper(p) ==
  On(FoldOn(LAMBDA q, i :
              IF Terminal(q.orders[i].status) THEN q
              ELSE EmitFact([q EXCEPT !.orders[i].status = "expired"], i, "expired",
                            q.cursor, TimeAt(q.cursor), "end_of_tape", 0),
            p, Indexes(p)),
     LAMBDA q : Reckoned(p, q))

\* What the broker does on the trade taken, including the end of the tape.
PaperAfter(p) ==
  On(ApplyTrade(p), LAMBDA q : IF q.cursor = Len(Tape) THEN FinishPaper(q) ELSE q)

(***************************************************************************)
(* The checks a saved paper state has to pass.                             *)
(***************************************************************************)
FilledOf(fills) == FoldLeft(LAMBDA sum, f : sum + f.input, 0, fills)

FillsValid(p, o) ==
  /\ \A k \in 1 .. Len(o.fills) :
       /\ o.fills[k].cursor \in o.placed .. p.cursor - 1
       /\ o.fills[k].at <= TimeAt(p.cursor)
       /\ k > 1 => o.fills[k].cursor > o.fills[k - 1].cursor
  /\ FilledOf(o.fills) + o.remaining = Input
  /\ (o.status = "filled") <=> (o.remaining = 0)

\* The facts of one order retell how it came to its status.
OrderFactsValid(p, o) ==
  LET facts == FactsOf(p.log, o.id)
      Before(k) == IF k = 1 THEN "none" ELSE facts[k - 1].status
      NthFill(k) == Len(SelectSeq(SubSeq(facts, 1, k), LAMBDA f : f.kind = "fill"))
  IN /\ facts # <<>> /\ facts[Len(facts)].status = o.status
     /\ NthFill(Len(facts)) = Len(o.fills)
     /\ Terminal(o.status) => facts[Len(facts)].kind = o.status
     /\ \A k \in 1 .. Len(facts) :
          LET f == facts[k]
              fill == o.fills[NthFill(k)]
              soFar == FilledOf(SubSeq(o.fills, 1, NthFill(k)))
          IN /\ f.seq = k - 1
             /\ (k = 1) <=> (f.kind = "intent")
             /\ CASE f.kind = "intent" ->
                       f.status = "pending" /\ f.cursor = o.placed /\ f.at = o.placedAt
                  [] f.kind = "eligible" ->
                       /\ Before(k) = "pending" /\ f.status = "eligible"
                       /\ o.eligible # 0 /\ f.at >= o.eligible
                  [] f.kind = "fill" ->
                       /\ Before(k) \in {"eligible", "partially_filled"}
                       /\ f.status = IF soFar = Input THEN "filled" ELSE "partially_filled"
                       /\ f.cursor = fill.cursor /\ f.at = fill.at /\ f.input = fill.input
                  [] f.kind = "filled" ->
                       /\ Before(k) = "filled" /\ f.status = "filled"
                       /\ f.cursor = fill.cursor /\ f.at = fill.at
                  [] f.kind \in {"expired", "cancelled"} ->
                       /\ ~Terminal(Before(k)) /\ f.status = f.kind
                       /\ (f.kind = "cancelled") <=> (f.why = "user")
                       /\ f.why = "lookahead_elapsed" =>
                            o.eligible # 0 /\ f.at >= o.eligible + Lookahead
                       /\ f.why = "end_of_tape" => f.cursor = p.cursor /\ f.at = TimeAt(p.cursor)

FactsValid(p) ==
  \A k \in 1 .. Len(p.log) :
    /\ \E i \in 1 .. Len(p.orders) : p.orders[i].id = p.log[k].order
    /\ p.log[k].epoch <= p.epoch /\ p.log[k].cursor <= p.cursor
    /\ p.log[k].at <= TimeAt(p.cursor)
    /\ k > 1 => p.log[k].epoch >= p.log[k - 1].epoch /\ p.log[k].cursor >= p.log[k - 1].cursor

PaperValid(p) ==
  /\ \A i, j \in 1 .. Len(p.orders) : p.orders[i].id = p.orders[j].id => i = j
  /\ \A i \in 1 .. Len(p.orders) :
       LET o == p.orders[i] IN
         /\ o.placed <= p.cursor /\ (o.placed = 0) <=> (o.placedAt = 0)
         /\ FillsValid(p, o) /\ OrderFactsValid(p, o)
  /\ FactsValid(p)

\* A session binds both parts to one cut and leaves nothing open at the end.
SessionValid(cut, p) ==
  /\ cut = p.cursor /\ PaperValid(p)
  /\ p.cursor = Len(Tape) => \A i \in 1 .. Len(p.orders) : Terminal(p.orders[i].status)

\* A session of the same epoch continues the one before it.
Extends(p, parent) ==
  /\ p.epoch >= parent.epoch
  /\ p.epoch = parent.epoch =>
       /\ p.cursor >= parent.cursor
       /\ IsPrefix(parent.log, p.log)

(***************************************************************************)
(* The owner.  A play is in flight while active, until abort or the end of *)
(* the tape ends it.  task is the mutation under way and how far it is;    *)
(* saved counts the sessions the owner knows.                              *)
(***************************************************************************)
Statuses == {"paused", "running", "complete", "stopped"}
Vias == {"stdin", "http"}
Down == [up |-> FALSE, epoch |-> 1, cursor |-> 0, status |-> "paused", active |-> FALSE,
         abort |-> FALSE, task |-> "none", via |-> "stdin", goal |-> 0,
         proj |-> [epoch |-> 1, cursor |-> 0], paper |-> EmptyPaper(1, 0), saved |-> 0]

StatusAt(c) == IF c = Len(Tape) THEN "complete" ELSE "paused"

\* Fault: the cursor moves, the epoch does not.
MoveTo_SameEpoch(p, cursor, afterEpoch) ==
  [p EXCEPT !.cursor = cursor, !.status = StatusAt(cursor),
            !.proj = [epoch |-> p.epoch, cursor |-> cursor]]

\* The coordinator moves: a new epoch, and never one it had before.
MoveTo(p, cursor, afterEpoch) ==
  LET epoch == (IF p.epoch > afterEpoch THEN p.epoch ELSE afterEpoch) + 1
  IN [p EXCEPT !.epoch = epoch, !.cursor = cursor, !.status = StatusAt(cursor),
               !.proj = [epoch |-> epoch, cursor |-> cursor]]

\* Readers are refused while a mutation is active.
Seen(old, p) ==
  CASE ~p.up -> Source!Unserved
    [] p.up /\ p.task # "none" -> [old EXCEPT !.phase = "hidden"]
    [] OTHER -> [phase |-> "served", epoch |-> p.epoch, cursor |-> p.cursor,
                 fact |-> Len(p.paper.log)]

RunInit ==
  /\ owner = Down
  /\ sessions = <<>> /\ replays = {}
  /\ shown = Source!Unserved

Becomes(p) ==
  /\ owner' = p
  /\ shown' = Seen(shown, p)

\* The mutation is over, and what its handler held is gone.
Done(p) == [p EXCEPT !.task = "none", !.via = "stdin", !.goal = 0]

\* A request over the socket that fails is not caught: the process dies.
Failed(p) == IF p.via = "http" THEN Down ELSE Done(p)

Idle == owner.up /\ owner.task = "none"
Quiet == Idle /\ ~owner.active

\* The process starts and restores the latest session.
Boot ==
  /\ ~owner.up
  /\ IF sessions = <<>> THEN Becomes([Down EXCEPT !.up = TRUE])
     ELSE LET s == Last(sessions)
              p == MoveTo([Down EXCEPT !.up = TRUE], s.cut, s.paper.epoch)
          IN /\ p.epoch <= EpochBound
             /\ Becomes([p EXCEPT !.paper = [s.paper EXCEPT !.epoch = p.epoch],
                                     !.saved = Len(sessions)])
  /\ UNCHANGED <<sessions, replays>>

Crash == owner.up /\ Becomes(Down) /\ UNCHANGED <<sessions, replays>>

\* What becomes of the owner when the next trade is taken: both parts take it,
\* or the projection or the broker refuses it and the replay is stopped.
Taken(p) ==
  {[p EXCEPT !.cursor = @ + 1, !.proj.cursor = @ + 1, !.paper = PaperAfter(@),
             !.status = IF p.cursor + 1 = Len(Tape) THEN "complete" ELSE @]}
Refused(p) ==
  {[p EXCEPT !.cursor = @ + 1, !.status = "stopped"],
   [p EXCEPT !.cursor = @ + 1, !.status = "stopped", !.proj.cursor = @ + 1,
             !.paper = AgeOrders(@)]}

Play ==
  /\ Quiet /\ owner.status = "paused"
  /\ Becomes([owner EXCEPT !.active = TRUE, !.abort = FALSE, !.status = "running"])
  /\ UNCHANGED <<sessions, replays>>

\* The scheduler gives the next trade to the projection and the broker.
Emit ==
  LET p == owner IN
  /\ p.up /\ p.active /\ ~p.abort /\ p.status = "running"
  /\ \E q \in Taken(p) \cup Refused(p) : Becomes(q)
  /\ UNCHANGED <<sessions, replays>>

\* Fault: only the end of the tape ends a play.
EndPlay_WaitsForTape ==
  LET p == owner IN
  /\ p.up /\ p.active /\ p.status # "running"
  /\ Becomes([p EXCEPT !.active = FALSE, !.abort = FALSE])
  /\ UNCHANGED <<sessions, replays>>

\* The scheduler wakes, sees that it is over, and the runtime forgets the run.
EndPlay ==
  LET p == owner IN
  /\ p.up /\ p.active /\ (p.abort \/ p.status # "running")
  /\ Becomes([p EXCEPT !.active = FALSE, !.abort = FALSE,
                          !.status = IF @ = "running" THEN "paused" ELSE @])
  /\ UNCHANGED <<sessions, replays>>

Step(via) ==
  LET p == owner IN
  /\ Quiet /\ p.status = "paused"
  /\ \/ \E q \in Taken(p) : Becomes(q)
     \/ via = "stdin" /\ \E q \in Refused(p) : Becomes(q)
     \/ via = "http" /\ Becomes(Down)
  /\ UNCHANGED <<sessions, replays>>

Place(id) ==
  LET p == owner IN
  /\ Quiet /\ p.status = "paused" /\ p.paper.cursor < Len(Tape)
  /\ \A i \in 1 .. Len(p.paper.orders) : p.paper.orders[i].id # id
  /\ Becomes([p EXCEPT !.paper = PlaceOrder(@, id)])
  /\ UNCHANGED <<sessions, replays>>

Cancel(i) ==
  LET p == owner IN
  /\ Quiet /\ p.status = "paused"
  /\ i \in 1 .. Len(p.paper.orders) /\ ~Terminal(p.paper.orders[i].status)
  /\ Becomes([p EXCEPT !.paper = CancelOrder(@, i)])
  /\ UNCHANGED <<sessions, replays>>

\* Mutations that first end the play in flight.
Pause ==
  /\ Idle
  /\ Becomes([owner EXCEPT !.task = "pause", !.abort = owner.active])
  /\ UNCHANGED <<sessions, replays>>

Stop ==
  /\ Idle
  /\ Becomes([owner EXCEPT !.task = "stop", !.abort = owner.active])
  /\ UNCHANGED <<sessions, replays>>

\* Over the socket a seek is refused unless the replay rests, and one that
\* moves nothing is answered at once.
SeekAllowed(p, via, goal) ==
  via = "http" => ~p.active /\ p.status \in {"paused", "complete"} /\ goal # p.cursor

Seek(via, goal) ==
  LET p == owner IN
  /\ Idle /\ SeekAllowed(p, via, goal)
  /\ Becomes([p EXCEPT !.task = "seek", !.via = via, !.goal = goal, !.abort = p.active])
  /\ UNCHANGED <<sessions, replays>>

\* The play in flight has ended.
Paused ==
  LET p == owner IN
  /\ p.up /\ ~p.active
  /\ \/ /\ p.task = "pause"
        /\ Becomes(Done(p))
     \/ /\ p.task = "stop"
        /\ Becomes([p EXCEPT !.task = "none", !.status = "stopped"])
     \/ /\ p.task = "seek" /\ p.status = "stopped"
        /\ Becomes(Failed(p))
     \/ /\ p.task = "seek" /\ p.status # "stopped"
        /\ Becomes([p EXCEPT !.task = "load"])
  /\ UNCHANGED <<sessions, replays>>

\* Fault: the paper orders survive the seek.
Sought_KeepsPaper(p) == Done(p)

\* The seek is over: paper starts again, empty, in the new epoch.
Sought(p) == [Done(p) EXCEPT !.paper = EmptyPaper(p.epoch, p.cursor)]

\* The nearest checkpoint file at or before the goal, or else the beginning.
LoadNearest ==
  LET p == owner
      best == Max({0} \cup {c \in replays : c <= p.goal})
      q == MoveTo(p, best, p.epoch)
  IN /\ p.up /\ p.task = "load"
     /\ \/ Becomes(Failed(p))
        \/ /\ q.epoch <= EpochBound
           /\ Becomes(IF best = p.goal THEN Sought(q)
                         ELSE [q EXCEPT !.task = "run", !.status = "running"])
     /\ UNCHANGED <<sessions, replays>>

\* The projection alone is run up to the goal.
SeekOn ==
  LET p == owner
      q == [p EXCEPT !.cursor = @ + 1, !.proj.cursor = @ + 1]
  IN /\ p.up /\ p.task = "run"
     /\ \/ Becomes(IF q.cursor = p.goal
                        THEN Sought([q EXCEPT !.status = StatusAt(q.cursor)]) ELSE q)
        \/ Becomes(Failed([p EXCEPT !.cursor = @ + 1, !.status = "stopped"]))
     /\ UNCHANGED <<sessions, replays>>

Checkpoint ==
  LET p == owner IN
  /\ Quiet /\ p.status \in {"paused", "complete"}
  /\ p.saved < SaveBound
  /\ SessionValid(p.proj.cursor, p.paper)
  /\ Becomes([p EXCEPT !.task = "save", !.via = "stdin"])
  /\ UNCHANGED <<sessions, replays>>

\* The replay checkpoint file is written; an error may come after the link.
SaveReplay ==
  LET p == owner IN
  /\ p.up /\ p.task = "save"
  /\ \/ /\ replays' = replays \cup {p.proj.cursor}
        /\ \/ Becomes([p EXCEPT !.task = "check"])
           \/ Becomes(Failed(p))
     \/ /\ Becomes(Failed(p))
        /\ UNCHANGED replays
  /\ UNCHANGED sessions

\* The latest session is looked up: is this writer stale, or not its heir?
SaveCheck ==
  LET p == owner
      latest == Len(sessions)
      ok == /\ p.saved \in {latest - 1, latest}
            /\ p.saved = latest /\ latest > 0 => Extends(p.paper, Last(sessions).paper)
  IN /\ p.up /\ p.task = "check"
     /\ \/ ok /\ Becomes([p EXCEPT !.task = "link"])
        \/ Becomes(Failed(p))
     /\ UNCHANGED <<sessions, replays>>

\* Fault: the file goes under the next free number.
SaveLink_NextFree ==
  LET p == owner IN
  /\ p.up /\ p.task = "link"
  /\ sessions' = Append(sessions, [cut |-> p.proj.cursor, paper |-> p.paper])
  /\ Becomes([Done(p) EXCEPT !.saved = Len(sessions) + 1])
  /\ UNCHANGED replays

\* The file is linked under its number, unless the number is taken: then its
\* bytes have to be the same.
SaveLink ==
  LET p == owner
      session == [cut |-> p.proj.cursor, paper |-> p.paper]
      known == [Done(p) EXCEPT !.saved = @ + 1]
      free == Len(sessions) = p.saved
      same == Len(sessions) > p.saved /\ sessions[p.saved + 1] = session
  IN /\ p.up /\ p.task = "link"
     /\ sessions' = IF free THEN Append(sessions, session) ELSE sessions
     /\ \/ (free \/ same) /\ Becomes(known)
        \/ Becomes(Failed(p))
     /\ UNCHANGED replays

Trading ==
  \/ \E id \in OrderIds : Place(id)
  \/ \E i \in 1 .. Len(owner.paper.orders) : Cancel(i)

Command ==
  \/ Play \/ Pause \/ Stop \/ Checkpoint
  \/ \E via \in Vias : Step(via)
  \/ \E via \in Vias, goal \in Cursors : Seek(via, goal)

\* What the owner does by itself, once a timer fires or the file system answers.
Progress ==
  \/ EndPlay \/ Paused \/ LoadNearest \/ SeekOn
  \/ SaveReplay \/ SaveCheck \/ SaveLink

\* Another process was started on the run, and saves what it restored.
Rival ==
  LET s == IF sessions = <<>> THEN [cut |-> 0, paper |-> EmptyPaper(1, 0)]
           ELSE [Last(sessions) EXCEPT !.paper.epoch = @ + 1]
  IN /\ Len(sessions) < SaveBound /\ s.paper.epoch <= EpochBound
     /\ sessions' = Append(sessions, s) /\ replays' = replays \cup {s.cut}
     /\ UNCHANGED <<owner, shown>>

ControlNext == Boot \/ Crash \/ Command \/ Emit \/ Progress \/ Rival
RunNext == ControlNext \/ Trading

\* Nothing is assumed of the trades, of commands or of crashes.
RunFairness == WF_RunVars(Progress)
RunSpec == RunInit /\ [][RunNext]_RunVars /\ RunFairness

(***************************************************************************)
(* Properties.                                                             *)
(***************************************************************************)
Epochs == 1 .. EpochBound

\* Types: a revision shown, and the parts of the owner that are not paper.
RunTypeOK ==
  /\ owner.up \in BOOLEAN /\ owner.active \in BOOLEAN /\ owner.abort \in BOOLEAN
  /\ owner.epoch \in Epochs /\ owner.cursor \in Cursors /\ owner.status \in Statuses
  /\ owner.task \in {"none", "pause", "stop", "seek", "load", "run", "save", "check", "link"}
  /\ owner.via \in Vias /\ owner.goal \in Cursors /\ owner.saved \in 0 .. SaveBound
  /\ owner.proj \in [epoch : Epochs, cursor : Cursors]
  /\ owner.paper.epoch \in Epochs /\ owner.paper.cursor \in Cursors
  /\ Len(sessions) <= SaveBound /\ replays \subseteq Cursors
  /\ shown.phase \in {"served", "hidden", "down"}

\* Whenever the replay rests, projection and paper broker stand at the cut of
\* the coordinator, in its epoch, and the paper state passes every check a saved
\* session has to pass: a checkpoint can be taken, and what it saves will be
\* read back.  (A replay that was stopped by an error may be torn.)
RestIsOneSavableCut ==
  LET p == owner IN
  Idle /\ p.status # "stopped" =>
    /\ p.proj = [epoch |-> p.epoch, cursor |-> p.cursor]
    /\ p.paper.epoch = p.epoch /\ p.paper.cursor = p.cursor
    /\ SessionValid(p.proj.cursor, p.paper)

\* The session files are one history, whoever wrote them and whatever attempts
\* failed half way: epochs never fall, and within an epoch the cursor does not
\* move back and no paper fact is rewritten.
SessionsAreOneHistory ==
  \A k \in 2 .. Len(sessions) : Extends(sessions[k].paper, sessions[k - 1].paper)

\* What readers are served is what ReplaySource promises: no revision comes back
\* within a life of the owner, and no half-done mutation is ever served.
RunKeepsPromise == Source!SourceSpec

\* A mutation that began ends, so the requests it refuses can be tried again: a
\* pause ends the play it waits for, a seek arrives or fails, a save is answered.
MutationsEnd == owner.task # "none" ~> owner.task = "none"
=============================================================================

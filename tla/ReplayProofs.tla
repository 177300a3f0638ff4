---------------------------- MODULE ReplayProofs ----------------------------
(***************************************************************************)
(* Proofs about the owner of a historical replay, for every tape, every    *)
(* set of paper orders and every number of sessions and epochs: the        *)
(* session files are one history (ReplayRun, SessionsAreOneHistory), and   *)
(* the revisions shown in one life of the owner only move forward.         *)
(*                                                                         *)
(* What a fold over the orders computes is out of reach here, and not      *)
(* needed: whatever it does to the orders and the facts of a paper state,  *)
(* the epoch and the cursor stay.                                          *)
(***************************************************************************)
EXTENDS ReplayRun, SequenceTheorems, WellFoundedInduction, TLAPS

(***************************************************************************)
(* Paper states: what every operation of the broker leaves alone.          *)
(***************************************************************************)
Paper(p) ==
  /\ p = [epoch |-> p.epoch, cursor |-> p.cursor, orders |-> p.orders, log |-> p.log]
  /\ p.epoch \in Nat /\ p.cursor \in Nat

\* An operation kept the cut: the epoch and the cursor are the ones before.
SameCut(q, p) == Paper(q) /\ q.epoch = p.epoch /\ q.cursor = p.cursor

\* A paper state whose orders and facts were computed anew.
LEMMA ReckonedKeeps ==
  ASSUME NEW p, NEW q, Paper(p) PROVE SameCut(Reckoned(p, q), p)
<1>1. PICK r : r = [p EXCEPT !.orders = q.orders, !.log = q.log] OBVIOUS
<1>2. r = [epoch |-> p.epoch, cursor |-> p.cursor, orders |-> q.orders, log |-> q.log]
  BY <1>1 DEF Paper
<1>3. SameCut(r, p) BY <1>2 DEF SameCut, Paper
<1>4. QED BY <1>1, <1>3, Zenon DEF Reckoned

\* A fact is appended.
LEMMA EmitKeeps ==
  ASSUME NEW p, NEW i, NEW kind, NEW cursor, NEW at, NEW why, NEW input, Paper(p)
  PROVE SameCut(EmitFact(p, i, kind, cursor, at, why, input), p)
<1>1. PICK q : q = p OBVIOUS
<1>2. PICK log : log = Append(q.log,
     [order |-> q.orders[i].id, seq |-> Len(FactsOf(q.log, q.orders[i].id)), kind |-> kind,
      status |-> q.orders[i].status, epoch |-> q.epoch, cursor |-> cursor, at |-> at,
      why |-> why, input |-> input])
  OBVIOUS
<1>3. EmitFact(p, i, kind, cursor, at, why, input) = [q EXCEPT !.log = log]
  BY <1>1, <1>2, Zenon DEF EmitFact, On
<1>4. QED BY <1>1, <1>3 DEF Paper, SameCut

\* An order is placed.
LEMMA PlaceKeeps ==
  ASSUME NEW p, NEW id, Paper(p) PROVE SameCut(PlaceOrder(p, id), p)
<1>1. PICK order : order = [id |-> id, placed |-> p.cursor, placedAt |-> TimeAt(p.cursor),
                eligible |-> IF TimeAt(p.cursor) = 0 THEN 0 ELSE TimeAt(p.cursor) + Latency,
                status |-> "pending", remaining |-> Input, fills |-> <<>>]
  OBVIOUS
<1>2. PICK q : q = [p EXCEPT !.orders = Append(@, order)] OBVIOUS
<1>3. SameCut(q, p) BY <1>2 DEF Paper, SameCut
<1>4. PlaceOrder(p, id)
        = EmitFact(q, Len(q.orders), "intent", p.cursor, TimeAt(p.cursor), "none", 0)
  BY <1>1, <1>2, Zenon DEF PlaceOrder
<1>5. SameCut(PlaceOrder(p, id), q)
  <2>1. Paper(q) BY <1>3 DEF SameCut
  <2>2. SameCut(EmitFact(q, Len(q.orders), "intent", p.cursor, TimeAt(p.cursor), "none", 0), q)
    BY <2>1, EmitKeeps
  <2>3. QED BY <2>2, <1>4, Zenon
<1>6. QED BY <1>3, <1>5 DEF SameCut

\* An order is cancelled.
LEMMA CancelKeeps ==
  ASSUME NEW p, NEW i, Paper(p) PROVE SameCut(CancelOrder(p, i), p)
<1>1. PICK q : q = [p EXCEPT !.orders[i].status = "cancelled"] OBVIOUS
<1>2. SameCut(q, p) BY <1>1 DEF Paper, SameCut
<1>3. CancelOrder(p, i) = EmitFact(q, i, "cancelled", p.cursor, TimeAt(p.cursor), "user", 0)
  BY <1>1, Zenon DEF CancelOrder
<1>4. SameCut(CancelOrder(p, i), q)
  <2>1. Paper(q) BY <1>2 DEF SameCut
  <2>2. SameCut(EmitFact(q, i, "cancelled", p.cursor, TimeAt(p.cursor), "user", 0), q)
    BY <2>1, EmitKeeps
  <2>3. QED BY <2>2, <1>3, Zenon
<1>5. QED BY <1>2, <1>4 DEF SameCut

\* The orders grow older.
LEMMA AgeKeeps ==
  ASSUME NEW p, Paper(p) PROVE SameCut(AgeOrders(p), p)
<1>1. PICK q : q = FoldOn(LAMBDA r, i : AgeOrder(r, i, Tape[p.cursor + 1].at), p, Indexes(p))
  OBVIOUS
<1>2. AgeOrders(p) = Reckoned(p, q) BY <1>1, Zenon DEF AgeOrders, On
<1>3. QED BY <1>2, ReckonedKeeps

\* The tape is over.
LEMMA FinishKeeps ==
  ASSUME NEW p, Paper(p) PROVE SameCut(FinishPaper(p), p)
<1>1. PICK q : q = FoldOn(LAMBDA r, i :
           IF Terminal(r.orders[i].status) THEN r
           ELSE EmitFact([r EXCEPT !.orders[i].status = "expired"], i, "expired",
                         r.cursor, TimeAt(r.cursor), "end_of_tape", 0),
           p, Indexes(p))
  OBVIOUS
<1>2. FinishPaper(p) = Reckoned(p, q) BY <1>1, Zenon DEF FinishPaper, On
<1>3. QED BY <1>2, ReckonedKeeps

\* A trade is taken: the cursor moves on, and nothing else of the cut.
LEMMA TradeMoves ==
  ASSUME NEW p, Paper(p)
  PROVE Paper(PaperAfter(p)) /\ PaperAfter(p).epoch = p.epoch
        /\ PaperAfter(p).cursor = p.cursor + 1
<1> DEFINE Filled(aged) ==
      FoldOn(LAMBDA acc, i : FillOrder(acc, i, Tape[p.cursor + 1].at),
             [paper |-> aged, left |-> Tape[p.cursor + 1].input], Indexes(aged)).paper
<1>1. PICK q : q = On(AgeOrders(p), Filled) OBVIOUS
<1>2. PICK r : r = ApplyTrade(p) OBVIOUS
<1>3. r = [Reckoned(p, q) EXCEPT !.cursor = @ + 1]
  BY <1>1, <1>2, Zenon DEF ApplyTrade, On
<1>4. PICK s : s = Reckoned(p, q) OBVIOUS
<1>5. SameCut(s, p) BY <1>4, ReckonedKeeps, Zenon
<1>6. r = [s EXCEPT !.cursor = @ + 1] BY <1>3, <1>4, Zenon
<1> HIDE DEF Filled
<1>7. Paper(r) /\ r.epoch = p.epoch /\ r.cursor = p.cursor + 1
  BY <1>5, <1>6 DEF SameCut, Paper
<1>8. PaperAfter(p)
        = CHOOSE t \in {IF x.cursor = Len(Tape) THEN FinishPaper(x) ELSE x : x \in {r}} : TRUE
  BY <1>2, Zenon DEF PaperAfter, On
<1>9. PaperAfter(p) = IF r.cursor = Len(Tape) THEN FinishPaper(r) ELSE r
  BY ONLY <1>8
<1>10. QED BY <1>7, <1>9, FinishKeeps DEF SameCut

(***************************************************************************)
(* The inductive invariant.  A save takes several steps, and in them the   *)
(* owner neither plays nor moves: the paper state that is linked at the    *)
(* end is the one that was checked against the latest file.  Only files    *)
(* of other processes can come between, and then the number is taken.      *)
(***************************************************************************)
Shape(o) ==
  o = [up |-> o.up, epoch |-> o.epoch, cursor |-> o.cursor, status |-> o.status,
       active |-> o.active, abort |-> o.abort, task |-> o.task, via |-> o.via,
       goal |-> o.goal, proj |-> o.proj, paper |-> o.paper, saved |-> o.saved]

Session(s) ==
  s = [cut |-> s.cut, paper |-> s.paper] /\ s.cut \in Nat /\ Paper(s.paper)

Saving == {"save", "check", "link"}

Fine(o) ==
  /\ Shape(o) /\ Paper(o.paper)
  /\ o.epoch \in Nat /\ o.cursor \in Nat /\ o.goal \in Nat
  /\ o.saved \in Nat
  /\ o.proj \in [epoch : Nat, cursor : Nat]

OwnerInv == Fine(owner) /\ (owner.task \in Saving => ~owner.active)

LinkInv ==
  owner.task = "link" =>
    /\ owner.saved <= Len(sessions)
    /\ owner.saved = Len(sessions) /\ owner.saved > 0 =>
         Extends(owner.paper, Last(sessions).paper)

FilesInv ==
  /\ \E S : sessions \in Seq(S)
  /\ \A k \in 1 .. Len(sessions) : Session(sessions[k])
  /\ replays \subseteq Nat

HistoryInv == OwnerInv /\ LinkInv /\ FilesInv /\ SessionsAreOneHistory

\* An owner that saves nothing.
Rests(o) == Fine(o) /\ o.task \notin Saving

\* The revision of q is the one of p or a later one.
Ahead(p, q) == q.epoch > p.epoch \/ (q.epoch = p.epoch /\ q.cursor >= p.cursor)

\* What most steps of an owner that is up do: they save nothing, and move on or die.
Steps(p, q) == Rests(q) /\ (q = Down \/ Ahead(p, q))

\* A process that is down saves nothing.
LEMMA DownRests == ASSUME NEW p PROVE Steps(p, Down)
<1>1. Paper(EmptyPaper(1, 0)) BY DEF Paper, EmptyPaper
<1>2. Shape(Down) BY DEF Shape, Down
<1>3. Down.paper = EmptyPaper(1, 0) /\ Down.saved = 0 /\ Down.task = "none"
      /\ Down.epoch = 1 /\ Down.cursor = 0 /\ Down.goal = 0
      /\ Down.proj = [epoch |-> 1, cursor |-> 0]
  BY DEF Down
<1>4. QED BY <1>1, <1>2, <1>3 DEF Steps, Rests, Fine, Saving

\* A failed mutation either ends or takes the process with it.
LEMMA FailedRests == ASSUME NEW p, Fine(p) PROVE Steps(p, Failed(p)) /\ Steps(p, Done(p))
<1>1. PICK d : d = Done(p) OBVIOUS
<1>2. Rests(d) /\ Ahead(p, d)
  <2>1. Rests(d) BY <1>1 DEF Done, Rests, Fine, Shape, Saving
  <2>2. Ahead(p, d) BY <1>1 DEF Done, Ahead, Rests, Fine, Shape
  <2>3. QED BY <2>1, <2>2
<1>3. QED BY <1>1, <1>2, DownRests DEF Failed, Steps

\* A move leaves the paper state as it is, and starts a later epoch.
Moved(p, q, cursor, after) ==
  /\ Fine(q) /\ q.epoch > p.epoch /\ q.epoch > after /\ q.cursor = cursor
  /\ q.paper = p.paper /\ q.task = p.task /\ q.saved = p.saved /\ q.active = p.active
  /\ q.goal = p.goal

\* The owner moves to a cursor in a later epoch; its paper state stays.
LEMMA MoveKeeps ==
  ASSUME NEW p, NEW cursor \in Nat, NEW after \in Nat, Fine(p)
  PROVE  Moved(p, MoveTo(p, cursor, after), cursor, after)
<1>1. PICK e : e = (IF p.epoch > after THEN p.epoch ELSE after) + 1 OBVIOUS
<1>2. PICK q : q = [p EXCEPT !.epoch = e, !.cursor = cursor, !.status = StatusAt(cursor),
               !.proj = [epoch |-> e, cursor |-> cursor]]
  OBVIOUS
<1>3. MoveTo(p, cursor, after) = q BY <1>1, <1>2, Zenon DEF MoveTo
<1>4. e \in Nat /\ e > p.epoch /\ e > after BY <1>1 DEF Fine
<1>5. Moved(p, q, cursor, after) BY <1>2, <1>4 DEF Moved, Fine, Shape
<1>6. QED BY <1>3, <1>5, Zenon

\* Play, its end, and the mutations that wait for it.
LEMMA PlayRests ==
  ASSUME OwnerInv, Play \/ EndPlay \/ Pause \/ Stop PROVE Steps(owner, owner')
<1>1. PICK p : p = owner OBVIOUS
<1>2. PICK q : q = owner' OBVIOUS
<1>3. Fine(p) /\ (p.task \in Saving => ~p.active) BY <1>1 DEF OwnerInv
<1>4. CASE Play
  <2>1. p.task = "none" BY <1>4, <1>1 DEF Play, Quiet, Idle
  <2>2. q = [p EXCEPT !.active = TRUE, !.abort = FALSE, !.status = "running"]
    BY <1>4, <1>1, <1>2 DEF Play, Becomes
  <2>3. Rests(q) /\ Ahead(p, q)
    <3>1. Rests(q) BY <1>3, <2>1, <2>2 DEF Rests, Fine, Shape, Saving
    <3>2. Ahead(p, q) BY <1>3, <2>1, <2>2 DEF Ahead, Rests, Fine, Shape
    <3>3. QED BY <3>1, <3>2
  <2>4. QED BY <2>3, <1>1, <1>2 DEF Steps
<1>5. CASE EndPlay
  <2>1. p.task \notin Saving BY <1>3, <1>5, <1>1 DEF EndPlay
  <2>2. q = [p EXCEPT !.active = FALSE, !.abort = FALSE,
                      !.status = IF @ = "running" THEN "paused" ELSE @]
    BY <1>5, <1>1, <1>2 DEF EndPlay, Becomes
  <2>3. Rests(q) /\ Ahead(p, q)
    <3>1. Rests(q) BY <1>3, <2>1, <2>2 DEF Rests, Fine, Shape
    <3>2. Ahead(p, q) BY <1>3, <2>1, <2>2 DEF Ahead, Rests, Fine, Shape
    <3>3. QED BY <3>1, <3>2
  <2>4. QED BY <2>3, <1>1, <1>2 DEF Steps
<1>6. CASE Pause
  <2>1. q = [p EXCEPT !.task = "pause", !.abort = p.active]
    BY <1>6, <1>1, <1>2 DEF Pause, Becomes
  <2>2. Rests(q) /\ Ahead(p, q)
    <3>1. Rests(q) BY <1>3, <2>1 DEF Rests, Fine, Shape, Saving
    <3>2. Ahead(p, q) BY <1>3, <2>1 DEF Ahead, Rests, Fine, Shape
    <3>3. QED BY <3>1, <3>2
  <2>3. QED BY <2>2, <1>1, <1>2 DEF Steps
<1>7. CASE Stop
  <2>1. q = [p EXCEPT !.task = "stop", !.abort = p.active]
    BY <1>7, <1>1, <1>2 DEF Stop, Becomes
  <2>2. Rests(q) /\ Ahead(p, q)
    <3>1. Rests(q) BY <1>3, <2>1 DEF Rests, Fine, Shape, Saving
    <3>2. Ahead(p, q) BY <1>3, <2>1 DEF Ahead, Rests, Fine, Shape
    <3>3. QED BY <3>1, <3>2
  <2>3. QED BY <2>2, <1>1, <1>2 DEF Steps
<1>8. QED BY <1>4, <1>5, <1>6, <1>7

\* A trade is taken by both parts, or refused by one of them.
LEMMA TakenRests ==
  ASSUME NEW p, Rests(p), NEW q \in Taken(p) \cup Refused(p) PROVE Steps(p, q)
<1>1. Fine(p) /\ p.task \notin Saving BY DEF Rests
<1>2. PICK a : a = AgeOrders(p.paper) OBVIOUS
<1>3. PICK t : t = PaperAfter(p.paper) OBVIOUS
<1>4. Paper(a) /\ Paper(t) BY <1>1, <1>2, <1>3, AgeKeeps, TradeMoves DEF Fine, SameCut
<1>5. PICK c : c = p.cursor + 1 OBVIOUS
<1>6. PICK r : r = [p.proj EXCEPT !.cursor = @ + 1] OBVIOUS
<1>7. PICK st : st = IF p.cursor + 1 = Len(Tape) THEN "complete" ELSE p.status OBVIOUS
<1>8. c \in Nat /\ c >= p.cursor /\ r \in [epoch : Nat, cursor : Nat]
  BY <1>1, <1>5, <1>6 DEF Fine
<1>9. \/ q = [p EXCEPT !.cursor = c, !.proj = r, !.paper = t, !.status = st]
      \/ q = [p EXCEPT !.cursor = c, !.status = "stopped"]
      \/ q = [p EXCEPT !.cursor = c, !.status = "stopped", !.proj = r, !.paper = a]
  BY <1>2, <1>3, <1>5, <1>6, <1>7, Zenon DEF Taken, Refused
<1>10. CASE q = [p EXCEPT !.cursor = c, !.proj = r, !.paper = t, !.status = st]
  <2>1. Rests(q) BY <1>1, <1>4, <1>8, <1>10 DEF Rests, Fine, Shape
  <2>2. Ahead(p, q) BY <1>1, <1>8, <1>10 DEF Ahead, Fine, Shape
  <2>3. QED BY <2>1, <2>2 DEF Steps
<1>11. CASE q = [p EXCEPT !.cursor = c, !.status = "stopped"]
  <2>1. Rests(q) BY <1>1, <1>8, <1>11 DEF Rests, Fine, Shape
  <2>2. Ahead(p, q) BY <1>1, <1>8, <1>11 DEF Ahead, Fine, Shape
  <2>3. QED BY <2>1, <2>2 DEF Steps
<1>12. CASE q = [p EXCEPT !.cursor = c, !.status = "stopped", !.proj = r, !.paper = a]
  <2>1. Rests(q) BY <1>1, <1>4, <1>8, <1>12 DEF Rests, Fine, Shape
  <2>2. Ahead(p, q) BY <1>1, <1>8, <1>12 DEF Ahead, Fine, Shape
  <2>3. QED BY <2>1, <2>2 DEF Steps
<1>13. QED BY <1>9, <1>10, <1>11, <1>12

\* Trades, one after the other or one at a time.
LEMMA TradeRests ==
  ASSUME OwnerInv, Emit \/ \E via \in Vias : Step(via) PROVE Steps(owner, owner')
<1>1. PICK p : p = owner OBVIOUS
<1>2. PICK q : q = owner' OBVIOUS
<1>3. Fine(p) /\ (p.task \in Saving => ~p.active) BY <1>1 DEF OwnerInv
<1>4. p.active \/ p.task = "none" BY <1>1 DEF Emit, Step, Quiet, Idle
<1>5. Rests(p) BY <1>3, <1>4 DEF Rests, Saving
<1>6. q \in Taken(p) \cup Refused(p) \/ q = Down
  BY <1>1, <1>2 DEF Emit, Step, Becomes
<1>7. QED BY <1>1, <1>2, <1>5, <1>6, TakenRests, DownRests

\* A paper order is placed or cancelled.
LEMMA TradingRests ==
  ASSUME OwnerInv, Trading PROVE Steps(owner, owner')
<1>1. PICK p : p = owner OBVIOUS
<1>2. PICK q : q = owner' OBVIOUS
<1>3. Fine(p) BY <1>1 DEF OwnerInv
<1>4. p.task = "none" BY <1>1 DEF Trading, Place, Cancel, Quiet, Idle
<1>5. PICK t : q = [p EXCEPT !.paper = t] /\ Paper(t)
  <2>1. CASE \E id \in OrderIds : Place(id)
    <3>1. PICK id \in OrderIds : Place(id) BY <2>1
    <3>2. PICK t : t = PlaceOrder(p.paper, id) OBVIOUS
    <3>3. q = [p EXCEPT !.paper = t] BY <3>1, <3>2, <1>1, <1>2, Zenon DEF Place, Becomes
    <3>4. Paper(t) BY <3>2, <1>3, PlaceKeeps DEF Fine, SameCut
    <3>5. QED BY <3>3, <3>4
  <2>2. CASE \E i \in 1 .. Len(owner.paper.orders) : Cancel(i)
    <3>1. PICK i \in 1 .. Len(owner.paper.orders) : Cancel(i) BY <2>2
    <3>2. PICK t : t = CancelOrder(p.paper, i) OBVIOUS
    <3>3. q = [p EXCEPT !.paper = t] BY <3>1, <3>2, <1>1, <1>2, Zenon DEF Cancel, Becomes
    <3>4. Paper(t) BY <3>2, <1>3, CancelKeeps DEF Fine, SameCut
    <3>5. QED BY <3>3, <3>4
  <2>3. QED BY <2>1, <2>2 DEF Trading
<1>6. Rests(q) /\ Ahead(p, q)
  <2>1. Rests(q) BY <1>3, <1>4, <1>5 DEF Rests, Fine, Shape, Saving
  <2>2. Ahead(p, q) BY <1>3, <1>4, <1>5 DEF Ahead, Rests, Fine, Shape
  <2>3. QED BY <2>1, <2>2
<1>7. QED BY <1>1, <1>2, <1>6 DEF Steps

\* The latest session of files that are fine.
LEMMA LastIsSession ==
  ASSUME FilesInv, sessions # <<>>
  PROVE  Len(sessions) \in Nat \ {0} /\ Last(sessions) = sessions[Len(sessions)]
         /\ Session(Last(sessions))
<1>1. PICK S : sessions \in Seq(S) BY DEF FilesInv
<1>2. Len(sessions) \in Nat \ {0} BY <1>1, EmptySeq
<1>3. Last(sessions) = sessions[Len(sessions)] BY DEF Last
<1>4. QED BY <1>2, <1>3 DEF FilesInv

\* The process starts, on nothing or on the latest session.
LEMMA BootRests ==
  ASSUME OwnerInv, FilesInv, Boot PROVE Rests(owner') /\ owner'.task = "none"
<1>1. CASE sessions = <<>>
  <2>1. PICK d : d = Down OBVIOUS
  <2>2. owner' = [d EXCEPT !.up = TRUE] BY <1>1, <2>1, Zenon DEF Boot, Becomes
  <2>3. Rests(d) /\ d.task = "none" BY <2>1, DownRests DEF Steps, Down
  <2>4. QED BY <2>2, <2>3 DEF Rests, Fine, Shape
<1>2. CASE sessions # <<>>
  <2>1. PICK s : s = Last(sessions) OBVIOUS
  <2>2. PICK d : d = [Down EXCEPT !.up = TRUE] OBVIOUS
  <2>3. PICK p : p = MoveTo(d, s.cut, s.paper.epoch) OBVIOUS
  <2>4. owner' = [p EXCEPT !.paper = [s.paper EXCEPT !.epoch = p.epoch],
                           !.saved = Len(sessions)]
    BY <1>2, <2>1, <2>2, <2>3, Zenon DEF Boot, Becomes
  <2>5. Session(s) /\ Len(sessions) \in Nat BY <1>2, <2>1, LastIsSession
  <2>6. Rests(d) /\ d.epoch = 1 /\ d.task = "none"
    <3>1. PICK c : c = Down OBVIOUS
    <3>2. Rests(c) /\ c.epoch = 1 /\ c.task = "none" BY <3>1, DownRests DEF Down, Steps
    <3>3. d = [c EXCEPT !.up = TRUE] BY <2>2, <3>1
    <3>4. QED BY <3>2, <3>3 DEF Steps, Ahead, Rests, Fine, Shape
  <2>7. Fine(p) /\ p.task = "none"
    <3>1. Fine(d) /\ s.cut \in Nat /\ s.paper.epoch \in Nat
      BY <2>5, <2>6 DEF Rests, Session, Paper
    <3>2. Moved(d, p, s.cut, s.paper.epoch) BY <3>1, <2>3, MoveKeeps
    <3>3. QED BY <3>2, <2>6 DEF Moved
  <2>8. p.epoch \in Nat BY <2>7 DEF Fine
  <2>9. PICK t : t = [s.paper EXCEPT !.epoch = p.epoch] OBVIOUS
  <2>10. Paper(t) BY <2>5, <2>8, <2>9 DEF Session, Paper
  <2>11. owner' = [p EXCEPT !.paper = t, !.saved = Len(sessions)] BY <2>4, <2>9, Zenon
  <2>12. QED BY <2>5, <2>7, <2>10, <2>11 DEF Rests, Fine, Shape, Saving
<1>3. QED BY <1>1, <1>2

\* A seek, from its request to where it ends.
LEMMA SeekRests ==
  ASSUME OwnerInv, (\E via \in Vias, goal \in Cursors : Seek(via, goal)) \/ Paused
  PROVE  Steps(owner, owner')
<1>1. PICK p : p = owner OBVIOUS
<1>2. PICK q : q = owner' OBVIOUS
<1>3. Fine(p) BY <1>1 DEF OwnerInv
<1>4. CASE \E via \in Vias, goal \in Cursors : Seek(via, goal)
  <2>1. PICK via \in Vias, goal \in Cursors : Seek(via, goal) BY <1>4
  <2> goal \in Nat BY ReplayAssumption DEF Cursors
  <2>2. q = [p EXCEPT !.task = "seek", !.via = via, !.goal = goal, !.abort = p.active]
    BY <2>1, <1>1, <1>2, Zenon DEF Seek, Becomes
  <2>3. Rests(q) /\ Ahead(p, q)
    <3>1. Rests(q) BY <2>2, <1>3 DEF Rests, Fine, Shape, Saving
    <3>2. Ahead(p, q) BY <2>2, <1>3 DEF Ahead, Rests, Fine, Shape
    <3>3. QED BY <3>1, <3>2
  <2>4. QED BY <2>3, <1>1, <1>2 DEF Steps
<1>5. CASE Paused
  <2>1. \/ q = Done(p) \/ q = Failed(p)
        \/ q = [p EXCEPT !.task = "none", !.status = "stopped"]
        \/ q = [p EXCEPT !.task = "load"]
    BY <1>5, <1>1, <1>2, Zenon DEF Paused, Becomes
  <2>2. CASE q = Done(p) \/ q = Failed(p)
    <3>1. Steps(p, q) BY <2>2, <1>3, FailedRests
    <3>2. QED BY <3>1, <1>1, <1>2
  <2>3. CASE q = [p EXCEPT !.task = "none", !.status = "stopped"]
    <3>1. Rests(q) BY <2>3, <1>3 DEF Rests, Fine, Shape, Saving
    <3>2. Ahead(p, q) BY <2>3, <1>3 DEF Ahead, Fine, Shape
    <3>3. QED BY <3>1, <3>2, <1>1, <1>2 DEF Steps
  <2>4. CASE q = [p EXCEPT !.task = "load"]
    <3>1. Rests(q) BY <2>4, <1>3 DEF Rests, Fine, Shape, Saving
    <3>2. Ahead(p, q) BY <2>4, <1>3 DEF Ahead, Fine, Shape
    <3>3. QED BY <3>1, <3>2, <1>1, <1>2 DEF Steps
  <2>5. QED BY <2>1, <2>2, <2>3, <2>4
<1>6. QED BY <1>4, <1>5

\* Where a seek ends, the paper state is empty and bound to the new cut.
LEMMA SoughtRests ==
  ASSUME NEW p, Fine(p) PROVE Steps(p, Sought(p))
<1>1. PICK d : d = Done(p) OBVIOUS
<1>2. Rests(d) BY <1>1, FailedRests DEF Steps
<1>3. PICK t : t = EmptyPaper(p.epoch, p.cursor) OBVIOUS
<1>4. Paper(t) BY <1>3 DEF Fine, Paper, EmptyPaper
<1>5. Sought(p) = [d EXCEPT !.paper = t] BY <1>1, <1>3, Zenon DEF Sought
<1>6. PICK q : q = Sought(p) OBVIOUS
<1>7. d.epoch = p.epoch /\ d.cursor = p.cursor BY <1>1 DEF Done, Fine, Shape
<1>8. Rests(q) /\ Ahead(p, q)
  <2>1. Rests(q) BY <1>2, <1>4, <1>5, <1>6, <1>7 DEF Rests, Fine, Shape
  <2>2. Ahead(p, q) BY <1>2, <1>4, <1>5, <1>6, <1>7 DEF Ahead, Rests, Fine, Shape
  <2>3. QED BY <2>1, <2>2
<1>9. QED BY <1>6, <1>8 DEF Steps

\* The nearest checkpoint file is one of those at or before the goal, or the beginning.
LEMMA NearestThere ==
  ASSUME NEW goal \in Nat, NEW R, R \subseteq Nat
  PROVE  Max({0} \cup {c \in R : c <= goal}) \in Nat
<1> DEFINE S == {0} \cup {c \in R : c <= goal}
           Gaps == {n \in Nat : goal - n \in S}
<1>1. S \subseteq 0 .. goal /\ 0 \in S
  <2>1. ASSUME NEW x \in S PROVE x \in 0 .. goal BY <2>1
  <2>2. QED BY <2>1
<1>2. goal \in Gaps /\ Gaps \subseteq Nat BY <1>1
<1>3. \A x \in S : goal - x \in Gaps BY <1>1
<1>4. \A n \in Gaps : n \in Nat /\ goal - n \in S OBVIOUS
<1> HIDE DEF Gaps
<1>5. PICK n \in Gaps : \A k \in Gaps : <<k, n>> \notin OpToRel(<, Nat)
  BY <1>2, NatLessThanWellFounded, WFMin
<1>6. \A k \in Gaps : ~(k < n) BY <1>2, <1>5 DEF OpToRel
<1>7. ASSUME NEW x \in S PROVE goal - n >= x
  <2>1. x \in Nat /\ n \in Nat BY <1>1, <1>4
  <2>2. ~(goal - x < n) BY <1>3, <1>6
  <2>3. QED BY <2>1, <2>2
<1>8. goal - n \in S BY <1>4
<1> HIDE DEF S
<1>9. Max(S) \in S BY <1>7, <1>8 DEF Max
<1>10. Max(S) \in Nat
  <2>1. PICK m \in S : m = Max(S) BY <1>9
  <2>2. m \in 0 .. goal BY <1>1
  <2>3. QED BY <2>1, <2>2
<1>11. QED BY <1>10 DEF S

\* A seek goes back to a checkpoint file, and from there up to its goal.
LEMMA LoadRests ==
  ASSUME OwnerInv, FilesInv, LoadNearest PROVE Steps(owner, owner')
<1>1. PICK p : p = owner OBVIOUS
<1>2. PICK o : o = owner' OBVIOUS
<1>3. Fine(p) BY <1>1 DEF OwnerInv
<1>4. p.task = "load" BY <1>1 DEF LoadNearest
<1>5. PICK best : best = Max({0} \cup {c \in replays : c <= p.goal}) OBVIOUS
<1>6. best \in Nat BY <1>3, <1>5, NearestThere DEF Fine, FilesInv
<1>7. PICK q : q = MoveTo(p, best, p.epoch) OBVIOUS
<1>8. Moved(p, q, best, p.epoch) BY <1>3, <1>6, <1>7, MoveKeeps DEF Fine
<1>9. \/ o = Failed(p) \/ o = Sought(q)
      \/ o = [q EXCEPT !.task = "run", !.status = "running"]
  BY <1>1, <1>2, <1>5, <1>7, Zenon DEF LoadNearest, Becomes
<1>10. CASE o = Failed(p) BY <1>1, <1>2, <1>3, <1>10, FailedRests
<1>11. CASE o = Sought(q)
  <2>1. Steps(q, o) BY <1>8, <1>11, SoughtRests DEF Moved
  <2>2. Rests(o) BY <2>1 DEF Steps
  <2>3. o = Down \/ Ahead(p, o)
    BY <1>3, <1>8, <2>1, <2>2 DEF Steps, Ahead, Moved, Rests, Fine
  <2>4. QED BY <2>2, <2>3, <1>1, <1>2 DEF Steps
<1>12. CASE o = [q EXCEPT !.task = "run", !.status = "running"]
  <2>1. Rests(o) BY <1>8, <1>12 DEF Moved, Rests, Fine, Shape, Saving
  <2>2. Ahead(p, o) BY <1>8, <1>12 DEF Moved, Ahead, Fine, Shape
  <2>3. QED BY <2>1, <2>2, <1>1, <1>2 DEF Steps
<1>13. QED BY <1>9, <1>10, <1>11, <1>12

\* The projection is run up to the goal.
LEMMA SeekOnRests ==
  ASSUME OwnerInv, SeekOn PROVE Steps(owner, owner')
<1>1. PICK p : p = owner OBVIOUS
<1>2. PICK o : o = owner' OBVIOUS
<1>3. Fine(p) BY <1>1 DEF OwnerInv
<1>4. p.task = "run" BY <1>1 DEF SeekOn
<1>5. PICK c : c = p.cursor + 1 OBVIOUS
<1>6. PICK r : r = [p.proj EXCEPT !.cursor = @ + 1] OBVIOUS
<1>7. c \in Nat /\ c >= p.cursor /\ r \in [epoch : Nat, cursor : Nat]
  BY <1>3, <1>5, <1>6 DEF Fine
<1>8. PICK q : q = [p EXCEPT !.cursor = c, !.proj = r] OBVIOUS
<1>9. PICK s : s = [q EXCEPT !.status = StatusAt(q.cursor)] OBVIOUS
<1>10. PICK f : f = [p EXCEPT !.cursor = c, !.status = "stopped"] OBVIOUS
<1>11. o \in {Sought(s), q, Failed(f)}
  BY <1>1, <1>2, <1>5, <1>6, <1>8, <1>9, <1>10, Zenon DEF SeekOn, Becomes
<1>12. Rests(q) /\ Ahead(p, q)
  <2>1. Rests(q) BY <1>3, <1>4, <1>7, <1>8 DEF Rests, Fine, Shape, Saving
  <2>2. Ahead(p, q) BY <1>3, <1>7, <1>8 DEF Ahead, Fine, Shape
  <2>3. QED BY <2>1, <2>2
<1>13. Fine(s) /\ Ahead(p, s)
  <2>1. Fine(s) BY <1>9, <1>12 DEF Rests, Fine, Shape
  <2>2. s.epoch = q.epoch /\ s.cursor = q.cursor BY <1>9, <1>12 DEF Rests, Fine, Shape
  <2>3. QED BY <2>1, <2>2, <1>12 DEF Ahead
<1>14. Fine(f) /\ Ahead(p, f)
  <2>1. Fine(f) BY <1>3, <1>7, <1>10 DEF Fine, Shape
  <2>2. Ahead(p, f) BY <1>3, <1>7, <1>10 DEF Ahead, Fine, Shape
  <2>3. QED BY <2>1, <2>2
<1>15. ASSUME NEW m, Fine(m), Ahead(p, m), Steps(m, o) PROVE Steps(p, o)
  <2>1. Rests(o) BY <1>15 DEF Steps
  <2>2. o = Down \/ Ahead(m, o) BY <1>15 DEF Steps
  <2>3. ASSUME Ahead(m, o) PROVE Ahead(p, o)
    BY <2>1, <2>3, <1>3, <1>15 DEF Ahead, Rests, Fine
  <2>4. QED BY <2>1, <2>2, <2>3 DEF Steps
<1>16. Steps(p, o)
  <2>1. CASE o = Sought(s) BY <2>1, <1>13, <1>15, SoughtRests
  <2>2. CASE o = q BY <2>2, <1>12 DEF Steps
  <2>3. CASE o = Failed(f) BY <2>3, <1>14, <1>15, FailedRests
  <2>4. QED BY <1>11, <2>1, <2>2, <2>3
<1>17. QED BY <1>1, <1>2, <1>16

(***************************************************************************)
(* The session files.                                                      *)
(***************************************************************************)
\* A file that continues the latest one is linked.
LEMMA LinkKeeps ==
  ASSUME FilesInv, SessionsAreOneHistory, NEW s, Session(s),
         sessions' = Append(sessions, s), replays' \subseteq Nat,
         Len(sessions) > 0 => Extends(s.paper, Last(sessions).paper)
  PROVE  FilesInv' /\ SessionsAreOneHistory' /\ Len(sessions') = Len(sessions) + 1
<1>1. PICK S : sessions \in Seq(S) BY DEF FilesInv
<1>2. PICK n \in Nat : n = Len(sessions) BY <1>1
<1>3. sessions \in Seq(S \cup {s})
  <2>1. \A i \in 1 .. n : sessions[i] \in S BY <1>1, <1>2
  <2>2. sessions = [i \in 1 .. n |-> sessions[i]] BY <1>1, <1>2
  <2>3. QED BY <2>1, <2>2, SeqDef
<1>4. /\ sessions' \in Seq(S \cup {s}) /\ Len(sessions') = n + 1
      /\ \A i \in 1 .. n : sessions'[i] = sessions[i]
      /\ sessions'[n + 1] = s
  BY <1>2, <1>3
<1>5. FilesInv'
  <2>1. ASSUME NEW k \in 1 .. Len(sessions') PROVE Session(sessions'[k])
    <3>1. CASE k \in 1 .. n BY <3>1, <1>2, <1>4 DEF FilesInv
    <3>2. CASE k = n + 1 BY <3>2, <1>4
    <3>3. QED BY <3>1, <3>2, <1>2, <1>4
  <2>2. \E T : sessions' \in Seq(T) BY <1>4
  <2>3. QED BY <2>1, <2>2 DEF FilesInv
<1>6. SessionsAreOneHistory'
  <2>1. ASSUME NEW k \in 2 .. Len(sessions')
        PROVE Extends(sessions'[k].paper, sessions'[k - 1].paper)
    <3>1. CASE k \in 2 .. n
      <4>1. sessions'[k] = sessions[k] /\ sessions'[k - 1] = sessions[k - 1]
        BY <3>1, <1>2, <1>4
      <4>2. QED BY <3>1, <4>1, <1>2 DEF SessionsAreOneHistory
    <3>2. CASE k = n + 1
      <4>1. sessions'[k] = s /\ n > 0 /\ sessions'[k - 1] = sessions[n]
        BY <3>2, <1>2, <1>4
      <4>2. Last(sessions) = sessions[n] BY <1>2 DEF Last
      <4>3. QED BY <4>1, <4>2, <1>2
    <3>3. QED BY <3>1, <3>2, <1>2, <1>4
  <2>2. QED BY <2>1 DEF SessionsAreOneHistory
<1>7. QED BY <1>2, <1>4, <1>5, <1>6

\* An owner that saves nothing leaves the files alone.
LEMMA RestKeeps ==
  ASSUME HistoryInv, Rests(owner'), UNCHANGED sessions, replays' \subseteq Nat
  PROVE  HistoryInv'
<1>1. OwnerInv' /\ LinkInv' BY DEF Rests, OwnerInv, LinkInv, Saving
<1>2. SessionsAreOneHistory /\ FilesInv BY DEF HistoryInv
<1>3. FilesInv' BY <1>2 DEF FilesInv
<1>4. SessionsAreOneHistory' BY <1>2 DEF SessionsAreOneHistory
<1>5. QED BY <1>1, <1>3, <1>4 DEF HistoryInv

\* A save under way.
Busy(o, task) == Fine(o) /\ o.task = task /\ ~o.active

\* The owner begins to save, or to check what it saved.
LEMMA BusyKeeps ==
  ASSUME HistoryInv, NEW task \in {"save", "check"}, Busy(owner', task),
         UNCHANGED sessions, replays' \subseteq Nat
  PROVE  HistoryInv'
<1>1. OwnerInv' /\ LinkInv' BY DEF Busy, OwnerInv, LinkInv, Saving
<1>2. SessionsAreOneHistory /\ FilesInv BY DEF HistoryInv
<1>3. FilesInv' BY <1>2 DEF FilesInv
<1>4. SessionsAreOneHistory' BY <1>2 DEF SessionsAreOneHistory
<1>5. QED BY <1>1, <1>3, <1>4 DEF HistoryInv

\* A checkpoint begins, and the replay checkpoint file is written.
LEMMA SaveBegins ==
  ASSUME HistoryInv, Checkpoint \/ SaveReplay
  PROVE  HistoryInv' /\ (owner' = Down \/ Ahead(owner, owner'))
<1>1. PICK p : p = owner OBVIOUS
<1>2. PICK q : q = owner' OBVIOUS
<1>3. Fine(p) /\ (p.task \in Saving => ~p.active) /\ replays \subseteq Nat
  BY <1>1 DEF HistoryInv, OwnerInv, FilesInv
<1>4. CASE Checkpoint
  <2>1. q = [p EXCEPT !.task = "save", !.via = "stdin"] /\ ~p.active
    BY <1>4, <1>1, <1>2, Zenon DEF Checkpoint, Becomes, Quiet
  <2>2. Busy(q, "save") BY <1>3, <2>1 DEF Busy, Fine, Shape
  <2>3. Ahead(p, q) BY <1>3, <2>1 DEF Ahead, Fine, Shape
  <2>4. UNCHANGED <<sessions, replays>> BY <1>4 DEF Checkpoint
  <2>5. HistoryInv' BY <2>2, <2>4, <1>2, <1>3, BusyKeeps
  <2>6. QED BY <2>3, <2>5, <1>1, <1>2
<1>5. CASE SaveReplay
  <2>1. p.task = "save" /\ UNCHANGED sessions BY <1>5, <1>1 DEF SaveReplay
  <2>2. replays' = replays \cup {p.proj.cursor} \/ UNCHANGED replays
    BY <1>5, <1>1 DEF SaveReplay
  <2>3. replays' \subseteq Nat BY <2>2, <1>3 DEF Fine
  <2>4. q = [p EXCEPT !.task = "check"] \/ q = Failed(p)
    BY <1>5, <1>1, <1>2, Zenon DEF SaveReplay, Becomes
  <2>5. CASE q = Failed(p)
    <3>1. Steps(p, q) BY <2>5, <1>3, FailedRests
    <3>2. HistoryInv' BY <3>1, <1>2, <2>1, <2>3, RestKeeps DEF Steps
    <3>3. QED BY <3>1, <3>2, <1>1, <1>2 DEF Steps
  <2>6. CASE q = [p EXCEPT !.task = "check"]
    <3>1. Busy(q, "check") BY <1>3, <2>1, <2>6 DEF Busy, Fine, Shape, Saving
    <3>2. Ahead(p, q) BY <1>3, <2>6 DEF Ahead, Fine, Shape
    <3>3. HistoryInv' BY <3>1, <1>2, <2>1, <2>3, BusyKeeps
    <3>4. QED BY <3>2, <3>3, <1>1, <1>2
  <2>7. QED BY <2>4, <2>5, <2>6
<1>6. QED BY <1>4, <1>5

\* The latest file is looked up: from then on, either it is the one this paper state
\* continues, or the number this owner will use is taken.
LEMMA CheckKeeps ==
  ASSUME HistoryInv, SaveCheck
  PROVE  HistoryInv' /\ (owner' = Down \/ Ahead(owner, owner'))
<1>1. PICK p : p = owner OBVIOUS
<1>2. PICK q : q = owner' OBVIOUS
<1>3. Fine(p) /\ (p.task \in Saving => ~p.active) /\ replays \subseteq Nat
  BY <1>1 DEF HistoryInv, OwnerInv, FilesInv
<1>4. p.task = "check" /\ UNCHANGED <<sessions, replays>> BY <1>1 DEF SaveCheck
<1>5. \/ q = Failed(p)
      \/ /\ q = [p EXCEPT !.task = "link"]
         /\ p.saved \in {Len(sessions) - 1, Len(sessions)}
         /\ p.saved = Len(sessions) /\ Len(sessions) > 0 =>
              Extends(p.paper, Last(sessions).paper)
  BY <1>1, <1>2, Zenon DEF SaveCheck, Becomes
<1>6. CASE q = Failed(p)
  <2>1. Steps(p, q) BY <1>6, <1>3, FailedRests
  <2>2. HistoryInv' BY <2>1, <1>2, <1>3, <1>4, RestKeeps DEF Steps
  <2>3. QED BY <2>1, <2>2, <1>1, <1>2 DEF Steps
<1>7. CASE /\ q = [p EXCEPT !.task = "link"]
           /\ p.saved \in {Len(sessions) - 1, Len(sessions)}
           /\ p.saved = Len(sessions) /\ Len(sessions) > 0 =>
                Extends(p.paper, Last(sessions).paper)
  <2>1. /\ Fine(q) /\ q.task = "link" /\ ~q.active
        /\ q.saved = p.saved /\ q.paper = p.paper
    BY <1>3, <1>4, <1>7 DEF Fine, Shape, Saving
  <2>2. Ahead(p, q) BY <1>3, <1>7 DEF Ahead, Fine, Shape
  <2>3. OwnerInv' BY <2>1, <1>2 DEF OwnerInv
  <2>4. Len(sessions) \in Nat BY DEF HistoryInv, FilesInv
  <2>5. PICK m : m = Last(sessions).paper OBVIOUS
  <2>6. PICK n \in Nat : n = Len(sessions) BY <2>4
  <2>7. q.saved <= n /\ (q.saved = n /\ q.saved > 0 => Extends(q.paper, m))
    BY <2>1, <2>5, <2>6, <1>3, <1>7 DEF Fine
  <2>8. n = Len(sessions)' /\ m = (Last(sessions).paper)' BY <2>5, <2>6, <1>4
  <2>9. LinkInv' BY <2>7, <2>8, <1>2 DEF LinkInv
  <2>10. SessionsAreOneHistory /\ FilesInv BY DEF HistoryInv
  <2>11. FilesInv' BY <2>10, <1>4 DEF FilesInv
  <2>12. SessionsAreOneHistory' BY <2>10, <1>4 DEF SessionsAreOneHistory
  <2>13. QED BY <2>2, <2>3, <2>9, <2>11, <2>12, <1>1, <1>2 DEF HistoryInv
<1>8. QED BY <1>5, <1>6, <1>7

\* The file is linked, or its number turns out to be taken.
LEMMA LinkEnds ==
  ASSUME HistoryInv, SaveLink
  PROVE  HistoryInv' /\ (owner' = Down \/ Ahead(owner, owner'))
<1>1. PICK p : p = owner OBVIOUS
<1>2. PICK q : q = owner' OBVIOUS
<1>3. Fine(p) /\ p.task = "link" /\ replays \subseteq Nat
  BY <1>1 DEF HistoryInv, OwnerInv, FilesInv, SaveLink
<1>4. q = [Done(p) EXCEPT !.saved = @ + 1] \/ q = Failed(p)
  BY <1>1, <1>2, Zenon DEF SaveLink, Becomes
<1>5. Steps(p, q)
  <2>1. CASE q = Failed(p) BY <2>1, <1>3, FailedRests
  <2>2. CASE q = [Done(p) EXCEPT !.saved = @ + 1]
    <3>1. PICK d : d = Done(p) OBVIOUS
    <3>2. Fine(d) /\ d.task = "none" /\ d.epoch = p.epoch /\ d.cursor = p.cursor
      BY <3>1, <1>3 DEF Done, Fine, Shape
    <3>3. q = [d EXCEPT !.saved = @ + 1] BY <2>2, <3>1
    <3>4. Rests(q) BY <3>2, <3>3 DEF Rests, Fine, Shape, Saving
    <3>5. q.epoch = p.epoch /\ q.cursor = p.cursor BY <3>2, <3>3 DEF Fine, Shape
    <3>6. Ahead(p, q) BY <3>5, <1>3 DEF Ahead, Fine
    <3>7. QED BY <3>4, <3>6 DEF Steps
  <2>3. QED BY <1>4, <2>1, <2>2
<1>6. OwnerInv' /\ LinkInv' BY <1>2, <1>5 DEF Steps, Rests, OwnerInv, LinkInv, Saving
<1>7. FilesInv /\ SessionsAreOneHistory /\ LinkInv BY DEF HistoryInv
<1>8. UNCHANGED replays BY DEF SaveLink
<1>9. FilesInv' /\ SessionsAreOneHistory'
  <2>1. PICK s : s = [cut |-> p.proj.cursor, paper |-> p.paper] OBVIOUS
  <2>2. Session(s) BY <2>1, <1>3 DEF Session, Fine
  <2>3. CASE Len(sessions) = p.saved
    <3>1. sessions' = Append(sessions, s) BY <2>1, <2>3, <1>1, Zenon DEF SaveLink
    <3>2. Len(sessions) > 0 => Extends(s.paper, Last(sessions).paper)
      BY <2>1, <2>3, <1>1, <1>3, <1>7 DEF LinkInv
    <3>3. QED BY <2>2, <3>1, <3>2, <1>3, <1>7, <1>8, LinkKeeps
  <2>4. CASE Len(sessions) # p.saved
    <3>1. UNCHANGED sessions BY <2>4, <1>1, Zenon DEF SaveLink
    <3>2. FilesInv' BY <3>1, <1>7, <1>8 DEF FilesInv
    <3>3. SessionsAreOneHistory' BY <3>1, <1>7 DEF SessionsAreOneHistory
    <3>4. QED BY <3>2, <3>3
  <2>5. QED BY <2>3, <2>4
<1>10. QED BY <1>1, <1>2, <1>5, <1>6, <1>9 DEF HistoryInv, Steps

\* Another process saves what it restored: in a later epoch, under the next number.
LEMMA RivalKeeps ==
  ASSUME HistoryInv, Rival PROVE HistoryInv'
<1>1. FilesInv /\ SessionsAreOneHistory /\ LinkInv /\ OwnerInv BY DEF HistoryInv
<1>2. PICK s : s = IF sessions = <<>> THEN [cut |-> 0, paper |-> EmptyPaper(1, 0)]
                   ELSE [Last(sessions) EXCEPT !.paper.epoch = @ + 1]
  OBVIOUS
<1>3. /\ sessions' = Append(sessions, s) /\ replays' = replays \cup {s.cut}
      /\ UNCHANGED owner
  BY <1>2, Zenon DEF Rival
<1>4. Session(s) /\ (Len(sessions) > 0 => Extends(s.paper, Last(sessions).paper))
  <2>1. CASE sessions = <<>>
    <3>1. PICK e : e = EmptyPaper(1, 0) OBVIOUS
    <3>2. Paper(e) BY <3>1 DEF EmptyPaper, Paper
    <3>3. s = [cut |-> 0, paper |-> e] BY <2>1, <3>1, <1>2
    <3>4. Session(s) BY <3>2, <3>3 DEF Session
    <3>5. Len(sessions) = 0 BY <2>1
    <3>6. QED BY <3>4, <3>5
  <2>2. CASE sessions # <<>>
    <3>1. PICK m : m = Last(sessions) OBVIOUS
    <3>2. Session(m) BY <2>2, <3>1, <1>1, LastIsSession
    <3>3. PICK t : t = [m.paper EXCEPT !.epoch = @ + 1] OBVIOUS
    <3>4. Paper(t) /\ t.epoch > m.paper.epoch
      <4>1. Paper(m.paper) BY <3>2 DEF Session
      <4>2. PICK a : a = m.paper OBVIOUS
      <4>3. Paper(a) /\ t = [a EXCEPT !.epoch = @ + 1] BY <4>1, <4>2, <3>3
      <4>4. t.epoch = a.epoch + 1 /\ Paper(t) BY <4>3 DEF Paper
      <4>5. QED BY <4>2, <4>3, <4>4 DEF Paper
    <3>5. s = [cut |-> m.cut, paper |-> t]
      <4>1. s = [m EXCEPT !.paper.epoch = @ + 1] BY <2>2, <3>1, <1>2
      <4>2. s = [m EXCEPT !.paper = t] BY <4>1, <3>3
      <4>3. QED BY <4>2, <3>2 DEF Session
    <3>6. Session(s) BY <3>2, <3>4, <3>5 DEF Session
    <3>7. Extends(s.paper, m.paper)
      <4>1. t.epoch \in Nat /\ m.paper.epoch \in Nat BY <3>2, <3>4 DEF Session, Paper
      <4>2. t.epoch >= m.paper.epoch /\ t.epoch # m.paper.epoch BY <3>4, <4>1
      <4>3. s.paper = t BY <3>5
      <4>4. QED BY <4>2, <4>3 DEF Extends
    <3>8. QED BY <3>1, <3>6, <3>7
  <2>3. QED BY <2>1, <2>2
<1>5. replays' \subseteq Nat BY <1>1, <1>3, <1>4 DEF FilesInv, Session
<1>6. FilesInv' /\ SessionsAreOneHistory' /\ Len(sessions') = Len(sessions) + 1
  BY <1>1, <1>3, <1>4, <1>5, LinkKeeps
<1>7. OwnerInv' BY <1>1, <1>3 DEF OwnerInv
<1>8. LinkInv'
  <2>1. PICK n \in Nat : n = Len(sessions) BY <1>1 DEF FilesInv
  <2>2. Len(sessions') = n + 1 /\ owner.saved \in Nat
    BY <2>1, <1>1, <1>6 DEF OwnerInv, Fine
  <2>3. owner.task = "link" => owner.saved <= n BY <2>1, <1>1 DEF LinkInv
  <2>4. QED BY <2>2, <2>3, <1>3 DEF LinkInv
<1>9. QED BY <1>6, <1>7, <1>8 DEF HistoryInv

(***************************************************************************)
(* The theorems.                                                           *)
(***************************************************************************)
\* The owner's own steps: each keeps the invariant and moves on, dies or starts.
LEMMA OwnerStep ==
  ASSUME HistoryInv, ControlNext \/ Trading, ~Rival, ~Boot
  PROVE  HistoryInv' /\ (owner' = Down \/ Ahead(owner, owner')) /\ owner.up
         /\ shown' = Seen(shown, owner')
<1> USE DEF HistoryInv
<1>1. OwnerInv /\ FilesInv OBVIOUS
<1>2. CASE Checkpoint \/ SaveReplay
  BY <1>2, SaveBegins DEF Checkpoint, SaveReplay, Becomes, Quiet, Idle
<1>3. CASE SaveCheck BY <1>3, CheckKeeps DEF SaveCheck, Becomes
<1>4. CASE SaveLink BY <1>4, LinkEnds DEF SaveLink, Becomes
<1>5. ASSUME Steps(owner, owner'), UNCHANGED <<sessions, replays>>
      PROVE HistoryInv' /\ (owner' = Down \/ Ahead(owner, owner'))
  <2>1. Rests(owner') /\ replays' \subseteq Nat BY <1>1, <1>5 DEF Steps, FilesInv
  <2>2. HistoryInv' BY <2>1, <1>5, RestKeeps
  <2>3. QED BY <2>2, <1>5 DEF Steps
<1>6. CASE Crash
  <2>1. Steps(owner, owner') BY <1>6, DownRests DEF Crash, Becomes
  <2>2. QED BY <2>1, <1>5, <1>6 DEF Crash, Becomes
<1>7. CASE Play \/ EndPlay \/ Pause \/ Stop
  <2>1. Steps(owner, owner') BY <1>1, <1>7, PlayRests
  <2>2. QED BY <2>1, <1>5, <1>7 DEF Play, EndPlay, Pause, Stop, Becomes, Quiet, Idle
<1>8. CASE Emit \/ \E via \in Vias : Step(via)
  <2>1. Steps(owner, owner') BY <1>1, <1>8, TradeRests
  <2>2. UNCHANGED <<sessions, replays>> /\ owner.up /\ shown' = Seen(shown, owner')
    BY <1>8 DEF Emit, Step, Becomes, Quiet, Idle
  <2>3. QED BY <2>1, <2>2, <1>5
<1>9. CASE (\E via \in Vias, goal \in Cursors : Seek(via, goal)) \/ Paused
  <2>1. Steps(owner, owner') BY <1>1, <1>9, SeekRests
  <2>2. UNCHANGED <<sessions, replays>> /\ owner.up /\ shown' = Seen(shown, owner')
    BY <1>9 DEF Seek, Paused, Becomes, Idle
  <2>3. QED BY <2>1, <2>2, <1>5
<1>10. CASE LoadNearest
  <2>1. Steps(owner, owner') BY <1>1, <1>10, LoadRests
  <2>2. UNCHANGED <<sessions, replays>> /\ owner.up /\ shown' = Seen(shown, owner')
    BY <1>10, Zenon DEF LoadNearest, Becomes
  <2>3. QED BY <2>1, <2>2, <1>5
<1>11. CASE SeekOn
  <2>1. Steps(owner, owner') BY <1>1, <1>11, SeekOnRests
  <2>2. UNCHANGED <<sessions, replays>> /\ owner.up /\ shown' = Seen(shown, owner')
    BY <1>11, Zenon DEF SeekOn, Becomes
  <2>3. QED BY <2>1, <2>2, <1>5
<1>12. CASE Trading
  <2>1. Steps(owner, owner') BY <1>1, <1>12, TradingRests
  <2>2. UNCHANGED <<sessions, replays>> /\ owner.up /\ shown' = Seen(shown, owner')
    BY <1>12, Zenon DEF Trading, Place, Cancel, Becomes, Quiet, Idle
  <2>3. QED BY <2>1, <2>2, <1>5
<1> HIDE DEF HistoryInv
<1>13. QED
  BY <1>2, <1>3, <1>4, <1>6, <1>7, <1>8, <1>9, <1>10, <1>11, <1>12
     DEF ControlNext, Command, Progress

\* A start restores the latest session, and serves it at once.
LEMMA BootStep ==
  ASSUME HistoryInv, Boot
  PROVE  /\ HistoryInv' /\ ~owner.up /\ shown' = Seen(shown, owner')
         /\ owner'.task = "none"
<1>1. OwnerInv /\ FilesInv BY DEF HistoryInv
<1>2. Rests(owner') /\ owner'.task = "none" BY <1>1, BootRests
<1>3. UNCHANGED <<sessions, replays>> BY DEF Boot
<1>4. HistoryInv' BY <1>1, <1>2, <1>3, RestKeeps DEF FilesInv
<1>5. QED BY <1>2, <1>4, Zenon DEF Boot, Becomes

\* The invariant holds in every state.
THEOREM HistoryInvariance == RunSpec => []HistoryInv
<1>1. RunInit => HistoryInv
  <2> SUFFICES ASSUME RunInit PROVE HistoryInv OBVIOUS
  <2>1. OwnerInv /\ LinkInv
    <3>1. Steps(owner, Down) BY DownRests
    <3>2. QED BY <3>1 DEF RunInit, Steps, Rests, OwnerInv, LinkInv, Saving
  <2>2. FilesInv BY DEF RunInit, FilesInv
  <2>3. SessionsAreOneHistory BY DEF RunInit, SessionsAreOneHistory
  <2>4. QED BY <2>1, <2>2, <2>3 DEF HistoryInv
<1>2. HistoryInv /\ [RunNext]_RunVars => HistoryInv'
  <2> SUFFICES ASSUME HistoryInv, [RunNext]_RunVars PROVE HistoryInv' OBVIOUS
  <2>1. CASE RunNext
    <3>1. CASE Rival BY <3>1, RivalKeeps
    <3>2. CASE Boot BY <3>2, BootStep
    <3>3. CASE ~Rival /\ ~Boot BY <2>1, <3>3, OwnerStep DEF RunNext
    <3>4. QED BY <3>1, <3>2, <3>3
  <2>2. CASE UNCHANGED RunVars
    BY <2>2 DEF RunVars, HistoryInv, OwnerInv, LinkInv, FilesInv, SessionsAreOneHistory
  <2>3. QED BY <2>1, <2>2
<1>3. QED BY <1>1, <1>2, PTL DEF RunSpec

\* The session files are one history, whoever wrote them and whatever attempts failed
\* half way (checkpointStore.ts): epochs never fall, and within an epoch the cursor does
\* not move back and no paper fact is rewritten.
THEOREM SessionsOneHistory == RunSpec => []SessionsAreOneHistory
<1>1. HistoryInv => SessionsAreOneHistory BY DEF HistoryInv
<1>2. QED BY <1>1, HistoryInvariance, PTL

(***************************************************************************)
(* What readers see.                                                       *)
(***************************************************************************)
\* Within one life of the owner the revision shown never moves back: the epoch does
\* not fall, and within an epoch the cursor does not.
ShownMovesOn ==
  [][shown.phase # "down" /\ shown'.phase # "down" => Ahead(shown, shown')]_shown

\* Something is shown while the owner is up, and the owner is not behind it.
ShownInv ==
  IF owner.up
    THEN /\ shown.phase # "down"
         /\ shown = [phase |-> shown.phase, epoch |-> shown.epoch, cursor |-> shown.cursor,
                     fact |-> shown.fact]
         /\ shown.epoch \in Nat /\ shown.cursor \in Nat
         /\ Ahead(shown, owner)
    ELSE shown.phase = "down"

\* What is shown after a step of the owner.
LEMMA ShowStep ==
  ASSUME ShownInv, Fine(owner), Fine(owner'), shown' = Seen(shown, owner'),
         owner.up => owner' = Down \/ Ahead(owner, owner'),
         ~owner.up => owner'.task = "none"
  PROVE  /\ ShownInv'
         /\ shown.phase # "down" /\ shown'.phase # "down" => Ahead(shown, shown')
<1>1. PICK p : p = owner OBVIOUS
<1>2. PICK q : q = owner' OBVIOUS
<1>3. PICK s : s = shown OBVIOUS
<1>4. PICK r : r = shown' OBVIOUS
<1>5. r = Seen(s, q) BY <1>2, <1>3, <1>4
<1>6. CASE ~q.up
  <2>1. r.phase = "down" BY <1>5, <1>6 DEF Seen, Source!Unserved
  <2>2. QED BY <2>1, <1>2, <1>4, <1>6 DEF ShownInv
<1>7. CASE q.up /\ q.task = "none"
  <2>1. r = [phase |-> "served", epoch |-> q.epoch, cursor |-> q.cursor,
             fact |-> Len(q.paper.log)]
    BY <1>5, <1>7 DEF Seen
  <2>2. /\ r.phase = "served" /\ r.epoch = q.epoch /\ r.cursor = q.cursor
        /\ r.epoch \in Nat /\ r.cursor \in Nat
    BY <2>1, <1>2 DEF Fine
  <2>3. Ahead(r, q) BY <2>2 DEF Ahead
  <2>4. r = [phase |-> r.phase, epoch |-> r.epoch, cursor |-> r.cursor, fact |-> r.fact]
    BY <2>1
  <2>5. ShownInv' BY <2>2, <2>3, <2>4, <1>2, <1>4, <1>7 DEF ShownInv
  <2>6. ASSUME s.phase # "down" PROVE Ahead(s, r)
    <3>1. p.up /\ Ahead(s, p) /\ s.epoch \in Nat /\ s.cursor \in Nat
      BY <2>6, <1>1, <1>3 DEF ShownInv
    <3>2. q # Down BY <1>7 DEF Down
    <3>3. Ahead(p, q) BY <3>1, <3>2, <1>1, <1>2
    <3>4. QED BY <2>2, <3>1, <3>3, <1>1 DEF Ahead, Fine
  <2>7. QED BY <2>5, <2>6, <1>3, <1>4
<1>8. CASE q.up /\ q.task # "none"
  <2>1. p.up BY <1>8, <1>1, <1>2
  <2>2. /\ s.phase # "down" /\ Ahead(s, p) /\ s.epoch \in Nat /\ s.cursor \in Nat
        /\ s = [phase |-> s.phase, epoch |-> s.epoch, cursor |-> s.cursor, fact |-> s.fact]
    BY <2>1, <1>1, <1>3 DEF ShownInv
  <2>3. r = [s EXCEPT !.phase = "hidden"] BY <1>5, <1>8 DEF Seen
  <2>4. /\ r = [phase |-> "hidden", epoch |-> s.epoch, cursor |-> s.cursor, fact |-> s.fact]
        /\ r.phase = "hidden" /\ r.epoch = s.epoch /\ r.cursor = s.cursor
    BY <2>2, <2>3
  <2>5. q # Down BY <1>8 DEF Down
  <2>6. Ahead(p, q) BY <2>1, <2>5, <1>1, <1>2
  <2>7. Ahead(s, r) BY <2>2, <2>4 DEF Ahead
  <2>8. Ahead(r, q) BY <2>2, <2>4, <2>6, <1>1, <1>2 DEF Ahead, Fine
  <2>9. r = [phase |-> r.phase, epoch |-> r.epoch, cursor |-> r.cursor, fact |-> r.fact]
    BY <2>4
  <2>10. ShownInv' BY <2>2, <2>4, <2>8, <2>9, <1>2, <1>4, <1>8 DEF ShownInv
  <2>11. QED BY <2>7, <2>10, <1>3, <1>4
<1>9. QED BY <1>6, <1>7, <1>8

\* Readers never see a replay go back within one life of its owner (runtime.ts,
\* replayCoordinator.ts): what ReplaySource promises of the epoch and the cursor.
THEOREM ShownMoves == RunSpec => ShownMovesOn
<1> DEFINE Onward == shown.phase # "down" /\ shown'.phase # "down" => Ahead(shown, shown')
<1>1. RunInit => ShownInv
  BY DEF RunInit, ShownInv, Down, Source!Unserved
<1>2. ASSUME HistoryInv, HistoryInv', ShownInv, [RunNext]_RunVars
      PROVE  ShownInv' /\ (Onward \/ UNCHANGED shown)
  <2>1. Fine(owner) /\ Fine(owner') BY <1>2 DEF HistoryInv, OwnerInv
  <2>2. CASE Rival \/ UNCHANGED RunVars
    <3>1. UNCHANGED owner /\ UNCHANGED shown BY <2>2 DEF Rival, RunVars
    <3>2. QED BY <3>1, <1>2 DEF ShownInv
  <2>3. CASE Boot
    <3>1. ~owner.up /\ shown' = Seen(shown, owner') /\ owner'.task = "none"
      BY <2>3, <1>2, BootStep
    <3>2. QED BY <3>1, <2>1, <1>2, ShowStep
  <2>4. CASE RunNext /\ ~Rival /\ ~Boot
    <3>1. (owner' = Down \/ Ahead(owner, owner')) /\ owner.up /\ shown' = Seen(shown, owner')
      BY <2>4, <1>2, OwnerStep DEF RunNext
    <3>2. QED BY <3>1, <2>1, <1>2, ShowStep
  <2>5. QED BY <2>2, <2>3, <2>4, <1>2
<1>3. RunSpec => []ShownInv
  <2>1. HistoryInv /\ HistoryInv' /\ ShownInv /\ [RunNext]_RunVars => ShownInv' BY <1>2
  <2>2. QED BY <1>1, <2>1, HistoryInvariance, PTL DEF RunSpec
<1>4. HistoryInv /\ HistoryInv' /\ ShownInv /\ [RunNext]_RunVars => [Onward]_shown BY <1>2
<1>5. QED BY <1>3, <1>4, HistoryInvariance, PTL DEF RunSpec, ShownMovesOn
=============================================================================

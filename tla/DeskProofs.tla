----------------------------- MODULE DeskProofs -----------------------------
(***************************************************************************)
(* Proofs about what the user meets.                                       *)
(*                                                                         *)
(* An order kept by the provider (ProviderOrders), for any requests of the *)
(* owner, syncs, prices, units of input, leases and changes at the venue:  *)
(* what the owner is told is what the provider holds (OrderIsTrue).        *)
(*                                                                         *)
(* The trading ticket (TradeTicket), for any forms, accounts, clicks and   *)
(* changes: it trades what it shows, once (TicketIsTrue).                  *)
(*                                                                         *)
(* Accounts (Accounts), for any requests, wallets, chats and alerts: links *)
(* and nonces are used once, nothing is lost, and a cache says what the    *)
(* rows say unless a request overlapped it (AccountsAreTrue).              *)
(***************************************************************************)
EXTENDS ProviderOrders, TradeTicket, Accounts, TLAPS

Kinds == {"none", "prepare", "activate", "edit", "cancel_init", "cancel_confirm"}
Wants == Prices \union Nat
Facts == [op : {"none", "reserved", "started"}, kind : Kinds, want : Wants, token : Nat,
          live : BOOLEAN, unknown : BOOLEAN, since : Int, idSeen : BOOLEAN, requestSeen : Nat]
States == {"none", "preparing", "prepared", "activating", "open", "executing",
           "partially_filled", "cancel_pending"} \union Closed
Rows == [state : States, known : BOOLEAN, price : Wants, request : Nat, tx : BOOLEAN,
         ver : Nat, at : Int, fact : Facts]
Venues == [state : States, price : Wants, request : Nat, at : Nat, landed : BOOLEAN, used : Nat,
           returned : BOOLEAN]
Replies == [ok : BOOLEAN, state : States, request : Nat]
Pcs == {"idle", "read", "leased", "started", "calling", "accepted", "uncertain", "certain"}
Calls == [pc : Pcs, kind : Kinds, want : Wants, token : Nat, answered : BOOLEAN, reply : Replies]
Copies == [known : BOOLEAN, request : Nat, ver : Nat, fact : Facts]
SyncStates == [pc : {"idle", "rows", "apply", "prove"}, copy : Copies, seen : Venues]
VenueRequests == [kind : Kinds, want : Wants, token : Nat]

TypeInv ==
  /\ row \in Rows /\ venue \in Venues /\ late \subseteq VenueRequests
  /\ call \in [Procs -> Calls] /\ sync \in [Syncs -> SyncStates]

\* The order of the owner's calls: there is one started operation, and one caller.
Holds(u) ==
  /\ row.fact.op = "started" /\ ~row.fact.unknown /\ Mine(u)
  /\ row.fact.kind = call[u].kind /\ row.fact.want = call[u].want

Calling(u) == call[u].pc \in {"started", "calling", "accepted", "uncertain"}

TokenInv ==
  /\ row.fact.token <= row.ver
  /\ row.fact.unknown => row.fact.op = "started" /\ row.fact.token = 0 /\ ~row.fact.live
  /\ \A r \in late : r.token <= row.ver
  /\ \A u \in Procs :
       /\ call[u].pc \in {"idle", "read"} <=> call[u].token = 0
       /\ call[u].token <= row.ver
       /\ \A x \in Procs : call[x].token = call[u].token => x = u \/ call[u].token = 0

OwnerInv ==
  \A u \in Procs :
    /\ Calling(u) => Holds(u)
    /\ call[u].pc = "leased" /\ Mine(u) =>
         /\ row.fact.op = "reserved"
         /\ row.fact.kind = call[u].kind /\ row.fact.want = call[u].want
    /\ call[u].pc = "certain" /\ Mine(u) => row.fact.op = "reserved" \/ Holds(u)
    /\ Mine(u) => \A r \in late : r.token < call[u].token \/ call[u].pc = "uncertain"

\* What the row knows, but for the part that the started operation may have changed.
Started(kind) == row.fact.op = "started" /\ row.fact.kind = kind
RightId == row.known = (venue.state # "none")
RightPrice == row.price = venue.price
RightCancel ==
  venue.state = "cancel_pending" =>
    row.state = "cancel_pending" /\ row.request = venue.request /\ row.tx

RowInv ==
  /\ row.known => venue.state # "none"
  /\ RightId \/ Started("activate")
  /\ RightPrice \/ Started("edit")
  /\ RightCancel \/ Started("cancel_init")
  /\ row.fact.op # "none" /\ row.fact.kind \in {"prepare", "activate", "edit"} =>
       venue.state # "cancel_pending"
  /\ row.state = "none" => row.fact.op = "none"

\* Late requests that change nothing.
Spent == \A r \in late : r.kind = "edit" /\ r.want = venue.price

\* The venue has not applied the request of this call, and no late one changes anything.
Untouched(u) ==
  \/ call[u].pc = "started"
  \/ call[u].pc = "calling" /\ ~call[u].reply.ok
  \/ call[u].pc = "certain" /\ Mine(u)

Effect(u) ==
  LET c == call[u] IN
  /\ c.kind = "activate" => venue.state # "none" /\ c.reply.state \in {"activating", "open"}
  /\ c.kind = "edit" => venue.price = c.want
  /\ c.kind = "cancel_init" => venue.request = c.reply.request /\ c.reply.request # 0
  /\ c.kind = "cancel_confirm" => venue.state # "cancel_pending"

EffectInv ==
  /\ Known => Spent
  /\ \A u \in Procs :
       /\ Untouched(u) => RightId /\ RightPrice /\ RightCancel /\ Spent
       /\ Calling(u) /\ call[u].reply.ok => Effect(u) /\ late = {}
       /\ call[u].pc = "accepted" => call[u].reply.ok
       /\ call[u].pc \in {"read", "leased", "started"} => ~call[u].reply.ok
       /\ call[u].pc = "uncertain" /\ ~call[u].reply.ok => call[u].reply.request = 0
       /\ call[u].pc = "calling" /\ call[u].reply.ok => call[u].answered

\* What may still be applied once the caller is gone.
LateInv ==
  row.fact.op = "started" =>
    /\ \A r \in late : r.kind = "edit" \/ (r.kind = row.fact.kind /\ r.want = row.fact.want)
    /\ row.fact.kind # "edit" => \A r \in late : r.kind = "edit" => r.want = venue.price
    /\ row.fact.kind = "edit" =>
         /\ venue.price \in {row.price, row.fact.want}
         /\ \A r \in late : r.kind = "edit" /\ r.want \in {row.price, row.fact.want}
         /\ \A r, q \in late : r.want = row.fact.want /\ q.token > r.token => q.want = row.fact.want
         /\ venue.price = row.fact.want => Spent
    /\ row.fact.unknown /\ row.fact.kind = "cancel_init" /\ row.fact.requestSeen # 0 =>
         venue.request = row.fact.requestSeen /\ row.request = venue.request /\ row.tx /\ late = {}

\* What the venue has shown stays true of it.
Shown(seen) ==
  /\ seen.state # "none" /\ venue.state # "none"
  /\ MoneyEvents(seen) \subseteq MoneyEvents(venue)
  /\ seen.state \in {"cancelled", "failed"} => venue.state = seen.state
  /\ seen.state = "partially_filled" => seen.used >= 1
  /\ seen.state = "filled" /\ seen.returned =>
       venue.state = "filled" /\ venue.returned /\ venue.used = seen.used

SyncInv ==
  \A s \in Syncs :
    LET copy == sync[s].copy
        seen == sync[s].seen
    IN /\ copy.ver <= row.ver
       /\ sync[s].pc \in {"apply", "prove"} =>
            /\ Shown(seen)
            /\ copy.fact.unknown /\ SameFact(copy) /\ copy.fact.kind = "edit"
                 /\ seen.price = copy.fact.want => venue.price = copy.fact.want
       /\ sync[s].pc = "prove" =>
            Proven(copy, seen) /\ TotalsAgree(seen) /\ MoneyEvents(seen) \subseteq claimed

MoneyInv ==
  /\ claimed \subseteq MoneyEvents(venue)
  /\ venue.state = "none" => ~venue.landed
  /\ venue.state = "partially_filled" => venue.used >= 1
  /\ row.state = "filled" =>
       venue.state = "filled" /\ venue.returned /\ claimed = MoneyEvents(venue)
  /\ row.state = "partially_filled" => {<<"deposit", 0>>, <<"fill", 1>>} \subseteq claimed

OrderInv ==
  /\ TypeInv /\ TokenInv /\ OwnerInv /\ RowInv /\ EffectInv /\ LateInv /\ SyncInv /\ MoneyInv

(***************************************************************************)
(* Types.                                                                  *)
(***************************************************************************)
\* One call changes.
LEMMA CallMade ==
  ASSUME TypeInv, NEW u \in Procs, NEW d \in Calls, call' = [call EXCEPT ![u] = d]
  PROVE  call' \in [Procs -> Calls] /\ call'[u] = d
         /\ \A x \in Procs : x # u => call'[x] = call[x]
BY DEF TypeInv

\* One sync moves on.
LEMMA SyncMade ==
  ASSUME TypeInv, NEW s \in Syncs, NEW d \in SyncStates, sync' = [sync EXCEPT ![s] = d]
  PROVE  sync' \in [Syncs -> SyncStates] /\ sync'[s] = d
         /\ \A x \in Syncs : x # s => sync'[x] = sync[x]
BY DEF TypeInv

\* The blank values have their types.
LEMMA Blanks ==
  /\ NoOp \in Facts /\ NoOrder \in Rows /\ OpenOrder \in Rows /\ NoVenue \in Venues
  /\ OpenVenue \in Venues /\ NoReply \in Replies /\ Idle \in Calls /\ Asleep \in SyncStates
<1>1. NoOp \in Facts BY DEF NoOp, Facts, Kinds, Wants
<1>2. NoOrder \in Rows BY <1>1 DEF NoOrder, Rows, States, Closed, Wants
<1>3. OpenOrder \in Rows BY <1>2 DEF OpenOrder, Rows, States
<1>4. NoVenue \in Venues BY DEF NoVenue, Venues, States, Wants
<1>5. OpenVenue \in Venues BY <1>4 DEF OpenVenue, Venues, States
<1>6. NoReply \in Replies BY DEF NoReply, Replies, States
<1>7. Idle \in Calls BY <1>6 DEF Idle, Calls, Pcs, Kinds, Wants
<1>8. Kept(NoOrder) \in Copies BY <1>1, <1>2 DEF Kept, Copies, Rows, NoOrder
<1>9. Asleep \in SyncStates BY <1>4, <1>8 DEF Asleep, SyncStates
<1>10. QED BY <1>1, <1>2, <1>3, <1>4, <1>5, <1>6, <1>7, <1>9

\* What a sync reads of a row has its type.
LEMMA KeptTyped == ASSUME NEW r \in Rows PROVE Kept(r) \in Copies
BY Blanks DEF Kept, Copies, Rows, Facts

\* What the venue makes of a request.
LEMMA AppliedTyped ==
  ASSUME NEW v \in Venues, NEW r \in VenueRequests, NEW w \in Applied(v, r), r.kind # "none"
  PROVE  w \in Venues
<1>1. CASE r.kind = "prepare" BY <1>1 DEF Applied
<1> PICK n \in Nat : n = v.at + 1 BY DEF Venues
<1> PICK q \in Nat : q = v.request + 1 BY DEF Venues
<1>2. CASE r.kind = "activate"
  <2>1. PICK t \in {"activating", "open"}, b \in BOOLEAN :
            w = [v EXCEPT !.state = t, !.landed = b, !.at = n]
    BY <1>2 DEF Applied
  <2>2. t \in States BY DEF States
  <2>3. QED BY <2>1, <2>2 DEF Venues
<1>3. CASE r.kind = "edit"
  <2>1. PICK t : t = r.want OBVIOUS
  <2>2. w = [v EXCEPT !.price = t, !.at = n] BY <1>3, <2>1 DEF Applied
  <2>3. t \in Wants BY <2>1 DEF VenueRequests
  <2>4. QED BY <2>2, <2>3 DEF Venues
<1>4. CASE r.kind = "cancel_init"
  <2>1. w = [v EXCEPT !.state = "cancel_pending", !.request = q, !.at = n]
    BY <1>4 DEF Applied
  <2>2. "cancel_pending" \in States BY DEF States
  <2>3. QED BY <2>1, <2>2 DEF Venues
<1>5. CASE r.kind = "cancel_confirm"
  <2>1. w = [v EXCEPT !.state = "cancelled", !.at = n] BY <1>5 DEF Applied
  <2>2. "cancelled" \in States BY DEF States, Closed
  <2>3. QED BY <2>1, <2>2 DEF Venues
<1>6. QED BY <1>1, <1>2, <1>3, <1>4, <1>5 DEF VenueRequests, Kinds

\* What a call asks of the venue has its type.
LEMMA RequestTyped ==
  ASSUME TypeInv, NEW u \in Procs PROVE Request(u) \in VenueRequests
BY DEF TypeInv, Request, VenueRequests, Calls

\* The venue's own moves: the money only grows, and a cancellation is not its own.
LEMMA VenueMoved ==
  ASSUME TypeInv, DepositLands \/ Execute \/ Fill \/ Expire \/ Fail \/ Return,
         venue.state = "partially_filled" => venue.used >= 1
  PROVE  /\ UNCHANGED <<row, late, call, sync, claimed>> /\ venue' \in Venues
         /\ venue.state # "none" /\ venue.state' \notin {"none", "cancel_pending"}
         /\ venue.price' = venue.price /\ venue.request' = venue.request
         /\ MoneyEvents(venue) \subseteq MoneyEvents(venue')
         /\ venue.state \in {"cancelled", "failed"} => venue.state' = venue.state
         /\ ~(venue.state = "filled" /\ venue.returned)
         /\ venue.state' = "partially_filled" => venue.used' >= 1
<1> venue \in Venues BY DEF TypeInv
<1> PICK n \in Nat : n = venue.at + 1 BY DEF Venues
<1>1. CASE DepositLands
  <2>1. venue' = [[venue EXCEPT !.state = "open", !.landed = TRUE] EXCEPT !.at = n]
    BY <1>1 DEF DepositLands, VenueMoves, Venues
  <2>2. venue' = [venue EXCEPT !.state = "open", !.landed = TRUE, !.at = n] BY <2>1 DEF Venues
  <2>3. "open" \in States BY DEF States
  <2>4. venue' \in Venues BY <2>2, <2>3 DEF Venues
  <2>5. /\ venue.state = "activating" /\ venue'.state = "open" /\ venue'.used = venue.used
        /\ venue'.price = venue.price /\ venue'.request = venue.request
        /\ venue'.landed /\ venue'.returned = venue.returned
    BY <1>1, <2>2 DEF DepositLands, Venues
  <2>6. MoneyEvents(venue) \subseteq MoneyEvents(venue') BY <2>5 DEF MoneyEvents
  <2>7. UNCHANGED <<row, late, call, sync, claimed>> BY <1>1 DEF DepositLands, VenueMoves
  <2>8. QED BY <2>4, <2>5, <2>6, <2>7
<1>2. CASE Fill
  <2>1. PICK m \in Nat : m = venue.used + 1 BY DEF Venues
  <2>2. PICK t \in {"filled", "partially_filled"} :
            t = IF venue.used + 1 = Input THEN "filled" ELSE "partially_filled" OBVIOUS
  <2>3. venue' = [[venue EXCEPT !.used = m, !.state = t] EXCEPT !.at = n]
    BY <1>2, <2>1, <2>2 DEF Fill, VenueMoves, Venues
  <2>4. venue' = [venue EXCEPT !.used = m, !.state = t, !.at = n] BY <2>3 DEF Venues
  <2>5. t \in States BY DEF States, Closed
  <2>6. venue' \in Venues BY <2>4, <2>5 DEF Venues
  <2>7. /\ venue.state \in {"open", "executing", "partially_filled"}
        /\ venue'.state = t /\ venue'.used = m
        /\ venue'.price = venue.price /\ venue'.request = venue.request
        /\ venue'.landed = venue.landed /\ venue'.returned = venue.returned
    BY <1>2, <2>4 DEF Fill, Venues
  <2>8. 1 .. venue.used \subseteq 1 .. m BY <2>1 DEF Venues
  <2>9. MoneyEvents(venue) \subseteq MoneyEvents(venue')
    BY <2>7, <2>8 DEF MoneyEvents
  <2>10. UNCHANGED <<row, late, call, sync, claimed>> BY <1>2 DEF Fill, VenueMoves
  <2>11. m >= 1 BY <2>1 DEF Venues
  <2>12. QED BY <2>2, <2>6, <2>7, <2>9, <2>10, <2>11
\* It executes, expires or fails.
<1>3. CASE Execute \/ Expire \/ Fail
  <2>1. PICK t \in {"executing", "expired", "failed"} : VenueMoves([venue EXCEPT !.state = t])
    BY <1>3 DEF Execute, Expire, Fail
  <2>2. venue.state \in {"activating", "open", "executing", "partially_filled", "cancel_pending"}
    BY <1>3 DEF Execute, Expire, Fail
  <2>3. venue' = [[venue EXCEPT !.state = t] EXCEPT !.at = n]
    BY <2>1 DEF VenueMoves, Venues
  <2>4. venue' = [venue EXCEPT !.state = t, !.at = n] BY <2>3 DEF Venues
  <2>5. t \in States BY DEF States, Closed
  <2>6. venue' \in Venues BY <2>4, <2>5 DEF Venues
  <2>7. /\ venue'.state = t /\ venue'.used = venue.used
        /\ venue'.price = venue.price /\ venue'.request = venue.request
        /\ venue'.landed = venue.landed /\ venue'.returned = venue.returned
    BY <2>4 DEF Venues
  <2>8. MoneyEvents(venue) \subseteq MoneyEvents(venue') BY <2>7 DEF MoneyEvents
  <2>9. UNCHANGED <<row, late, call, sync, claimed>> BY <2>1 DEF VenueMoves
  <2>10. QED BY <2>2, <2>6, <2>7, <2>8, <2>9
<1>4. CASE Return
  <2>1. venue' = [[venue EXCEPT !.returned = TRUE] EXCEPT !.at = n]
    BY <1>4 DEF Return, VenueMoves, Venues
  <2>2. venue' = [venue EXCEPT !.returned = TRUE, !.at = n] BY <2>1 DEF Venues
  <2>3. venue' \in Venues BY <2>2 DEF Venues
  <2>4. /\ venue.state \in Closed /\ venue'.state = venue.state /\ venue'.used = venue.used
        /\ venue'.price = venue.price /\ venue'.request = venue.request
        /\ venue'.landed = venue.landed /\ ~venue.returned /\ venue'.returned
    BY <1>4, <2>2 DEF Return, Venues
  <2>5. MoneyEvents(venue) \subseteq MoneyEvents(venue') BY <2>4 DEF MoneyEvents
  <2>6. UNCHANGED <<row, late, call, sync, claimed>> BY <1>4 DEF Return, VenueMoves
  <2>7. QED BY <2>3, <2>4, <2>5, <2>6 DEF Closed
<1>5. QED BY <1>1, <1>2, <1>3, <1>4

\* VenueRequests that were made have a kind.
KindInv ==
  /\ \A r \in late : r.kind # "none"
  /\ \A u \in Procs : call[u].pc # "idle" => call[u].kind # "none"

\* A late request is applied: types.
LEMMA LateTypes ==
  ASSUME TypeInv, KindInv, ApplyLate PROVE TypeInv' /\ KindInv'
<1>1. PICK r \in late : /\ Accepts(venue, r) /\ venue' \in Applied(venue, r)
                        /\ late' = {q \in late : q.token > r.token}
  BY DEF ApplyLate
<1>2. r \in VenueRequests /\ r.kind # "none" BY DEF TypeInv, KindInv
<1>3. venue' \in Venues BY <1>1, <1>2, AppliedTyped DEF TypeInv
<1>4. late' \subseteq late BY <1>1
<1>5. UNCHANGED <<row, call, sync>> BY DEF ApplyLate
<1>6. QED BY <1>3, <1>4, <1>5 DEF TypeInv, KindInv

\* A step of a sync: types.
LEMMA SyncTypes ==
  ASSUME TypeInv, NEW s \in Syncs, SyncStep(s) PROVE TypeInv'
<1>1. PICK c : c = sync[s] OBVIOUS
<1>2. c \in SyncStates BY <1>1 DEF TypeInv
<1>3. row \in Rows /\ venue \in Venues BY DEF TypeInv
<1>4. CASE SyncRows(s)
  <2>1. PICK d : d = [Asleep EXCEPT !.pc = "rows", !.copy = Kept(row)] OBVIOUS
  <2>2. d \in SyncStates BY <2>1, <1>3, Blanks, KeptTyped DEF SyncStates
  <2>3. sync' = [sync EXCEPT ![s] = d] BY <1>4, <2>1 DEF SyncRows
  <2>4. UNCHANGED <<row, venue, late, call>> BY <1>4 DEF SyncRows
  <2>5. QED BY <2>2, <2>3, <2>4, SyncMade DEF TypeInv
<1>5. CASE SyncHistory(s)
  <2>1. PICK d : d = [c EXCEPT !.pc = "apply", !.seen = venue] OBVIOUS
  <2>2. d \in SyncStates BY <2>1, <1>2, <1>3 DEF SyncStates
  <2>3. sync' = [sync EXCEPT ![s] = d] BY <1>5, <1>1, <2>1 DEF SyncHistory, TypeInv
  <2>4. UNCHANGED <<row, venue, late, call>> BY <1>5 DEF SyncHistory
  <2>5. QED BY <2>2, <2>3, <2>4, SyncMade DEF TypeInv
<1>6. CASE SyncApply(s)
  <2>1. c.seen \in Venues BY <1>2 DEF SyncStates
  <2>10. PICK t \in States : t = c.seen.state BY <2>1 DEF Venues
  <2>11. PICK n \in Nat : n = c.seen.at BY <2>1 DEF Venues
  <2>2. row' = row \/ row' = [row EXCEPT !.state = t, !.known = TRUE, !.at = n]
    BY <1>6, <1>1, <2>10, <2>11 DEF SyncApply
  <2>3. row' \in Rows
    <3>1. CASE row' = row BY <3>1, <1>3
    <3>2. CASE row' = [row EXCEPT !.state = t, !.known = TRUE, !.at = n]
      <4>1. n \in Int OBVIOUS
      <4>2. QED BY <3>2, <4>1, <1>3 DEF Rows
    <3>3. QED BY <2>2, <3>1, <3>2
  <2>4. PICK d : d = [c EXCEPT !.pc = "prove"] OBVIOUS
  <2>5. d \in SyncStates BY <2>4, <1>2 DEF SyncStates
  <2>6. sync' = [sync EXCEPT ![s] = d] \/ sync' = [sync EXCEPT ![s] = Asleep]
    BY <1>6, <1>1, <2>4 DEF SyncApply, TypeInv
  <2>7. UNCHANGED <<venue, late, call>> BY <1>6 DEF SyncApply
  <2>8. sync' \in [Syncs -> SyncStates] BY <2>5, <2>6, Blanks, SyncMade
  <2>9. QED BY <2>3, <2>7, <2>8 DEF TypeInv
<1>7. CASE SyncProve(s)
  <2>1. c.seen \in Venues /\ c.copy \in Copies BY <1>2 DEF SyncStates
  <2>2. PICK p : p = IF c.copy.fact.kind = "edit" THEN c.copy.fact.want ELSE row.price OBVIOUS
  <2>3. p \in Wants BY <2>1, <2>2, <1>3 DEF Copies, Facts, Rows
  <2>4. row' = row \/ row' = [row EXCEPT !.state = c.seen.state, !.known = TRUE,
                                        !.fact = NoOp, !.price = p]
    BY <1>7, <1>1, <2>2 DEF SyncProve
  <2>5. row' \in Rows BY <2>1, <2>3, <2>4, <1>3, Blanks DEF Rows, Venues
  <2>6. sync' = [sync EXCEPT ![s] = Asleep] BY <1>7 DEF SyncProve
  <2>7. sync' \in [Syncs -> SyncStates] BY <2>6, Blanks, SyncMade
  <2>8. UNCHANGED <<venue, late, call>> BY <1>7 DEF SyncProve
  <2>9. QED BY <2>5, <2>7, <2>8 DEF TypeInv
<1>8. CASE SyncEnds(s)
  <2>1. sync' = [sync EXCEPT ![s] = Asleep] /\ UNCHANGED <<row, venue, late, call>>
    BY <1>8 DEF SyncEnds
  <2>2. QED BY <2>1, Blanks, SyncMade DEF TypeInv
<1>9. QED BY <1>4, <1>5, <1>6, <1>7, <1>8 DEF SyncStep


(***************************************************************************)
(* Steps of the owner's calls.                                             *)
(***************************************************************************)
\* A step that moves one call on and changes nothing else, unless it takes
\* a lease: what the calls hold of the order stays true.
Onward(c, d) ==
  /\ d \in Calls
  /\ d.pc # "idle" => d.kind # "none"
  /\ d.pc \in {"idle", "read"} <=> d.token = 0
  /\ d.token # 0 => d.token = c.token /\ d.kind = c.kind /\ d.want = c.want
  /\ d.pc \in {"calling", "accepted", "uncertain"} =>
       c.pc \in {"started", "calling", "accepted", "uncertain"}
  /\ d.pc \notin {"leased", "started"}
  /\ d.pc = "certain" =>
       c.pc \in {"leased", "started"} \/ (c.pc = "calling" /\ (~c.reply.ok \/ c.kind = "prepare"))
  /\ c.pc = "uncertain" => d.pc \in {"uncertain", "idle"}
  /\ d.pc \in {"calling", "accepted", "uncertain"} /\ d.reply.ok => d.reply = c.reply
  /\ d.pc = "accepted" => d.reply.ok
  /\ d.pc = "read" => ~d.reply.ok
  /\ d.pc = "uncertain" /\ ~d.reply.ok => d.reply.request = 0
  /\ d.pc = "calling" =>
       c.pc \in {"started", "calling"} /\ d.reply = c.reply /\ (c.answered => d.answered)

\* A request moves on by itself: the row, the venue and what is late stay.
LEMMA CallMoves ==
  ASSUME OrderInv, KindInv, NEW u \in Procs, NEW c, c = call[u], NEW d, Onward(c, d),
         call' = [call EXCEPT ![u] = d], UNCHANGED <<row, venue, late, sync, claimed>>
  PROVE  OrderInv' /\ KindInv'
<1>1. d \in Calls BY DEF Onward
<1>2. /\ call' \in [Procs -> Calls] /\ call'[u] = d
      /\ \A x \in Procs : x # u => call'[x] = call[x]
  BY <1>1, CallMade DEF OrderInv
<1>3. TypeInv' BY <1>2 DEF OrderInv, TypeInv
<1>4. TypeInv /\ TokenInv /\ OwnerInv /\ RowInv /\ EffectInv BY DEF OrderInv
<1>5. TokenInv' BY <1>2, <1>4 DEF Onward, TokenInv, TypeInv, Calls, Rows, Facts
<1>6. \A x \in Procs : Mine(x)' => Mine(x) BY <1>2 DEF Mine, Onward
<1>7. OwnerInv'
  <2> SUFFICES ASSUME NEW x \in Procs
      PROVE /\ Calling(x)' => Holds(x)'
            /\ (call[x].pc = "leased" /\ Mine(x) =>
                 /\ row.fact.op = "reserved"
                 /\ row.fact.kind = call[x].kind /\ row.fact.want = call[x].want)'
            /\ (call[x].pc = "certain" /\ Mine(x) => row.fact.op = "reserved" \/ Holds(x))'
            /\ (Mine(x) => \A r \in late : r.token < call[x].token \/ call[x].pc = "uncertain")'
    BY DEF OwnerInv
  <2>1. CASE x # u
    BY <2>1, <1>2, <1>4 DEF OwnerInv, Calling, Holds, Mine
  <2>2. CASE x = u
    <3>1. Calling(u)' => Holds(u)'
      BY <1>2, <1>4 DEF OwnerInv, Calling, Holds, Mine, Onward
    <3>2. d.pc # "leased" BY DEF Onward
    <3>3. ASSUME d.pc = "certain", Mine(u)' PROVE row.fact.op = "reserved" \/ Holds(u)'
      BY <3>3, <1>2, <1>4 DEF OwnerInv, Calling, Holds, Mine, Onward
    <3>4. ASSUME Mine(u)', NEW r \in late
          PROVE  r.token < d.token \/ d.pc = "uncertain"
      BY <3>4, <1>2, <1>4 DEF OwnerInv, Calling, Holds, Mine, Onward
    <3>5. QED BY <2>2, <3>1, <3>2, <3>3, <3>4, <1>2
  <2>3. QED BY <2>1, <2>2
<1>8. RowInv' BY <1>4 DEF RowInv, RightId, RightPrice, RightCancel, Started
<1>9. EffectInv'
  <2>1. (Known => Spent)' BY <1>4 DEF EffectInv, Known, Spent
  <2> SUFFICES ASSUME NEW x \in Procs
      PROVE  (/\ Untouched(x) => RightId /\ RightPrice /\ RightCancel /\ Spent
              /\ Calling(x) /\ call[x].reply.ok => Effect(x) /\ late = {}
              /\ call[x].pc = "accepted" => call[x].reply.ok
              /\ call[x].pc \in {"read", "leased", "started"} => ~call[x].reply.ok
              /\ call[x].pc = "uncertain" /\ ~call[x].reply.ok => call[x].reply.request = 0
              /\ call[x].pc = "calling" /\ call[x].reply.ok => call[x].answered)'
    BY <2>1 DEF EffectInv
  <2>2. CASE x # u
    BY <2>2, <1>2, <1>4 DEF EffectInv, Untouched, RightId, RightPrice, RightCancel, Spent,
         Calling, Effect, Mine
  <2>3. CASE x = u
    <3>1. ASSUME Untouched(u)' PROVE RightId /\ RightPrice /\ RightCancel /\ Spent
      <4>1. CASE d.pc = "certain"
        <5>1. Mine(u)' BY <3>1, <4>1, <1>2 DEF Untouched, Onward
        <5>2. Mine(u) BY <5>1, <1>6
        <5>3. CASE c.pc = "leased"
          <6>1. row.fact.op = "reserved" BY <5>2, <5>3, <1>4 DEF OwnerInv
          <6>2. QED BY <6>1, <1>4 DEF EffectInv, Known, RowInv, Started
        <5>4. CASE c.pc = "started" BY <5>4, <1>4 DEF EffectInv, Untouched
        <5>5. CASE c.pc = "calling" /\ ~c.reply.ok BY <5>5, <1>4 DEF EffectInv, Untouched
        <5>6. CASE c.pc = "calling" /\ c.reply.ok /\ c.kind = "prepare"
          <6>1. Holds(u) /\ late = {} BY <5>6, <1>4 DEF OwnerInv, Calling, EffectInv
          <6>2. row.fact.kind = "prepare" BY <6>1, <5>6 DEF Holds
          <6>3. QED BY <6>1, <6>2, <1>4 DEF RowInv, Started, Spent
        <5>7. QED BY <4>1, <5>3, <5>4, <5>5, <5>6 DEF Onward
      <4>2. CASE d.pc = "calling" /\ ~d.reply.ok
        BY <4>2, <1>4 DEF EffectInv, Untouched, Onward
      <4>3. QED BY <3>1, <4>1, <4>2, <1>2 DEF Untouched, Onward
    <3>2. (RightId /\ RightPrice /\ RightCancel /\ Spent)' <=> RightId /\ RightPrice /\ RightCancel /\ Spent
      BY DEF RightId, RightPrice, RightCancel, Spent
    <3>3. ASSUME Calling(u)', d.reply.ok PROVE Effect(u)' /\ late = {}
      <4>1. Calling(u) /\ d.reply = c.reply /\ d.token # 0
        BY <3>3, <1>2 DEF Calling, Onward
      <4>2. Effect(u) /\ late = {} BY <4>1, <3>3, <1>4 DEF EffectInv
      <4>3. d.kind = c.kind /\ d.want = c.want BY <4>1 DEF Onward
      <4>4. QED BY <4>1, <4>2, <4>3, <1>2 DEF Effect
    <3>4. /\ (d.pc = "accepted" => d.reply.ok) /\ d.pc # "started" /\ d.pc # "leased"
          /\ d.pc = "read" => ~d.reply.ok
          /\ d.pc = "uncertain" /\ ~d.reply.ok => d.reply.request = 0
      BY DEF Onward
    <3>5. ASSUME d.pc = "calling", d.reply.ok PROVE d.answered
      BY <3>5, <1>4 DEF EffectInv, Onward
    <3>6. QED BY <2>3, <3>1, <3>2, <3>3, <3>4, <3>5, <1>2
  <2>4. QED BY <2>2, <2>3
<1>10. LateInv' BY DEF OrderInv, LateInv, Spent
<1>11. SyncInv' BY DEF OrderInv, SyncInv, Shown, SameFact, Proven, TotalsAgree, MoneyEvents
<1>12. MoneyInv' BY DEF OrderInv, MoneyInv, MoneyEvents
<1>13. KindInv' BY <1>2 DEF KindInv, Onward
<1>14. QED BY <1>3, <1>5, <1>7, <1>8, <1>9, <1>10, <1>11, <1>12, <1>13 DEF OrderInv


\* Reading, sending, refusals, answers and errors move one call on.
LEMMA OnwardSteps ==
  ASSUME OrderInv, KindInv, NEW u \in Procs,
         Read(u) \/ Limited(u) \/ Send(u) \/ Refuse(u) \/ Receive(u) \/ CommitFails(u)
  PROVE  OrderInv' /\ KindInv'
<1> TypeInv /\ TokenInv /\ OwnerInv /\ EffectInv BY DEF OrderInv
<1> PICK c \in Calls : c = call[u] BY DEF TypeInv
<1>0. NoReply \in Replies /\ ~NoReply.ok /\ NoReply.request = 0 BY Blanks DEF NoReply
<1>1. CASE Read(u)
  <2>1. PICK k, w : /\ call' = [call EXCEPT ![u] = [Idle EXCEPT !.pc = "read", !.kind = k, !.want = w]]
                    /\ k \in Kinds /\ k # "none" /\ w \in Wants
    <3>1. CASE ReadPrepare(u) BY <3>1 DEF ReadPrepare, CallFrom, Kinds, Wants
    <3>2. CASE ReadActivate(u) BY <3>2 DEF ReadActivate, CallFrom, Kinds, Wants
    <3>3. CASE ReadEdit(u) BY <3>3 DEF ReadEdit, CallFrom, Kinds, Wants
    <3>4. CASE ReadCancel(u) BY <3>4 DEF ReadCancel, CallFrom, Kinds, Wants
    <3>5. CASE ReadConfirm(u)
      <4>1. row.request \in Wants BY DEF TypeInv, Rows, Wants
      <4>2. QED BY <3>5, <4>1 DEF ReadConfirm, CallFrom, Kinds
    <3>6. QED BY <1>1, <3>1, <3>2, <3>3, <3>4, <3>5 DEF Read
  <2>2. PICK d : d = [Idle EXCEPT !.pc = "read", !.kind = k, !.want = w] OBVIOUS
  <2>3. d \in Calls BY <2>1, <2>2, Blanks DEF Calls, Pcs
  <2>4. d.pc = "read" /\ d.token = 0 /\ d.kind # "none" BY <2>1, <2>2 DEF Idle
  <2>5. c.pc = "idle" /\ UNCHANGED <<row, venue, late, sync, claimed>> BY <1>1 DEF Read
  <2>8. ~d.reply.ok BY <2>2 DEF Idle, NoReply
  <2>6. Onward(c, d) BY <2>3, <2>4, <2>5, <2>8 DEF Onward
  <2>7. QED BY <2>1, <2>2, <2>5, <2>6, CallMoves
<1>2. CASE Limited(u)
  <2>1. PICK d : d = [c EXCEPT !.pc = "certain"] OBVIOUS
  <2>2. d \in Calls BY <2>1 DEF Calls, Pcs
  <2>3. /\ c.pc = "started" /\ call' = [call EXCEPT ![u] = d]
        /\ UNCHANGED <<row, venue, late, sync, claimed>>
    BY <1>2, <2>1 DEF Limited, TypeInv
  <2>4. Onward(c, d) BY <2>1, <2>2, <2>3 DEF Onward, TokenInv, Calls, KindInv
  <2>5. QED BY <2>3, <2>4, CallMoves
<1>3. CASE Send(u)
  <2>1. PICK d : d = [c EXCEPT !.pc = "calling"] OBVIOUS
  <2>2. d \in Calls BY <2>1 DEF Calls, Pcs
  <2>3. /\ c.pc = "started" /\ call' = [call EXCEPT ![u] = d]
        /\ UNCHANGED <<row, venue, late, sync, claimed>>
    BY <1>3, <2>1 DEF Send, TypeInv
  <2>4. Onward(c, d) BY <2>1, <2>2, <2>3 DEF Onward, TokenInv, Calls, KindInv
  <2>5. QED BY <2>3, <2>4, CallMoves
<1>4. CASE Refuse(u)
  <2>1. PICK d : d = [c EXCEPT !.answered = TRUE] OBVIOUS
  <2>2. d \in Calls BY <2>1 DEF Calls
  <2>3. /\ c.pc = "calling" /\ call' = [call EXCEPT ![u] = d]
        /\ UNCHANGED <<row, venue, late, sync, claimed>>
    BY <1>4, <2>1 DEF Refuse, TypeInv
  <2>4. Onward(c, d) BY <2>1, <2>2, <2>3 DEF Onward, TokenInv, Calls, KindInv
  <2>5. QED BY <2>3, <2>4, CallMoves
<1>5. CASE Receive(u)
  <2>0. c.pc = "calling" /\ UNCHANGED <<row, venue, late, sync, claimed>> BY <1>5 DEF Receive
  <2>1. CASE c.reply.ok /\ call' = [call EXCEPT ![u].pc = "accepted"]
    <3>1. PICK d : d = [c EXCEPT !.pc = "accepted"] OBVIOUS
    <3>2. d \in Calls BY <3>1 DEF Calls, Pcs
    <3>3. call' = [call EXCEPT ![u] = d] BY <2>1, <3>1 DEF TypeInv
    <3>4. Onward(c, d) BY <2>0, <2>1, <3>1, <3>2 DEF Onward, TokenInv, Calls, KindInv
    <3>5. QED BY <2>0, <3>3, <3>4, CallMoves
  <2>2. CASE call' = [call EXCEPT ![u].pc = "uncertain", ![u].reply = NoReply]
    <3>1. PICK d : d = [c EXCEPT !.pc = "uncertain", !.reply = NoReply] OBVIOUS
    <3>2. d \in Calls BY <3>1, <1>0 DEF Calls, Pcs
    <3>3. call' = [call EXCEPT ![u] = d] BY <2>2, <3>1 DEF TypeInv
    <3>4. Onward(c, d) BY <2>0, <1>0, <3>1, <3>2 DEF Onward, TokenInv, Calls, KindInv
    <3>5. QED BY <2>0, <3>3, <3>4, CallMoves
  <2>3. CASE /\ ~c.reply.ok \/ c.kind = "prepare"
             /\ call' = [call EXCEPT ![u].pc = "certain"]
    <3>1. PICK d : d = [c EXCEPT !.pc = "certain"] OBVIOUS
    <3>2. d \in Calls BY <3>1 DEF Calls, Pcs
    <3>3. call' = [call EXCEPT ![u] = d] BY <2>3, <3>1 DEF TypeInv
    <3>4. Onward(c, d) BY <2>0, <2>3, <3>1, <3>2 DEF Onward, TokenInv, Calls, KindInv
    <3>5. QED BY <2>0, <3>3, <3>4, CallMoves
  <2>4. QED BY <1>5, <2>1, <2>2, <2>3 DEF Receive
<1>6. CASE CommitFails(u)
  <2>1. PICK d : d = [c EXCEPT !.pc = "uncertain"] OBVIOUS
  <2>2. d \in Calls BY <2>1 DEF Calls, Pcs
  <2>3. /\ c.pc = "accepted" /\ call' = [call EXCEPT ![u] = d]
        /\ UNCHANGED <<row, venue, late, sync, claimed>>
    BY <1>6, <2>1 DEF CommitFails, Uncommitted, TypeInv
  <2>6. c.reply.ok BY <2>3 DEF EffectInv
  <2>4. Onward(c, d) BY <2>1, <2>2, <2>3, <2>6 DEF Onward, TokenInv, Calls, KindInv
  <2>5. QED BY <2>3, <2>4, CallMoves
<1>7. QED BY <1>1, <1>2, <1>3, <1>4, <1>5, <1>6


\* A caller that gives up or dies leaves its request, if it waits for one: the
\* row names it, and it is later than all that was left before.
LEMMA LeavingSteps ==
  ASSUME OrderInv, KindInv, NEW u \in Procs, GiveUp(u) \/ Die(u)
  PROVE  OrderInv' /\ KindInv'
<1> TypeInv /\ TokenInv /\ OwnerInv /\ RowInv /\ EffectInv /\ LateInv /\ SyncInv /\ MoneyInv
  BY DEF OrderInv
<1> PICK c \in Calls : c = call[u] BY DEF TypeInv
<1>0. NoReply \in Replies /\ ~NoReply.ok /\ NoReply.request = 0 /\ Idle \in Calls
      /\ Idle.pc = "idle" /\ Idle.token = 0
  BY Blanks DEF NoReply, Idle
<1>1. PICK d \in Calls :
        /\ call' = [call EXCEPT ![u] = d]
        /\ d.pc \in {"uncertain", "idle"} /\ (d.pc = "idle" => d.token = 0)
        /\ d.pc = "uncertain" =>
             c.pc = "calling" /\ ~d.reply.ok /\ d.reply.request = 0 /\ d.kind = c.kind /\ d.want = c.want /\ d.token = c.token
  <2>1. CASE GiveUp(u)
    <3>1. PICK d : d = [c EXCEPT !.pc = "uncertain", !.reply = NoReply] OBVIOUS
    <3>2. d \in Calls BY <3>1, <1>0 DEF Calls, Pcs
    <3>3. call' = [call EXCEPT ![u] = d] BY <2>1, <3>1 DEF GiveUp, TypeInv
    <3>4. QED BY <2>1, <3>1, <3>2, <3>3, <1>0 DEF GiveUp, Calls
  <2>2. CASE Die(u) BY <2>2, <1>0 DEF Die, Done
  <2>3. QED BY <2>1, <2>2
<1>2. UNCHANGED <<row, venue, sync, claimed>> /\ late' = Left(u) BY DEF GiveUp, Die
<1>3. /\ call' \in [Procs -> Calls] /\ call'[u] = d
      /\ \A x \in Procs : x # u => call'[x] = call[x]
  BY <1>1, CallMade
<1>4. PICK q \in VenueRequests : /\ q.kind = c.kind /\ q.want = c.want /\ q.token = c.token
                            /\ late' = IF c.pc = "calling" /\ ~c.answered THEN late \union {q} ELSE late
  BY <1>2, RequestTyped DEF Left, Request
<1>5. TypeInv' BY <1>2, <1>3, <1>4 DEF TypeInv
<1>6. c.pc = "calling" => Holds(u) /\ Mine(u) /\ q.token # 0
  BY <1>4 DEF OwnerInv, Calling, Holds, Mine
<1>7. \A x \in Procs : Mine(x)' => Mine(x) /\ (c.pc = "calling" => x = u)
  <2> SUFFICES ASSUME NEW x \in Procs, Mine(x)' PROVE Mine(x) /\ (c.pc = "calling" => x = u)
    OBVIOUS
  <2>1. Mine(x) BY <1>1, <1>2, <1>3 DEF Mine, TokenInv, Calls
  <2>2. QED BY <2>1, <1>6 DEF Mine, TokenInv
<1>8. TokenInv'
  <2>1. \A r \in late' : r.token <= row.ver BY <1>4 DEF TokenInv
  <2>2. d.pc \in {"idle", "read"} <=> d.token = 0 BY <1>1 DEF TokenInv, Calls
  <2>3. d.token <= row.ver /\ (d.token # 0 => d.token = c.token)
    BY <1>1 DEF TokenInv, Calls, TypeInv, Rows
  <2>4. QED BY <1>2, <1>3, <2>1, <2>2, <2>3 DEF TokenInv
<1>9. OwnerInv'
  <2> SUFFICES ASSUME NEW x \in Procs
      PROVE (/\ Calling(x) => Holds(x)
             /\ call[x].pc = "leased" /\ Mine(x) =>
                  /\ row.fact.op = "reserved"
                  /\ row.fact.kind = call[x].kind /\ row.fact.want = call[x].want
             /\ call[x].pc = "certain" /\ Mine(x) => row.fact.op = "reserved" \/ Holds(x)
             /\ Mine(x) => \A r \in late : r.token < call[x].token \/ call[x].pc = "uncertain")'
    BY DEF OwnerInv
  <2>1. CASE x # u
    <3>1. call'[x] = call[x] BY <2>1, <1>3
    <3>2. Mine(x)' => late' = late BY <2>1, <1>4, <1>7
    <3>3. QED BY <3>1, <3>2, <1>2 DEF OwnerInv, Calling, Holds, Mine
  <2>2. CASE x = u
    BY <2>2, <1>1, <1>2, <1>3, <1>6 DEF Calling, Holds, Mine
  <2>3. QED BY <2>1, <2>2
<1>10. RowInv' BY <1>2 DEF RowInv, RightId, RightPrice, RightCancel, Started
<1>11. EffectInv'
  <2>1. (Known => Spent)'
    BY <1>2, <1>4, <1>6 DEF EffectInv, Known, Spent, Holds
  <2> SUFFICES ASSUME NEW x \in Procs
      PROVE  (/\ Untouched(x) => RightId /\ RightPrice /\ RightCancel /\ Spent
              /\ Calling(x) /\ call[x].reply.ok => Effect(x) /\ late = {}
              /\ call[x].pc = "accepted" => call[x].reply.ok
              /\ call[x].pc \in {"read", "leased", "started"} => ~call[x].reply.ok
              /\ call[x].pc = "uncertain" /\ ~call[x].reply.ok => call[x].reply.request = 0
              /\ call[x].pc = "calling" /\ call[x].reply.ok => call[x].answered)'
    BY <2>1 DEF EffectInv
  <2>2. CASE x # u
    <3>1. call'[x] = call[x] BY <2>2, <1>3
    <3>2. Mine(x)' => late' = late BY <2>2, <1>4, <1>7
    <3>3. Calling(x) => Mine(x) BY DEF OwnerInv, Holds
    <3>4. Calling(x) => late' = late BY <3>1, <3>2, <3>3, <1>2 DEF Mine
    <3>5. (Untouched(x)' => Untouched(x)) /\ (Untouched(x)' => late' = late)
      BY <3>1, <3>2, <3>4, <1>2 DEF Untouched, Mine, Calling
    <3>6. Untouched(x)' => (RightId /\ RightPrice /\ RightCancel /\ Spent)'
      BY <3>5, <1>2 DEF EffectInv, RightId, RightPrice, RightCancel, Spent
    <3>7. Calling(x)' /\ call'[x].reply.ok => Effect(x)' /\ late' = {}
      BY <3>1, <3>4, <1>2 DEF EffectInv, Calling, Effect
    <3>8. QED BY <3>1, <3>6, <3>7 DEF EffectInv
  <2>3. CASE x = u
    BY <2>3, <1>1, <1>3 DEF Calling, Untouched
  <2>4. QED BY <2>2, <2>3
<1>12. LateInv'
  <2> SUFFICES ASSUME row.fact.op = "started" PROVE LateInv' BY <1>2 DEF LateInv
  <2>1. CASE late' = late BY <2>1, <1>2 DEF LateInv, Spent
  <2>2. CASE late' # late
    <3>1. c.pc = "calling" /\ late' = late \union {q} BY <2>2, <1>4
    <3>2. /\ ~row.fact.unknown /\ q.kind = row.fact.kind /\ q.want = row.fact.want
          /\ \A r \in late : r.token < q.token
      BY <3>1, <1>4, <1>6 DEF Holds, OwnerInv
    <3>3. \A r \in late' : r.kind = "edit" \/ (r.kind = row.fact.kind /\ r.want = row.fact.want)
      BY <3>1, <3>2 DEF LateInv
    <3>7. row.fact.kind # "edit" => \A r \in late' : r.kind = "edit" => r.want = venue.price
      BY <3>1, <3>2 DEF LateInv
    <3>4. ASSUME row.fact.kind = "edit"
          PROVE  /\ venue.price \in {row.price, row.fact.want}
                 /\ \A r \in late' : r.kind = "edit" /\ r.want \in {row.price, row.fact.want}
                 /\ venue.price = row.fact.want => Spent'
      BY <3>1, <3>2, <3>4, <1>2 DEF LateInv, Spent
    <3>5. ASSUME row.fact.kind = "edit", NEW r \in late', NEW p \in late',
                 r.want = row.fact.want, p.token > r.token
          PROVE  p.want = row.fact.want
      <4>1. CASE p = q BY <4>1, <3>2
      <4>2. CASE p # q /\ r = q
        <5>1. p \in late /\ p.token < q.token BY <4>2, <3>1, <3>2
        <5>2. p \in VenueRequests BY <5>1 DEF TypeInv
        <5>3. QED BY <5>1, <5>2, <4>2, <3>5 DEF VenueRequests
      <4>3. CASE p # q /\ r # q BY <4>3, <3>1, <3>5 DEF LateInv
      <4>4. QED BY <4>1, <4>2, <4>3
    <3>6. QED BY <1>2, <3>2, <3>3, <3>4, <3>5, <3>7 DEF LateInv
  <2>3. QED BY <2>1, <2>2
<1>13. SyncInv' BY <1>2 DEF SyncInv, Shown, SameFact, Proven, TotalsAgree, MoneyEvents
<1>14. MoneyInv' BY <1>2 DEF MoneyInv, MoneyEvents
<1>15. KindInv'
  <2>1. d.pc # "idle" => d.kind # "none" BY <1>1 DEF KindInv
  <2>2. \A r \in late' : r.kind # "none" BY <1>4 DEF KindInv
  <2>3. QED BY <2>1, <2>2, <1>3 DEF KindInv
<1>16. QED BY <1>5, <1>8, <1>9, <1>10, <1>11, <1>12, <1>13, <1>14, <1>15 DEF OrderInv


(***************************************************************************)
(* Steps of the venue.                                                     *)
(***************************************************************************)
LEMMA VenueSteps ==
  ASSUME OrderInv, KindInv, DepositLands \/ Execute \/ Fill \/ Expire \/ Fail \/ Return
  PROVE  OrderInv' /\ KindInv'
<1> TypeInv /\ TokenInv /\ OwnerInv /\ RowInv /\ EffectInv /\ LateInv /\ SyncInv /\ MoneyInv
  BY DEF OrderInv
<1>1. venue.state = "partially_filled" => venue.used >= 1 BY DEF MoneyInv
<1>2. /\ UNCHANGED <<row, late, call, sync, claimed>> /\ venue' \in Venues
      /\ venue.state # "none" /\ venue.state' \notin {"none", "cancel_pending"}
      /\ venue.price' = venue.price /\ venue.request' = venue.request
      /\ MoneyEvents(venue) \subseteq MoneyEvents(venue')
      /\ venue.state \in {"cancelled", "failed"} => venue.state' = venue.state
      /\ ~(venue.state = "filled" /\ venue.returned)
      /\ venue.state' = "partially_filled" => venue.used' >= 1
  BY <1>1, VenueMoved
<1>3. /\ venue.state # "none" /\ venue'.state # "none" /\ venue'.state # "cancel_pending"
      /\ venue'.price = venue.price /\ venue'.request = venue.request
  BY <1>2
<1>4. TypeInv' BY <1>2 DEF TypeInv
<1>5. TokenInv' BY <1>2 DEF TokenInv
<1>6. OwnerInv' BY <1>2 DEF OwnerInv, Calling, Holds, Mine
<1>7. RowInv' BY <1>2, <1>3 DEF RowInv, RightId, RightPrice, RightCancel, Started
<1>8. EffectInv'
  <2>1. (Known => Spent)' BY <1>2, <1>3 DEF EffectInv, Known, Spent
  <2> SUFFICES ASSUME NEW x \in Procs
      PROVE  (/\ Untouched(x) => RightId /\ RightPrice /\ RightCancel /\ Spent
              /\ Calling(x) /\ call[x].reply.ok => Effect(x) /\ late = {}
              /\ call[x].pc = "accepted" => call[x].reply.ok
              /\ call[x].pc \in {"read", "leased", "started"} => ~call[x].reply.ok
              /\ call[x].pc = "uncertain" /\ ~call[x].reply.ok => call[x].reply.request = 0
              /\ call[x].pc = "calling" /\ call[x].reply.ok => call[x].answered)'
    BY <2>1 DEF EffectInv
  <2>2. (Untouched(x) => RightId /\ RightPrice /\ RightCancel /\ Spent)'
    BY <1>2, <1>3 DEF EffectInv, Untouched, Mine, RightId, RightPrice, RightCancel, Spent
  <2>3. (Calling(x) /\ call[x].reply.ok => Effect(x) /\ late = {})'
    BY <1>2, <1>3 DEF EffectInv, Calling, Effect
  <2>4. QED BY <2>2, <2>3, <1>2 DEF EffectInv
<1>9. LateInv' BY <1>2, <1>3 DEF LateInv, Spent
<1>10. \A seen : Shown(seen) => Shown(seen)' BY <1>2, <1>3 DEF Shown
<1>11. SyncInv' BY <1>2, <1>3, <1>10 DEF SyncInv, SameFact, Proven, TotalsAgree
<1>12. MoneyInv' BY <1>2, <1>3 DEF MoneyInv
<1>13. KindInv' BY <1>2 DEF KindInv
<1>14. QED BY <1>4, <1>5, <1>6, <1>7, <1>8, <1>9, <1>11, <1>12, <1>13 DEF OrderInv

\* What the venue makes of a request it accepts.
LEMMA Taken ==
  ASSUME NEW v \in Venues, NEW r \in VenueRequests, r.kind # "none", Accepts(v, r),
         NEW w \in Applied(v, r), v.state = "none" => ~v.landed
  PROVE  /\ w \in Venues /\ MoneyEvents(v) \subseteq MoneyEvents(w)
         /\ w.used = v.used /\ w.returned = v.returned
         /\ r.kind \in {"prepare", "activate", "edit", "cancel_init", "cancel_confirm"}
         /\ r.kind = "prepare" => w = v
         /\ r.kind = "activate" =>
              v.state = "none" /\ w.state \in {"activating", "open"} /\ w.price = v.price
         /\ r.kind = "edit" =>
              v.state = "open" /\ w.state = "open" /\ w.price = r.want /\ w.request = v.request
         /\ r.kind = "cancel_init" =>
              /\ v.state \in {"open", "executing", "partially_filled", "expired"}
              /\ w.state = "cancel_pending" /\ w.price = v.price /\ w.request # 0
         /\ r.kind = "cancel_confirm" =>
              v.state = "cancel_pending" /\ w.state = "cancelled" /\ w.price = v.price
<1>0. w \in Venues BY AppliedTyped
<1>9. r.kind \in {"prepare", "activate", "edit", "cancel_init", "cancel_confirm"}
  BY DEF VenueRequests, Kinds
<1>1. CASE r.kind = "prepare"
  <2>1. w = v BY <1>1 DEF Applied
  <2>2. QED BY <1>0, <1>1, <2>1
<1>2. CASE r.kind = "activate"
  <2>1. PICK t \in {"activating", "open"}, b \in BOOLEAN :
            w = [v EXCEPT !.state = t, !.landed = b, !.at = v.at + 1]
    BY <1>2 DEF Applied
  <2>2. v.state = "none" /\ ~v.landed BY <1>2 DEF Accepts
  <2>3. w.state = t /\ w.used = v.used /\ w.returned = v.returned /\ w.price = v.price
    BY <2>1 DEF Venues
  <2>4. MoneyEvents(v) \subseteq MoneyEvents(w) BY <2>2, <2>3 DEF MoneyEvents
  <2>5. QED BY <1>0, <1>2, <2>2, <2>3, <2>4
<1>3. CASE r.kind = "edit"
  <2>1. w = [v EXCEPT !.price = r.want, !.at = v.at + 1] BY <1>3 DEF Applied
  <2>2. v.state = "open" BY <1>3 DEF Accepts
  <2>3. w.state = "open" /\ w.used = v.used /\ w.returned = v.returned /\ w.price = r.want
        /\ w.request = v.request /\ w.landed = v.landed
    BY <2>1, <2>2 DEF Venues
  <2>4. MoneyEvents(v) \subseteq MoneyEvents(w) BY <2>2, <2>3 DEF MoneyEvents
  <2>5. QED BY <1>0, <1>3, <2>2, <2>3, <2>4
<1>4. CASE r.kind = "cancel_init"
  <2>1. w = [v EXCEPT !.state = "cancel_pending", !.request = v.request + 1, !.at = v.at + 1]
    BY <1>4 DEF Applied
  <2>2. v.state \in {"open", "executing", "partially_filled", "expired"} BY <1>4 DEF Accepts
  <2>3. /\ w.state = "cancel_pending" /\ w.used = v.used /\ w.returned = v.returned
        /\ w.price = v.price /\ w.request = v.request + 1 /\ w.landed = v.landed
    BY <2>1 DEF Venues
  <2>4. MoneyEvents(v) \subseteq MoneyEvents(w) BY <2>2, <2>3 DEF MoneyEvents
  <2>5. w.request # 0 BY <2>3 DEF Venues
  <2>6. QED BY <1>0, <1>4, <2>2, <2>3, <2>4, <2>5
<1>5. CASE r.kind = "cancel_confirm"
  <2>1. w = [v EXCEPT !.state = "cancelled", !.at = v.at + 1] BY <1>5 DEF Applied
  <2>2. v.state = "cancel_pending" BY <1>5 DEF Accepts
  <2>3. w.state = "cancelled" /\ w.used = v.used /\ w.returned = v.returned /\ w.price = v.price
        /\ w.landed = v.landed
    BY <2>1 DEF Venues
  <2>4. MoneyEvents(v) \subseteq MoneyEvents(w) BY <2>2, <2>3 DEF MoneyEvents
  <2>5. QED BY <1>0, <1>5, <2>2, <2>3, <2>4
<1>6. QED BY <1>9, <1>1, <1>2, <1>3, <1>4, <1>5


\* What the venue takes, from a caller that waits or is gone, takes nothing back:
\* money and what was shown stay.
LEMMA TakenKeeps ==
  ASSUME TypeInv, MoneyInv, NEW r \in VenueRequests, r.kind # "none", Accepts(venue, r),
         venue' \in Applied(venue, r), UNCHANGED <<row, claimed>>
  PROVE  /\ MoneyInv' /\ \A seen : Shown(seen) => Shown(seen)'
         /\ venue' \in Venues
<1> venue \in Venues BY DEF TypeInv
<1>1. /\ venue' \in Venues /\ MoneyEvents(venue) \subseteq MoneyEvents(venue')
      /\ venue'.used = venue.used /\ venue'.returned = venue.returned
      /\ r.kind \in {"prepare", "activate", "edit", "cancel_init", "cancel_confirm"}
      /\ r.kind = "prepare" => venue' = venue
      /\ r.kind = "activate" => venue.state = "none" /\ venue'.state \in {"activating", "open"}
      /\ r.kind = "edit" => venue.state = "open" /\ venue'.state = "open"
      /\ r.kind = "cancel_init" =>
           venue.state \in {"open", "executing", "partially_filled", "expired"}
           /\ venue'.state = "cancel_pending"
      /\ r.kind = "cancel_confirm" => venue.state = "cancel_pending" /\ venue'.state = "cancelled"
  BY Taken DEF MoneyInv
<1>2. MoneyInv'
  <2>1. CASE venue' = venue BY <2>1 DEF MoneyInv, MoneyEvents
  <2>2. CASE venue' # venue
    <3>1. venue.state # "filled" /\ venue'.state \notin {"none", "partially_filled"} BY <2>2, <1>1
    <3>2. QED BY <3>1, <1>1 DEF MoneyInv
  <2>3. QED BY <2>1, <2>2
<1>3. ASSUME NEW seen, Shown(seen) PROVE Shown(seen)'
  <2>1. CASE venue' = venue BY <2>1, <1>3 DEF Shown, MoneyEvents
  <2>2. CASE venue' # venue
    <3>1. venue.state \notin {"filled", "cancelled", "failed"} /\ venue'.state # "none"
      BY <2>2, <1>1
    <3>2. QED BY <3>1, <1>1, <1>3 DEF Shown
  <2>3. QED BY <2>1, <2>2
<1>4. QED BY <1>1, <1>2, <1>3

\* A request whose caller is gone.
LEMMA LateSteps ==
  ASSUME OrderInv, KindInv, ApplyLate
  PROVE  OrderInv' /\ KindInv'
<1> TypeInv /\ TokenInv /\ OwnerInv /\ RowInv /\ EffectInv /\ LateInv /\ SyncInv /\ MoneyInv
  BY DEF OrderInv
<1>0. PICK r \in late : /\ Accepts(venue, r) /\ venue' \in Applied(venue, r)
                        /\ late' = {q \in late : q.token > r.token}
  BY DEF ApplyLate
<1>1. UNCHANGED <<row, call, sync, claimed>> BY DEF ApplyLate
<1>2. r \in VenueRequests /\ r.kind # "none" /\ venue \in Venues BY DEF TypeInv, KindInv
<1>3. /\ MoneyInv' /\ \A seen : Shown(seen) => Shown(seen)'
      /\ venue' \in Venues
  BY <1>0, <1>1, <1>2, TakenKeeps
<1>4. /\ r.kind \in {"prepare", "activate", "edit", "cancel_init", "cancel_confirm"}
      /\ r.kind = "prepare" => venue' = venue
      /\ r.kind = "activate" => venue.state = "none" /\ venue'.state \in {"activating", "open"}
                                /\ venue'.price = venue.price
      /\ r.kind = "edit" => venue.state = "open" /\ venue'.state = "open" /\ venue'.price = r.want
                            /\ venue'.request = venue.request
      /\ r.kind = "cancel_init" => venue.state \in {"open", "executing", "partially_filled", "expired"}
                                   /\ venue'.state = "cancel_pending" /\ venue'.price = venue.price
      /\ r.kind = "cancel_confirm" => venue.state = "cancel_pending" /\ venue'.state = "cancelled"
                                      /\ venue'.price = venue.price
  BY <1>0, <1>2, Taken DEF MoneyInv
<1>5. late' \subseteq late BY <1>0
<1>6. TypeInv' BY <1>1, <1>3, <1>5 DEF TypeInv
<1>7. TokenInv' BY <1>1, <1>5 DEF TokenInv
<1>8. OwnerInv' BY <1>1, <1>5 DEF OwnerInv, Calling, Holds, Mine
\* Either it is the started operation's, or it changes nothing.
<1>9. \/ Spent /\ r.kind = "edit" /\ r.want = venue.price
      \/ /\ row.fact.op = "started"
         /\ r.kind = row.fact.kind \/ (r.kind = "edit" /\ r.want = venue.price)
  <2>1. CASE row.fact.op # "started" BY <2>1, <1>0 DEF EffectInv, Known, Spent
  <2>2. CASE row.fact.op = "started" BY <2>2, <1>0 DEF LateInv
  <2>3. QED BY <2>1, <2>2
<1>10. Spent => Spent' /\ r.kind = "edit" /\ venue'.price = venue.price
                /\ venue'.state = venue.state /\ venue'.request = venue.request
  BY <1>0, <1>4, <1>5 DEF Spent
<1>11. RowInv'
  <2>1. CASE r.kind = "edit" /\ r.want = venue.price
    <3>1. venue'.price = venue.price /\ venue'.state = venue.state BY <2>1, <1>4
    <3>2. venue.state # "cancel_pending" BY <2>1, <1>4
    <3>3. QED BY <3>1, <3>2, <1>1 DEF RowInv, RightId, RightPrice, RightCancel, Started
  <2>2. CASE row.fact.op = "started" /\ r.kind = row.fact.kind
    <3>1. CASE r.kind = "prepare"
      BY <3>1, <1>1, <1>4 DEF RowInv, RightId, RightPrice, RightCancel, Started
    <3>2. CASE r.kind = "activate"
      BY <2>2, <3>2, <1>1, <1>4 DEF RowInv, RightId, RightPrice, RightCancel, Started
    <3>3. CASE r.kind = "edit"
      BY <2>2, <3>3, <1>1, <1>4 DEF RowInv, RightId, RightPrice, RightCancel, Started
    <3>4. CASE r.kind = "cancel_init"
      BY <2>2, <3>4, <1>1, <1>4 DEF RowInv, RightId, RightPrice, RightCancel, Started
    <3>5. CASE r.kind = "cancel_confirm"
      BY <2>2, <3>5, <1>1, <1>4 DEF RowInv, RightId, RightPrice, RightCancel, Started
    <3>6. QED BY <1>4, <3>1, <3>2, <3>3, <3>4, <3>5
  <2>3. QED BY <1>9, <2>1, <2>2
<1>12. EffectInv'
  <2>1. (Known => Spent)' BY <1>1, <1>10 DEF EffectInv, Known
  <2> SUFFICES ASSUME NEW x \in Procs
      PROVE  (/\ Untouched(x) => RightId /\ RightPrice /\ RightCancel /\ Spent
              /\ Calling(x) /\ call[x].reply.ok => Effect(x) /\ late = {}
              /\ call[x].pc = "accepted" => call[x].reply.ok
              /\ call[x].pc \in {"read", "leased", "started"} => ~call[x].reply.ok
              /\ call[x].pc = "uncertain" /\ ~call[x].reply.ok => call[x].reply.request = 0
              /\ call[x].pc = "calling" /\ call[x].reply.ok => call[x].answered)'
    BY <2>1 DEF EffectInv
  <2>2. (Untouched(x) => RightId /\ RightPrice /\ RightCancel /\ Spent)'
    BY <1>1, <1>10 DEF EffectInv, Untouched, Mine, RightId, RightPrice, RightCancel
  <2>3. ~(Calling(x) /\ call[x].reply.ok) BY <1>0 DEF EffectInv
  <2>4. QED BY <2>2, <2>3, <1>1 DEF EffectInv, Calling
<1>13. LateInv'
  <2> SUFFICES ASSUME row.fact.op = "started" PROVE LateInv' BY <1>1 DEF LateInv
  <2>1. \A q \in late' : q.kind = "edit" \/ (q.kind = row.fact.kind /\ q.want = row.fact.want)
    BY <1>5 DEF LateInv
  <2>2. row.fact.kind # "edit" => \A q \in late' : q.kind = "edit" => q.want = venue'.price
    <3>1. row.fact.kind # "edit" => venue'.price = venue.price
      BY <1>0, <1>4 DEF LateInv
    <3>2. QED BY <3>1, <1>5 DEF LateInv
  <2>3. ASSUME row.fact.kind = "edit"
        PROVE  /\ venue'.price \in {row.price, row.fact.want}
               /\ \A q \in late' : q.kind = "edit" /\ q.want \in {row.price, row.fact.want}
               /\ \A p, q \in late' : p.want = row.fact.want /\ q.token > p.token => q.want = row.fact.want
               /\ venue'.price = row.fact.want => Spent'
    <3>1. r.kind = "edit" /\ r.want \in {row.price, row.fact.want} /\ venue'.price = r.want
      BY <2>3, <1>0, <1>4 DEF LateInv
    <3>2. \A q \in late' : q.kind = "edit" /\ q.want \in {row.price, row.fact.want}
      BY <2>3, <1>5 DEF LateInv
    <3>3. \A p, q \in late' : p.want = row.fact.want /\ q.token > p.token => q.want = row.fact.want
      BY <2>3, <1>5 DEF LateInv
    <3>4. ASSUME r.want = row.fact.want, NEW q \in late' PROVE q.want = row.fact.want
      BY <2>3, <3>4, <1>0 DEF LateInv
    <3>5. venue'.price = row.fact.want => Spent'
      BY <3>1, <3>2, <3>4 DEF Spent
    <3>6. QED BY <3>1, <3>2, <3>3, <3>5
  <2>4. ~(row.fact.unknown /\ row.fact.kind = "cancel_init" /\ row.fact.requestSeen # 0)
    BY <1>0 DEF LateInv
  <2>5. QED BY <1>1, <2>1, <2>2, <2>3, <2>4 DEF LateInv
<1>14. ASSUME row.fact.unknown, row.fact.kind = "edit", venue.price = row.fact.want
       PROVE  venue'.price = row.fact.want
  <2>1. row.fact.op = "started" BY <1>14 DEF TokenInv
  <2>2. Spent BY <2>1, <1>14 DEF LateInv
  <2>3. QED BY <2>2, <1>10, <1>14
<1>15. SyncInv'
  <2> SUFFICES ASSUME NEW s \in Syncs
      PROVE (LET copy == sync[s].copy
                 seen == sync[s].seen
             IN /\ copy.ver <= row.ver
                /\ sync[s].pc \in {"apply", "prove"} =>
                     /\ Shown(seen)
                     /\ copy.fact.unknown /\ SameFact(copy) /\ copy.fact.kind = "edit"
                          /\ seen.price = copy.fact.want => venue.price = copy.fact.want
                /\ sync[s].pc = "prove" =>
                     Proven(copy, seen) /\ TotalsAgree(seen) /\ MoneyEvents(seen) \subseteq claimed)'
    BY DEF SyncInv
  <2>1. PICK copy, seen : copy = sync[s].copy /\ seen = sync[s].seen OBVIOUS
  <2>2. Shown(seen) => Shown(seen)' BY <1>3
  <2>3. SameFact(copy)' <=> SameFact(copy) BY <1>1 DEF SameFact
  <2>4. copy.fact.unknown /\ SameFact(copy) /\ copy.fact.kind = "edit"
           /\ venue.price = copy.fact.want => venue'.price = copy.fact.want
    BY <1>14 DEF SameFact
  <2>5. QED BY <2>1, <2>2, <2>3, <2>4, <1>1 DEF SyncInv
<1>16. KindInv' BY <1>1, <1>5 DEF KindInv
<1>17. QED BY <1>3, <1>6, <1>7, <1>8, <1>11, <1>12, <1>13, <1>15, <1>16 DEF OrderInv


\* A request whose caller waits: the started operation's, the first to be applied.
LEMMA ApplySteps ==
  ASSUME OrderInv, KindInv, NEW u \in Procs, Apply(u)
  PROVE  OrderInv' /\ KindInv'
<1> TypeInv /\ TokenInv /\ OwnerInv /\ RowInv /\ EffectInv /\ LateInv /\ SyncInv /\ MoneyInv
  BY DEF OrderInv
<1> PICK c \in Calls : c = call[u] BY DEF TypeInv
<1>0. PICK r \in VenueRequests : r = Request(u) BY RequestTyped
<1>1. /\ c.pc = "calling" /\ ~c.answered /\ Accepts(venue, r) /\ venue' \in Applied(venue, r)
      /\ r.kind = c.kind /\ r.want = c.want
      /\ call' = [call EXCEPT ![u].answered = TRUE,
                    ![u].reply = [ok |-> TRUE, state |-> venue'.state, request |-> venue'.request]]
      /\ late' = {} /\ UNCHANGED <<row, sync, claimed>>
  BY <1>0 DEF Apply, Request
<1>2. r.kind # "none" /\ venue \in Venues BY <1>1 DEF TypeInv, KindInv
<1>3. /\ MoneyInv' /\ \A seen : Shown(seen) => Shown(seen)'
      /\ venue' \in Venues
  BY <1>1, <1>2, TakenKeeps
<1>4. /\ c.kind \in {"prepare", "activate", "edit", "cancel_init", "cancel_confirm"}
      /\ c.kind = "prepare" => venue' = venue
      /\ c.kind = "activate" => venue.state = "none" /\ venue'.state \in {"activating", "open"}
                                /\ venue'.price = venue.price
      /\ c.kind = "edit" => venue.state = "open" /\ venue'.state = "open" /\ venue'.price = c.want
                            /\ venue'.request = venue.request
      /\ c.kind = "cancel_init" => venue.state \in {"open", "executing", "partially_filled", "expired"}
                                   /\ venue'.state = "cancel_pending" /\ venue'.price = venue.price
                                   /\ venue'.request # 0
      /\ c.kind = "cancel_confirm" => venue.state = "cancel_pending" /\ venue'.state = "cancelled"
                                      /\ venue'.price = venue.price
  BY <1>1, <1>2, Taken DEF MoneyInv
<1>5. PICK reply \in Replies : reply = [ok |-> TRUE, state |-> venue'.state, request |-> venue'.request]
  BY <1>3 DEF Replies, Venues
<1>6. PICK d \in Calls : d = [c EXCEPT !.answered = TRUE, !.reply = reply]
  BY DEF Calls
<1>7. call' = [call EXCEPT ![u] = d] BY <1>1, <1>5, <1>6 DEF TypeInv
<1>8. /\ call' \in [Procs -> Calls] /\ call'[u] = d
      /\ \A x \in Procs : x # u => call'[x] = call[x]
  BY <1>7, CallMade
<1>9. /\ d.pc = "calling" /\ d.kind = c.kind /\ d.want = c.want /\ d.token = c.token /\ d.answered
      /\ d.reply.ok /\ d.reply.state = venue'.state /\ d.reply.request = venue'.request
  BY <1>1, <1>5, <1>6 DEF Calls, Replies
<1>10. Holds(u) /\ Mine(u) /\ Untouched(u)
  BY <1>1 DEF OwnerInv, Calling, Holds, EffectInv, Untouched
<1>11. /\ row.fact.op = "started" /\ ~row.fact.unknown
       /\ row.fact.kind = c.kind /\ row.fact.want = c.want
       /\ RightId /\ RightPrice /\ RightCancel
  BY <1>10 DEF Holds, EffectInv
<1>12. \A x \in Procs : Mine(x) => x = u BY <1>10 DEF Mine, TokenInv
<1>13. TypeInv' BY <1>1, <1>3, <1>8 DEF TypeInv
<1>14. TokenInv' BY <1>1, <1>8, <1>9 DEF TokenInv
<1>15. OwnerInv'
  <2> SUFFICES ASSUME NEW x \in Procs
      PROVE (/\ Calling(x) => Holds(x)
             /\ call[x].pc = "leased" /\ Mine(x) =>
                  /\ row.fact.op = "reserved"
                  /\ row.fact.kind = call[x].kind /\ row.fact.want = call[x].want
             /\ call[x].pc = "certain" /\ Mine(x) => row.fact.op = "reserved" \/ Holds(x)
             /\ Mine(x) => \A q \in late : q.token < call[x].token \/ call[x].pc = "uncertain")'
    BY DEF OwnerInv
  <2>1. CASE x # u
    <3>1. call'[x] = call[x] BY <2>1, <1>8
    <3>2. QED BY <3>1, <1>1 DEF OwnerInv, Calling, Holds, Mine
  <2>2. CASE x = u BY <2>2, <1>1, <1>8, <1>9, <1>10 DEF Calling, Holds, Mine
  <2>3. QED BY <2>1, <2>2
<1>16. RowInv'
  <2>1. CASE c.kind = "prepare"
    BY <2>1, <1>1, <1>4 DEF RowInv, RightId, RightPrice, RightCancel, Started
  <2>2. CASE c.kind = "activate"
    BY <2>2, <1>1, <1>4, <1>11 DEF RowInv, RightId, RightPrice, RightCancel, Started
  <2>3. CASE c.kind = "edit"
    BY <2>3, <1>1, <1>4, <1>11 DEF RowInv, RightId, RightPrice, RightCancel, Started
  <2>4. CASE c.kind = "cancel_init"
    BY <2>4, <1>1, <1>4, <1>11 DEF RowInv, RightId, RightPrice, RightCancel, Started
  <2>5. CASE c.kind = "cancel_confirm"
    BY <2>5, <1>1, <1>4, <1>11 DEF RowInv, RightId, RightPrice, RightCancel, Started
  <2>6. QED BY <1>4, <2>1, <2>2, <2>3, <2>4, <2>5
<1>17. EffectInv'
  <2>1. (Known => Spent)' BY <1>1, <1>11 DEF Known
  <2> SUFFICES ASSUME NEW x \in Procs
      PROVE  (/\ Untouched(x) => RightId /\ RightPrice /\ RightCancel /\ Spent
              /\ Calling(x) /\ call[x].reply.ok => Effect(x) /\ late = {}
              /\ call[x].pc = "accepted" => call[x].reply.ok
              /\ call[x].pc \in {"read", "leased", "started"} => ~call[x].reply.ok
              /\ call[x].pc = "uncertain" /\ ~call[x].reply.ok => call[x].reply.request = 0
              /\ call[x].pc = "calling" /\ call[x].reply.ok => call[x].answered)'
    BY <2>1 DEF EffectInv
  <2>2. CASE x # u
    <3>1. call'[x] = call[x] /\ ~Mine(x) BY <2>2, <1>8, <1>12
    <3>2. ~Calling(x) BY <3>1 DEF OwnerInv, Holds
    <3>3. ~Calling(x)' /\ ~Untouched(x)'
      BY <3>1, <3>2, <1>1 DEF Calling, Untouched, Mine
    <3>4. QED BY <3>1, <3>3, <1>1 DEF EffectInv
  <2>3. CASE x = u
    <3>1. Effect(u)'
      <4>1. c.kind = "activate" => venue'.state # "none" /\ d.reply.state \in {"activating", "open"}
        BY <1>4, <1>9
      <4>2. c.kind = "edit" => venue'.price = c.want BY <1>4
      <4>3. c.kind = "cancel_init" => venue'.request = d.reply.request /\ d.reply.request # 0
        BY <1>4, <1>9
      <4>4. c.kind = "cancel_confirm" => venue'.state # "cancel_pending" BY <1>4
      <4>5. QED BY <4>1, <4>2, <4>3, <4>4, <1>8, <1>9 DEF Effect
    <3>2. ~Untouched(u)' BY <1>8, <1>9 DEF Untouched
    <3>3. QED BY <2>3, <3>1, <3>2, <1>1, <1>8, <1>9
  <2>4. QED BY <2>2, <2>3
<1>18. LateInv' BY <1>1, <1>4, <1>11 DEF LateInv, Spent, RightPrice
<1>19. SyncInv'
  <2> SUFFICES ASSUME NEW s \in Syncs
      PROVE (LET copy == sync[s].copy
                 seen == sync[s].seen
             IN /\ copy.ver <= row.ver
                /\ sync[s].pc \in {"apply", "prove"} =>
                     /\ Shown(seen)
                     /\ copy.fact.unknown /\ SameFact(copy) /\ copy.fact.kind = "edit"
                          /\ seen.price = copy.fact.want => venue.price = copy.fact.want
                /\ sync[s].pc = "prove" =>
                     Proven(copy, seen) /\ TotalsAgree(seen) /\ MoneyEvents(seen) \subseteq claimed)'
    BY DEF SyncInv
  <2>1. PICK copy, seen : copy = sync[s].copy /\ seen = sync[s].seen OBVIOUS
  <2>2. Shown(seen) => Shown(seen)' BY <1>3
  <2>3. ~(copy.fact.unknown /\ SameFact(copy)') BY <1>1, <1>11 DEF SameFact
  <2>4. QED BY <2>1, <2>2, <2>3, <1>1 DEF SyncInv
<1>20. KindInv' BY <1>1, <1>8, <1>9 DEF KindInv
<1>21. QED BY <1>3, <1>13, <1>14, <1>15, <1>16, <1>17, <1>18, <1>19, <1>20 DEF OrderInv


(***************************************************************************)
(* Steps of the syncs, and of a lease's end.                               *)
(***************************************************************************)
\* What holds of one sync.
SyncTrue(y) ==
  /\ y.copy.ver <= row.ver
  /\ y.pc \in {"apply", "prove"} =>
       /\ Shown(y.seen)
       /\ y.copy.fact.unknown /\ SameFact(y.copy) /\ y.copy.fact.kind = "edit"
            /\ y.seen.price = y.copy.fact.want => venue.price = y.copy.fact.want
  /\ y.pc = "prove" =>
       Proven(y.copy, y.seen) /\ TotalsAgree(y.seen) /\ MoneyEvents(y.seen) \subseteq claimed

\* The invariant of the syncs, one at a time.
LEMMA SyncsTrue == SyncInv <=> \A s \in Syncs : SyncTrue(sync[s])
BY DEF SyncInv, SyncTrue

\* Only a sync moves.
LEMMA SyncMoves ==
  ASSUME OrderInv, KindInv, NEW s \in Syncs, NEW d \in SyncStates, SyncTrue(d),
         sync' = [sync EXCEPT ![s] = d], UNCHANGED <<row, venue, late, call, claimed>>
  PROVE  OrderInv' /\ KindInv'
<1> TypeInv /\ TokenInv /\ OwnerInv /\ RowInv /\ EffectInv /\ LateInv /\ SyncInv /\ MoneyInv
  BY DEF OrderInv
<1>1. /\ sync' \in [Syncs -> SyncStates] /\ sync'[s] = d
      /\ \A x \in Syncs : x # s => sync'[x] = sync[x]
  BY SyncMade
<1>2. \A x \in Syncs : SyncTrue(sync'[x])
  BY <1>1, SyncsTrue
<1>3. \A x \in Syncs : SyncTrue(sync[x])'
  BY <1>2 DEF SyncTrue, Shown, SameFact
<1>4. SyncInv'
  <2>1. SyncInv' <=> \A x \in Syncs : SyncTrue(sync[x])'
    BY DEF SyncInv, SyncTrue
  <2>2. QED BY <1>3, <2>1
<1>5. TypeInv' BY <1>1 DEF TypeInv
<1>6. TokenInv' /\ KindInv' BY DEF TokenInv, KindInv
<1>7. OwnerInv' BY DEF OwnerInv, Calling, Holds, Mine
<1>8. RowInv' BY DEF RowInv, RightId, RightPrice, RightCancel, Started
<1>9. EffectInv'
  BY DEF EffectInv, Known, Spent, Untouched, Mine, Calling, Effect, RightId, RightPrice, RightCancel
<1>10. LateInv' BY DEF LateInv, Spent
<1>11. MoneyInv' BY DEF MoneyInv, MoneyEvents
<1>12. QED BY <1>4, <1>5, <1>6, <1>7, <1>8, <1>9, <1>10, <1>11 DEF OrderInv

\* A sync reads the rows, reads the history, or ends.
LEMMA SyncReads ==
  ASSUME OrderInv, KindInv, NEW s \in Syncs, SyncRows(s) \/ SyncHistory(s) \/ SyncEnds(s)
  PROVE  OrderInv' /\ KindInv'
<1> TypeInv /\ SyncInv /\ MoneyInv BY DEF OrderInv
<1> row \in Rows /\ venue \in Venues BY DEF TypeInv
<1> PICK y \in SyncStates : y = sync[s] BY DEF TypeInv
<1>0. /\ Asleep \in SyncStates /\ Asleep.pc = "idle" /\ Asleep.copy = Kept(NoOrder)
      /\ NoOrder.fact = NoOp /\ ~NoOp.unknown
  BY Blanks DEF Asleep, NoOrder, NoOp
<1>1. CASE SyncRows(s)
  <2>1. PICK d : d = [Asleep EXCEPT !.pc = "rows", !.copy = Kept(row)] OBVIOUS
  <2>2. d \in SyncStates BY <2>1, Blanks, KeptTyped DEF SyncStates
  <2>3. d.pc = "rows" /\ d.copy = Kept(row) BY <2>1, <1>0 DEF SyncStates
  <2>4. d.copy.ver <= row.ver BY <2>3 DEF Kept, Rows
  <2>5. SyncTrue(d) BY <2>3, <2>4 DEF SyncTrue
  <2>6. sync' = [sync EXCEPT ![s] = d] /\ UNCHANGED <<row, venue, late, call, claimed>>
    BY <1>1, <2>1 DEF SyncRows
  <2>7. QED BY <2>2, <2>5, <2>6, SyncMoves
<1>2. CASE SyncHistory(s)
  <2>1. PICK d : d = [y EXCEPT !.pc = "apply", !.seen = venue] OBVIOUS
  <2>2. d \in SyncStates BY <2>1 DEF SyncStates
  <2>3. d.pc = "apply" /\ d.copy = y.copy /\ d.seen = venue BY <2>1 DEF SyncStates
  <2>4. Shown(venue) BY <1>2 DEF SyncHistory, Shown, MoneyInv
  <2>5. y.copy.ver <= row.ver BY DEF SyncInv
  <2>6. SyncTrue(d) BY <2>3, <2>4, <2>5 DEF SyncTrue
  <2>7. sync' = [sync EXCEPT ![s] = d] /\ UNCHANGED <<row, venue, late, call, claimed>>
    BY <1>2, <2>1 DEF SyncHistory, TypeInv
  <2>8. QED BY <2>2, <2>6, <2>7, SyncMoves
<1>3. CASE SyncEnds(s)
  <2>1. Asleep.copy.ver <= row.ver BY <1>0 DEF Kept, Rows
  <2>2. SyncTrue(Asleep) BY <1>0, <2>1 DEF SyncTrue
  <2>3. sync' = [sync EXCEPT ![s] = Asleep] /\ UNCHANGED <<row, venue, late, call, claimed>>
    BY <1>3 DEF SyncEnds
  <2>4. QED BY <1>0, <2>2, <2>3, SyncMoves
<1>4. QED BY <1>1, <1>2, <1>3

\* The lease lapses; the operation stays where it was.
LEMMA LapseSteps ==
  ASSUME OrderInv, KindInv, Lapse
  PROVE  OrderInv' /\ KindInv'
<1> TypeInv /\ TokenInv /\ OwnerInv /\ RowInv /\ EffectInv /\ LateInv /\ SyncInv /\ MoneyInv
  BY DEF OrderInv
<1> row \in Rows /\ row.fact \in Facts BY DEF TypeInv, Rows
<1> PICK f : f = [row.fact EXCEPT !.live = FALSE] OBVIOUS
<1>1. /\ f \in Facts /\ f.op = row.fact.op /\ f.kind = row.fact.kind /\ f.want = row.fact.want
      /\ f.token = row.fact.token /\ f.unknown = row.fact.unknown
      /\ f.requestSeen = row.fact.requestSeen
  BY DEF Facts
<1>2. row' = [row EXCEPT !.fact = f] /\ row.fact.live
      /\ UNCHANGED <<venue, late, call, sync, claimed>>
  BY DEF Lapse, Rows
<1>3. /\ row' \in Rows /\ row'.fact = f /\ row'.state = row.state /\ row'.known = row.known
      /\ row'.price = row.price /\ row'.request = row.request /\ row'.tx = row.tx
      /\ row'.ver = row.ver
  BY <1>1, <1>2 DEF Rows
<1>4. ~row.fact.unknown /\ ~row'.fact.unknown BY <1>1, <1>2, <1>3 DEF TokenInv
<1>18. UNCHANGED <<venue, late, call, sync, claimed>> BY <1>2
<1>19. /\ row'.fact.op = row.fact.op /\ row'.fact.kind = row.fact.kind
       /\ row'.fact.want = row.fact.want /\ row'.fact.token = row.fact.token
       /\ row'.fact.unknown = row.fact.unknown /\ row'.fact.requestSeen = row.fact.requestSeen
       /\ row'.state = row.state /\ row'.known = row.known
       /\ row'.price = row.price /\ row'.request = row.request /\ row'.tx = row.tx
       /\ row'.ver = row.ver
  BY <1>1, <1>3
<1>5. TypeInv' BY <1>2, <1>3 DEF TypeInv
<1>6. TokenInv' BY <1>18, <1>19, <1>4 DEF TokenInv
<1>7. \A x \in Procs : (Mine(x)' <=> Mine(x)) /\ (Holds(x)' <=> Holds(x))
  BY <1>18, <1>19 DEF Mine, Holds
<1>8. OwnerInv' BY <1>18, <1>19, <1>7 DEF OwnerInv, Calling
<1>9. RowInv' BY <1>18, <1>19 DEF RowInv, RightId, RightPrice, RightCancel, Started
<1>10. EffectInv'
  BY <1>18, <1>19, <1>7 DEF EffectInv, Known, Spent, Untouched, Calling, Effect, RightId,
     RightPrice, RightCancel
<1>11. LateInv' BY <1>18, <1>19 DEF LateInv, Spent
<1>12. \A y : ~(y.copy.fact.unknown /\ SameFact(y.copy)') BY <1>4 DEF SameFact
<1>13. \A s \in Syncs : SyncTrue(sync[s]) => SyncTrue(sync[s])'
  BY <1>18, <1>19, <1>12 DEF SyncTrue, Shown
<1>14. SyncInv' 
  <2>1. SyncInv' <=> \A x \in Syncs : SyncTrue(sync[x])' BY DEF SyncInv, SyncTrue
  <2>2. QED BY <1>13, <2>1, SyncsTrue
<1>15. MoneyInv' BY <1>18, <1>19 DEF MoneyInv, MoneyEvents
<1>16. KindInv' BY <1>2 DEF KindInv
<1>17. QED BY <1>5, <1>6, <1>8, <1>9, <1>10, <1>11, <1>14, <1>15, <1>16 DEF OrderInv


\* An order shown filled, its money agreeing, is the order there is.
LEMMA ShownFilled ==
  ASSUME NEW seen, Shown(seen), TotalsAgree(seen), seen.state = "filled"
  PROVE  venue.state = "filled" /\ venue.returned /\ MoneyEvents(seen) = MoneyEvents(venue)
<1>1. <<"withdrawal", 0>> \in MoneyEvents(seen) BY DEF TotalsAgree, Closed
<1>2. seen.returned
  <2>1. \A i : <<"withdrawal", 0>> # <<"fill", i>> OBVIOUS
  <2>2. <<"withdrawal", 0>> # <<"deposit", 0>> OBVIOUS
  <2>3. QED BY <1>1, <2>1, <2>2 DEF MoneyEvents
<1>3. venue.state = "filled" /\ venue.returned /\ venue.used = seen.used
  BY <1>2 DEF Shown
<1>4. seen.landed /\ venue.landed
  <2>1. /\ \A i : <<"deposit", 0>> # <<"fill", i>>
        /\ <<"deposit", 0>> # <<"withdrawal", 0>>
    OBVIOUS
  <2>2. \A v : <<"deposit", 0>> \in MoneyEvents(v) => v.landed BY <2>1 DEF MoneyEvents
  <2>3. QED BY <2>2 DEF TotalsAgree, Shown
<1>5. QED BY <1>2, <1>3, <1>4 DEF MoneyEvents

\* A partial fill, its money agreeing, shows its deposit and its first fill.
LEMMA ShownPartly ==
  ASSUME NEW seen \in Venues, Shown(seen), TotalsAgree(seen), seen.state = "partially_filled"
  PROVE  {<<"deposit", 0>>, <<"fill", 1>>} \subseteq MoneyEvents(seen)
<1>1. seen.used \in Nat /\ seen.used >= 1 BY DEF Shown, Venues
<1>2. 1 \in 1 .. seen.used BY <1>1
<1>3. <<"fill", 1>> \in MoneyEvents(seen) BY <1>2 DEF MoneyEvents
<1>4. <<"deposit", 0>> \in MoneyEvents(seen) BY DEF TotalsAgree
<1>5. QED BY <1>3, <1>4

\* A sync writes what the history shows and claims its money.
LEMMA SyncApplySteps ==
  ASSUME OrderInv, KindInv, NEW s \in Syncs, SyncApply(s)
  PROVE  OrderInv' /\ KindInv'
<1> TypeInv /\ TokenInv /\ OwnerInv /\ RowInv /\ EffectInv /\ LateInv /\ SyncInv /\ MoneyInv
  BY DEF OrderInv
<1> row \in Rows /\ venue \in Venues BY DEF TypeInv
<1> PICK y \in SyncStates : y = sync[s] BY DEF TypeInv
<1>1. /\ y.pc = "apply" /\ TotalsAgree(y.seen) /\ claimed' = claimed \union MoneyEvents(y.seen)
      /\ UNCHANGED <<venue, late, call>>
  BY DEF SyncApply
<1>2. SyncTrue(y) /\ y.seen \in Venues BY SyncsTrue DEF SyncStates
<1>3. Shown(y.seen) BY <1>1, <1>2 DEF SyncTrue
<1>4. PICK t \in States, n \in Nat : t = y.seen.state /\ n = y.seen.at BY <1>2 DEF Venues
<1>5. \/ row' = row
      \/ /\ row.state \in PreviousStates(t)
         /\ row' = [row EXCEPT !.state = t, !.known = TRUE, !.at = n]
  BY <1>4 DEF SyncApply
<1>6. row' \in Rows /\ row'.fact = row.fact /\ row'.ver = row.ver /\ row'.price = row.price
      /\ row'.request = row.request /\ row'.tx = row.tx
  <2>1. n \in Int OBVIOUS
  <2>2. QED BY <1>5, <2>1 DEF Rows
<1>7. \/ row'.state = row.state /\ row'.known = row.known
      \/ row.state \in PreviousStates(t) /\ row'.state = t /\ row'.known
  BY <1>5 DEF Rows
<1>8. TypeInv /\ UNCHANGED <<venue, late, call>> BY <1>1
<1>9. PICK d \in SyncStates : /\ sync' = [sync EXCEPT ![s] = d] /\ d.copy.ver <= row.ver
                              /\ \/ d.pc = "idle"
                                 \/ /\ d.pc = "prove" /\ d.copy = y.copy /\ d.seen = y.seen
                                    /\ Proven(y.copy, y.seen)
  <2>1. CASE Proven(y.copy, y.seen)
    <3>1. PICK d : d = [y EXCEPT !.pc = "prove"] OBVIOUS
    <3>2. d \in SyncStates /\ d.pc = "prove" /\ d.copy = y.copy /\ d.seen = y.seen
      BY <3>1 DEF SyncStates
    <3>3. sync' = [sync EXCEPT ![s] = d] BY <2>1, <3>1 DEF SyncApply, TypeInv
    <3>4. QED BY <2>1, <3>2, <3>3, <1>2 DEF SyncTrue
  <2>2. CASE ~Proven(y.copy, y.seen)
    <3>1. sync' = [sync EXCEPT ![s] = Asleep] BY <2>2 DEF SyncApply
    <3>2. Asleep \in SyncStates /\ Asleep.pc = "idle" BY Blanks DEF Asleep
    <3>3. Asleep.copy.ver <= row.ver BY DEF Asleep, Kept, NoOrder, NoOp, Rows
    <3>4. QED BY <3>1, <3>2, <3>3
  <2>3. QED BY <2>1, <2>2
<1>10. /\ sync' \in [Syncs -> SyncStates] /\ sync'[s] = d
       /\ \A x \in Syncs : x # s => sync'[x] = sync[x]
  BY <1>9, SyncMade
<1>11. TypeInv' BY <1>1, <1>6, <1>10 DEF TypeInv
<1>12. TokenInv' BY <1>1, <1>6 DEF TokenInv
<1>13. OwnerInv' BY <1>1, <1>6 DEF OwnerInv, Calling, Holds, Mine
\* A cancellation the row awaits stays: the venue has shown nothing before it.
<1>14. RightCancel => RightCancel'
  <2> SUFFICES ASSUME venue.state = "cancel_pending", RightCancel
               PROVE  row'.state = "cancel_pending"
    BY <1>1, <1>6 DEF RightCancel
  <2>1. row.state = "cancel_pending" BY DEF RightCancel
  <2>2. y.seen.state \notin {"cancelled", "failed"} BY <1>3 DEF Shown
  <2>3. row.state \in PreviousStates(t) => t = "cancel_pending"
    BY <1>4, <2>1, <2>2 DEF PreviousStates
  <2>4. QED BY <2>1, <2>3, <1>7
<1>15. venue.state # "none" /\ (RightId => RightId')
  BY <1>1, <1>3, <1>7 DEF Shown, RightId, Rows
<1>16. RowInv'
  <2>1. row'.known => venue'.state # "none" BY <1>1, <1>15
  <2>2. (RightId \/ Started("activate"))' BY <1>6, <1>15 DEF RowInv, Started
  <2>3. (RightPrice \/ Started("edit"))' BY <1>1, <1>6 DEF RowInv, Started, RightPrice
  <2>4. (RightCancel \/ Started("cancel_init"))' BY <1>6, <1>14 DEF RowInv, Started
  <2>5. row'.state = "none" => row'.fact.op = "none"
    BY <1>3, <1>4, <1>6, <1>7 DEF RowInv, Shown
  <2>6. QED BY <1>1, <1>6, <2>1, <2>2, <2>3, <2>4, <2>5 DEF RowInv
<1>17. EffectInv'
  <2>1. (Known => Spent)' BY <1>1, <1>6 DEF EffectInv, Known, Spent
  <2> SUFFICES ASSUME NEW x \in Procs
      PROVE  (/\ Untouched(x) => RightId /\ RightPrice /\ RightCancel /\ Spent
              /\ Calling(x) /\ call[x].reply.ok => Effect(x) /\ late = {}
              /\ call[x].pc = "accepted" => call[x].reply.ok
              /\ call[x].pc \in {"read", "leased", "started"} => ~call[x].reply.ok
              /\ call[x].pc = "uncertain" /\ ~call[x].reply.ok => call[x].reply.request = 0
              /\ call[x].pc = "calling" /\ call[x].reply.ok => call[x].answered)'
    BY <2>1 DEF EffectInv
  <2>2. Untouched(x)' => Untouched(x) BY <1>1, <1>6 DEF Untouched, Mine
  <2>3. Untouched(x)' => (RightId /\ RightPrice /\ RightCancel /\ Spent)'
    BY <2>2, <1>1, <1>6, <1>14, <1>15 DEF EffectInv, RightPrice, Spent
  <2>4. (Calling(x) /\ call[x].reply.ok => Effect(x) /\ late = {})'
    BY <1>1 DEF EffectInv, Calling, Effect
  <2>5. QED BY <2>3, <2>4, <1>1 DEF EffectInv
<1>18. LateInv' BY <1>1, <1>6 DEF LateInv, Spent
<1>19. SyncInv'
  <2>1. SyncInv' <=> \A x \in Syncs : SyncTrue(sync[x])' BY DEF SyncInv, SyncTrue
  <2>2. ASSUME NEW x \in Syncs, x # s PROVE SyncTrue(sync[x])'
    <3>1. SyncTrue(sync[x]) /\ sync'[x] = sync[x] BY <2>2, <1>10, SyncsTrue
    <3>2. QED BY <3>1, <1>1, <1>6 DEF SyncTrue, Shown, SameFact
  <2>3. SyncTrue(sync[s])'
    <3>1. CASE d.pc = "idle" BY <3>1, <1>6, <1>9, <1>10 DEF SyncTrue
    <3>2. CASE d.pc = "prove"
      <4>1. d.copy = y.copy /\ d.seen = y.seen /\ Proven(y.copy, y.seen) BY <3>2, <1>9
      <4>2. MoneyEvents(y.seen) \subseteq claimed' BY <1>1
      <4>3. y.copy.fact.unknown /\ SameFact(y.copy)' /\ y.copy.fact.kind = "edit"
              /\ y.seen.price = y.copy.fact.want => venue'.price = y.copy.fact.want
        BY <1>1, <1>2, <1>6 DEF SyncTrue, SameFact
      <4>4. Shown(y.seen)' BY <1>1, <1>3 DEF Shown
      <4>5. QED BY <4>1, <4>2, <4>3, <4>4, <1>1, <1>2, <1>6, <1>10 DEF SyncTrue
    <3>3. QED BY <1>9, <3>1, <3>2
  <2>4. QED BY <2>1, <2>2, <2>3
<1>20. MoneyInv'
  <2>1. claimed' \subseteq MoneyEvents(venue') BY <1>1, <1>3 DEF MoneyInv, Shown
  <2>2. ASSUME row'.state = "filled"
        PROVE  venue.state = "filled" /\ venue.returned /\ claimed' = MoneyEvents(venue)
    <3>1. CASE row.state = "filled"
      BY <3>1, <1>1, <1>3 DEF MoneyInv, Shown
    <3>2. CASE row.state # "filled"
      <4>1. y.seen.state = "filled" BY <2>2, <3>2, <1>4, <1>7
      <4>2. QED BY <4>1, <1>1, <1>3, ShownFilled DEF MoneyInv
    <3>3. QED BY <3>1, <3>2
  <2>3. ASSUME row'.state = "partially_filled"
        PROVE  {<<"deposit", 0>>, <<"fill", 1>>} \subseteq claimed'
    <3>1. CASE row.state = "partially_filled" BY <3>1, <1>1 DEF MoneyInv
    <3>2. CASE row.state # "partially_filled"
      <4>1. y.seen.state = "partially_filled" BY <2>3, <3>2, <1>4, <1>7
      <4>2. QED BY <4>1, <1>1, <1>2, <1>3, ShownPartly
    <3>3. QED BY <3>1, <3>2
  <2>4. QED BY <1>1, <2>1, <2>2, <2>3 DEF MoneyInv
<1>21. KindInv' BY <1>1 DEF KindInv
<1>22. QED BY <1>11, <1>12, <1>13, <1>16, <1>17, <1>18, <1>19, <1>20, <1>21 DEF OrderInv


\* A proof ends the unknown operation it was made from, and only if it is the
\* row's still.
LEMMA SyncProveSteps ==
  ASSUME OrderInv, KindInv, NEW s \in Syncs, SyncProve(s)
  PROVE  OrderInv' /\ KindInv'
<1> TypeInv /\ TokenInv /\ OwnerInv /\ RowInv /\ EffectInv /\ LateInv /\ SyncInv /\ MoneyInv
  BY DEF OrderInv
<1> row \in Rows /\ venue \in Venues BY DEF TypeInv
<1> PICK y \in SyncStates : y = sync[s] BY DEF TypeInv
<1>1. y.pc = "prove" /\ UNCHANGED <<venue, late, call, claimed>> /\ sync' = [sync EXCEPT ![s] = Asleep]
  BY DEF SyncProve
<1>2. SyncTrue(y) /\ y.seen \in Venues /\ y.copy \in Copies BY SyncsTrue DEF SyncStates
<1>3. /\ Shown(y.seen) /\ Proven(y.copy, y.seen) /\ TotalsAgree(y.seen)
      /\ MoneyEvents(y.seen) \subseteq claimed
  BY <1>1, <1>2 DEF SyncTrue
<1>4. /\ Asleep \in SyncStates /\ Asleep.pc = "idle" /\ Asleep.copy = Kept(NoOrder)
      /\ NoOrder.fact = NoOp /\ ~NoOp.unknown
  BY Blanks DEF Asleep, NoOrder, NoOp
<1>5. SyncTrue(Asleep) BY <1>4 DEF SyncTrue, Kept, Rows
<1>6. CASE ~SameFact(y.copy)
  <2>1. row' = row BY <1>6 DEF SyncProve
  <2>2. QED BY <1>1, <1>4, <1>5, <2>1, SyncMoves
<1>7. CASE SameFact(y.copy)
  <2>1. PICK p : p = IF y.copy.fact.kind = "edit" THEN y.copy.fact.want ELSE row.price OBVIOUS
  <2>2. p \in Wants BY <2>1, <1>2 DEF Copies, Facts, Rows
  <2>3. PICK t \in States : t = y.seen.state BY <1>2 DEF Venues
  <2>4. row' = [row EXCEPT !.state = t, !.known = TRUE, !.fact = NoOp, !.price = p]
    BY <1>7, <2>1, <2>3 DEF SyncProve
  <2>5. /\ row' \in Rows /\ row'.state = t /\ row'.known /\ row'.fact = NoOp /\ row'.price = p
        /\ row'.ver = row.ver /\ row'.request = row.request /\ row'.tx = row.tx
    BY <2>2, <2>4, Blanks DEF Rows
  <2>6. row'.fact.op = "none" /\ row'.fact.token = 0 /\ ~row'.fact.unknown
    BY <2>5 DEF NoOp
  <2>7. /\ row.fact = y.copy.fact /\ row.fact.unknown /\ row.fact.op = "started"
        /\ row.fact.token = 0
    BY <1>3, <1>7 DEF SameFact, Proven, TokenInv
  <2>8. \A x \in Procs : ~Calling(x) /\ ~Mine(x)' /\ ~Untouched(x)'
    <3> SUFFICES ASSUME NEW x \in Procs PROVE ~Calling(x) /\ ~Mine(x)' /\ ~Untouched(x)'
      OBVIOUS
    <3>1. ~Calling(x) BY <2>7 DEF OwnerInv, Holds
    <3>2. ~Mine(x)' BY <2>6 DEF Mine
    <3>3. ~Untouched(x)' BY <3>1, <3>2, <1>1 DEF Untouched, Calling
    <3>4. QED BY <3>1, <3>2, <3>3
  <2>9. venue.state # "none" BY <1>3 DEF Shown
  <2>10. /\ p = venue.price /\ Spent
         /\ venue.state = "cancel_pending" => t = "cancel_pending" /\ row.request = venue.request /\ row.tx
    <3>1. CASE row.fact.kind = "edit"
      <4>1. p = row.fact.want /\ y.seen.price = y.copy.fact.want
        BY <3>1, <2>1, <2>7, <1>3 DEF Proven
      <4>2. venue.price = row.fact.want BY <4>1, <3>1, <2>7, <1>1, <1>2, <1>7 DEF SyncTrue
      <4>3. Spent BY <4>2, <3>1, <2>7 DEF LateInv
      <4>4. venue.state # "cancel_pending" BY <3>1, <2>7 DEF RowInv
      <4>5. QED BY <4>1, <4>2, <4>3, <4>4
    <3>2. CASE row.fact.kind # "edit"
      <4>1. /\ row.fact.kind = "cancel_init" /\ t = "cancel_pending"
            /\ row.fact.requestSeen # 0
        BY <3>2, <2>3, <2>7, <1>3 DEF Proven
      <4>2. venue.request = row.fact.requestSeen /\ row.request = venue.request /\ row.tx /\ late = {}
        BY <4>1, <2>7 DEF LateInv
      <4>3. p = venue.price BY <3>2, <2>1, <2>7 DEF RowInv, RightPrice, Started
      <4>4. QED BY <4>1, <4>2, <4>3 DEF Spent
    <3>3. QED BY <3>1, <3>2
  <2>11. /\ sync' \in [Syncs -> SyncStates] /\ sync'[s] = Asleep
         /\ \A x \in Syncs : x # s => sync'[x] = sync[x]
    BY <1>1, <1>4, SyncMade
  <2>12. TypeInv' BY <1>1, <2>5, <2>11 DEF TypeInv
  <2>13. TokenInv' BY <1>1, <2>5, <2>6 DEF TokenInv, Rows
  <2>14. OwnerInv' BY <1>1, <2>8 DEF OwnerInv, Calling
  <2>15. (RightId /\ RightPrice /\ RightCancel)'
    <3>1. RightId' BY <1>1, <2>5, <2>9 DEF RightId, Rows
    <3>2. RightPrice' BY <1>1, <2>5, <2>10 DEF RightPrice
    <3>3. RightCancel' BY <1>1, <2>5, <2>10 DEF RightCancel
    <3>4. QED BY <3>1, <3>2, <3>3
  <2>16. RowInv' BY <1>1, <2>6, <2>9, <2>15 DEF RowInv
  <2>17. EffectInv'
    <3>1. Spent' BY <1>1, <2>10 DEF Spent
    <3>2. \A x \in Procs : ~Calling(x)' BY <1>1, <2>8 DEF Calling
    <3>3. \A x \in Procs : /\ call[x].pc = "accepted" => call[x].reply.ok
                           /\ call[x].pc \in {"read", "leased", "started"} => ~call[x].reply.ok
                           /\ call[x].pc = "uncertain" /\ ~call[x].reply.ok => call[x].reply.request = 0
                           /\ call[x].pc = "calling" /\ call[x].reply.ok => call[x].answered
      BY DEF EffectInv
    <3>4. QED BY <1>1, <2>8, <3>1, <3>2, <3>3 DEF EffectInv
  <2>18. LateInv' BY <2>6 DEF LateInv
  <2>19. SyncInv'
    <3>1. SyncInv' <=> \A x \in Syncs : SyncTrue(sync[x])' BY DEF SyncInv, SyncTrue
    <3>2. ASSUME NEW x \in Syncs, x # s PROVE SyncTrue(sync[x])'
      <4>1. SyncTrue(sync[x]) /\ sync'[x] = sync[x] BY <3>2, <2>11, SyncsTrue
      <4>2. \A z : ~(z.copy.fact.unknown /\ SameFact(z.copy)') BY <2>6 DEF SameFact
      <4>3. QED BY <4>1, <4>2, <1>1, <2>5 DEF SyncTrue, Shown
    <3>3. SyncTrue(sync[s])' BY <1>4, <1>5, <2>5, <2>11 DEF SyncTrue
    <3>4. QED BY <3>1, <3>2, <3>3
  <2>20. MoneyInv'
    <3>1. t = "filled" => venue.state = "filled" /\ venue.returned /\ claimed = MoneyEvents(venue)
      BY <2>3, <1>3, ShownFilled DEF MoneyInv
    <3>2. t = "partially_filled" => {<<"deposit", 0>>, <<"fill", 1>>} \subseteq claimed
      BY <2>3, <1>2, <1>3, ShownPartly
    <3>3. QED BY <1>1, <2>5, <3>1, <3>2 DEF MoneyInv, MoneyEvents
  <2>21. KindInv' BY <1>1 DEF KindInv
  <2>22. QED BY <2>12, <2>13, <2>14, <2>16, <2>17, <2>18, <2>19, <2>20, <2>21 DEF OrderInv
<1>8. QED BY <1>6, <1>7


(***************************************************************************)
(* Steps of the owner's calls that change the row.                         *)
(***************************************************************************)
\* A lease taken over a row that carries no started operation.
LEMMA Leases ==
  ASSUME OrderInv, KindInv, NEW u \in Procs, NEW d \in Calls, row' \in Rows,
         NEW k, NEW w, k # "none", Known, call[u].pc \in {"idle", "read"},
         call' = [call EXCEPT ![u] = d], UNCHANGED <<venue, late, sync, claimed>>,
         d.pc = "leased" /\ d.kind = k /\ d.want = w /\ d.token = row.ver + 1 /\ ~d.reply.ok,
         row'.known = row.known /\ row'.price = row.price /\ row'.request = row.request
           /\ row'.tx = row.tx /\ row'.ver = row.ver + 1,
         row'.state # "none", row'.state \in {"filled", "partially_filled"} => row'.state = row.state,
         row.state = "cancel_pending" => row'.state = "cancel_pending" /\ k \notin {"prepare", "activate", "edit"},
         row'.fact.op = "reserved" /\ row'.fact.kind = k /\ row'.fact.want = w
           /\ row'.fact.token = row.ver + 1 /\ ~row'.fact.unknown
  PROVE  OrderInv' /\ KindInv'
<1> TypeInv /\ TokenInv /\ OwnerInv /\ RowInv /\ EffectInv /\ LateInv /\ SyncInv /\ MoneyInv
  BY DEF OrderInv
<1> row.ver \in Nat /\ venue \in Venues BY DEF TypeInv, Rows
<1>1. /\ call' \in [Procs -> Calls] /\ call'[u] = d
      /\ \A x \in Procs : x # u => call'[x] = call[x]
  BY CallMade
<1>2. TypeInv' BY <1>1 DEF TypeInv
<1>3. \A x \in Procs : call[x].token \in Nat /\ call[x].token <= row.ver BY DEF TokenInv, TypeInv, Calls
<1>4. TokenInv'
  <2>1. \A r \in late : r.token <= row.ver + 1 BY DEF TokenInv, TypeInv, VenueRequests
  <2>2. \A x \in Procs : x # u =>
           /\ call'[x].pc \in {"idle", "read"} <=> call'[x].token = 0
           /\ call'[x].token <= row.ver + 1 /\ call'[x].token # row.ver + 1
           /\ \A z \in Procs : z # u /\ call'[z].token = call'[x].token => z = x \/ call'[x].token = 0
    BY <1>1, <1>3 DEF TokenInv
  <2>3. /\ ~(d.pc \in {"idle", "read"}) /\ d.token # 0 /\ d.token <= row.ver + 1
    OBVIOUS
  <2>4. \A x \in Procs :
           /\ call'[x].pc \in {"idle", "read"} <=> call'[x].token = 0
           /\ call'[x].token <= row.ver + 1
           /\ \A z \in Procs : call'[z].token = call'[x].token => z = x \/ call'[x].token = 0
    BY <1>1, <2>2, <2>3
  <2>5. QED BY <2>1, <2>4 DEF TokenInv
<1>5. \A x \in Procs : x # u => ~Mine(x)'
  BY <1>1, <1>3 DEF Mine
<1>6. \A x \in Procs : ~Calling(x) /\ ~Calling(x)'
  <2>1. \A x \in Procs : ~Calling(x) BY DEF OwnerInv, Holds, Known
  <2>2. QED BY <1>1, <2>1 DEF Calling
<1>7. OwnerInv'
  <2> SUFFICES ASSUME NEW x \in Procs
      PROVE (/\ Calling(x) => Holds(x)
             /\ call[x].pc = "leased" /\ Mine(x) =>
                  /\ row.fact.op = "reserved"
                  /\ row.fact.kind = call[x].kind /\ row.fact.want = call[x].want
             /\ call[x].pc = "certain" /\ Mine(x) => row.fact.op = "reserved" \/ Holds(x)
             /\ Mine(x) => \A q \in late : q.token < call[x].token \/ call[x].pc = "uncertain")'
    BY DEF OwnerInv
  <2>1. CASE x # u BY <2>1, <1>5, <1>6
  <2>2. CASE x = u
    <3>1. \A q \in late : q.token < row.ver + 1 BY DEF TokenInv, TypeInv, VenueRequests
    <3>2. QED BY <2>2, <3>1, <1>1, <1>6
  <2>3. QED BY <2>1, <2>2
<1>8. RightId /\ RightPrice /\ RightCancel /\ Spent
  BY DEF Known, RowInv, Started, EffectInv
<1>9. RowInv'
  <2>1. RightId' BY <1>8 DEF RightId
  <2>2. RightPrice' BY <1>8 DEF RightPrice
  <2>3. RightCancel' BY <1>8 DEF RightCancel
  <2>4. k \in {"prepare", "activate", "edit"} => venue.state # "cancel_pending"
    BY <1>8 DEF RightCancel
  <2>5. QED BY <2>1, <2>2, <2>3, <2>4 DEF RowInv
<1>10. EffectInv'
  <2>1. Spent' BY <1>8 DEF Spent
  <2> SUFFICES ASSUME NEW x \in Procs
      PROVE  (/\ Untouched(x) => RightId /\ RightPrice /\ RightCancel /\ Spent
              /\ Calling(x) /\ call[x].reply.ok => Effect(x) /\ late = {}
              /\ call[x].pc = "accepted" => call[x].reply.ok
              /\ call[x].pc \in {"read", "leased", "started"} => ~call[x].reply.ok
              /\ call[x].pc = "uncertain" /\ ~call[x].reply.ok => call[x].reply.request = 0
              /\ call[x].pc = "calling" /\ call[x].reply.ok => call[x].answered)'
    BY <2>1 DEF EffectInv
  <2>2. ~Untouched(x)' BY <1>1, <1>5, <1>6 DEF Untouched, Calling
  <2>3. CASE x # u BY <2>2, <2>3, <1>1, <1>6 DEF EffectInv
  <2>4. CASE x = u BY <2>2, <2>4, <1>1, <1>6
  <2>5. QED BY <2>3, <2>4
<1>11. LateInv' BY DEF LateInv
<1>12. SyncInv'
  <2>1. SyncInv' <=> \A x \in Syncs : SyncTrue(sync[x])' BY DEF SyncInv, SyncTrue
  <2>2. \A x \in Syncs : sync[x] \in SyncStates /\ sync[x].copy.ver \in Nat
    BY DEF TypeInv, SyncStates, Copies
  <2>3. ASSUME NEW y \in SyncStates, SyncTrue(y), y.copy.ver \in Nat PROVE SyncTrue(y)'
    <3>1. y.copy.ver <= row.ver BY <2>3 DEF SyncTrue
    <3>2. ~SameFact(y.copy)' /\ y.copy.ver <= row'.ver BY <2>3, <3>1 DEF SameFact
    <3>3. QED BY <2>3, <3>2 DEF SyncTrue, Shown
  <2>4. \A x \in Syncs : SyncTrue(sync[x])' BY <2>2, <2>3, SyncsTrue
  <2>5. QED BY <2>1, <2>4
<1>13. MoneyInv' BY DEF MoneyInv, MoneyEvents
<1>14. KindInv' BY <1>1 DEF KindInv
<1>15. QED BY <1>2, <1>4, <1>7, <1>9, <1>10, <1>11, <1>12, <1>13, <1>14 DEF OrderInv

\* A lease is taken for a new operation.
LEMMA ReserveSteps ==
  ASSUME OrderInv, KindInv, NEW u \in Procs, Insert(u) \/ Reserve(u)
  PROVE  OrderInv' /\ KindInv'
<1> TypeInv /\ TokenInv /\ OwnerInv /\ RowInv /\ EffectInv BY DEF OrderInv
<1> row \in Rows BY DEF TypeInv
<1> PICK c \in Calls : c = call[u] BY DEF TypeInv
<1> PICK n \in Nat : n = row.ver + 1 BY DEF Rows
<1>1. CASE Insert(u)
  <2>1. PICK f : f = [NoOp EXCEPT !.op = "reserved", !.kind = "prepare", !.want = 0,
                                  !.token = n, !.live = TRUE] OBVIOUS
  <2>2. f \in Facts /\ f.op = "reserved" /\ f.kind = "prepare" /\ f.want = 0 /\ f.token = n
        /\ ~f.unknown
    BY <2>1, Blanks DEF Facts, Kinds, Wants, NoOp
  <2>3. PICK r : r = [row EXCEPT !.state = "preparing"] OBVIOUS
  <2>4. r \in Rows /\ r.ver = row.ver /\ r.state = "preparing" /\ r.known = row.known
        /\ r.price = row.price /\ r.request = row.request /\ r.tx = row.tx
    BY <2>3 DEF Rows, States
  <2>5. row' = [r EXCEPT !.ver = n, !.state = "preparing", !.fact = f]
    BY <1>1, <2>1, <2>3, <2>4 DEF Insert, Reserved
  <2>6. /\ row' \in Rows /\ row'.ver = n /\ row'.state = "preparing" /\ row'.fact = f
        /\ row'.known = row.known /\ row'.price = row.price /\ row'.request = row.request
        /\ row'.tx = row.tx
    BY <2>2, <2>4, <2>5 DEF Rows, States
  <2>7. PICK d : d = [Idle EXCEPT !.pc = "leased", !.kind = "prepare", !.token = n] OBVIOUS
  <2>8. d \in Calls /\ d.pc = "leased" /\ d.kind = "prepare" /\ d.want = 0 /\ d.token = n
        /\ d.reply = NoReply /\ ~NoReply.ok
    BY <2>7, Blanks DEF Calls, Pcs, Kinds, Idle, NoReply
  <2>9. call' = [call EXCEPT ![u] = d] /\ UNCHANGED <<venue, late, sync, claimed>>
    BY <1>1, <2>6, <2>7 DEF Insert
  <2>10. row.state = "none" /\ call[u].pc = "idle" /\ Known
    BY <1>1 DEF Insert, RowInv, Known
  <2>11. QED BY <2>2, <2>6, <2>8, <2>9, <2>10, Leases
<1>2. CASE Reserve(u) /\ MayReserve(c.kind)
  <2>1. PICK f : f = [NoOp EXCEPT !.op = "reserved", !.kind = c.kind, !.want = c.want,
                                  !.token = n, !.live = TRUE] OBVIOUS
  <2>2. f \in Facts /\ f.op = "reserved" /\ f.kind = c.kind /\ f.want = c.want /\ f.token = n
        /\ ~f.unknown
    <3>1. c.kind \in Kinds /\ c.want \in Wants BY DEF Calls
    <3>2. QED BY <2>1, <3>1, Blanks DEF Facts, NoOp
  <2>3. PICK t \in States : t = IF c.kind = "activate" THEN "activating" ELSE row.state
    BY DEF Rows, States
  <2>4. row' = [row EXCEPT !.ver = n, !.state = t, !.fact = f]
    BY <1>2, <2>1, <2>3 DEF Reserve, Reserved
  <2>5. /\ row' \in Rows /\ row'.ver = n /\ row'.state = t /\ row'.fact = f
        /\ row'.known = row.known /\ row'.price = row.price /\ row'.request = row.request
        /\ row'.tx = row.tx
    BY <2>2, <2>4 DEF Rows
  <2>6. PICK d : d = [c EXCEPT !.pc = "leased", !.token = n] OBVIOUS
  <2>7. d \in Calls /\ d.pc = "leased" /\ d.kind = c.kind /\ d.want = c.want /\ d.token = n
        /\ d.reply = c.reply
    BY <2>6 DEF Calls, Pcs
  <2>8. call' = [call EXCEPT ![u] = d] /\ UNCHANGED <<venue, late, sync, claimed>>
    BY <1>2, <2>5, <2>6 DEF Reserve, TypeInv
  <2>9. c.pc = "read" /\ Known /\ row.state \in From(c.kind) BY <1>2 DEF Reserve, MayReserve
  <2>10. c.kind # "none" /\ ~c.reply.ok BY <2>9 DEF KindInv, EffectInv
  <2>11. c.kind \in {"prepare", "activate", "edit", "cancel_init", "cancel_confirm"}
    BY <2>10 DEF Calls, Kinds
  <2>12. /\ t # "none" /\ (t \in {"filled", "partially_filled"} => t = row.state)
         /\ row.state = "cancel_pending" => t = "cancel_pending" /\ c.kind \notin {"prepare", "activate", "edit"}
    BY <2>3, <2>9, <2>11 DEF From
  <2>13. QED BY <2>2, <2>5, <2>7, <2>8, <2>9, <2>10, <2>12, Leases
<1>3. CASE Reserve(u) /\ ~MayReserve(c.kind)
  <2>1. /\ c.pc = "read" /\ call' = [call EXCEPT ![u] = Idle]
        /\ UNCHANGED <<row, venue, late, sync, claimed>>
    BY <1>3 DEF Reserve, Done
  <2>2. Idle \in Calls /\ Idle.pc = "idle" /\ Idle.token = 0 BY Blanks DEF Idle
  <2>3. Onward(c, Idle) BY <2>1, <2>2 DEF Onward
  <2>4. QED BY <2>1, <2>3, CallMoves
<1>4. QED BY <1>1, <1>2, <1>3


\* The caller that holds the row ends its operation, the row telling the truth.
LEMMA Settles ==
  ASSUME OrderInv, KindInv, NEW u \in Procs, Mine(u), row' \in Rows,
         row'.fact = NoOp, row'.ver = row.ver,
         (RightId /\ RightPrice /\ RightCancel)', Spent, row'.known => venue.state # "none",
         row'.state \in {"filled", "partially_filled"} => row'.state = row.state,
         call' = [call EXCEPT ![u] = Idle], UNCHANGED <<venue, late, sync, claimed>>
  PROVE  OrderInv' /\ KindInv'
<1> TypeInv /\ TokenInv /\ OwnerInv /\ RowInv /\ EffectInv /\ LateInv /\ SyncInv /\ MoneyInv
  BY DEF OrderInv
<1>0. Idle \in Calls /\ Idle.pc = "idle" /\ Idle.token = 0 BY Blanks DEF Idle
<1>1. /\ call' \in [Procs -> Calls] /\ call'[u] = Idle
      /\ \A x \in Procs : x # u => call'[x] = call[x]
  BY <1>0, CallMade
<1>2. row'.fact.op = "none" /\ row'.fact.token = 0 /\ ~row'.fact.unknown BY DEF NoOp
<1>3. TypeInv' BY <1>1 DEF TypeInv
<1>4. TokenInv' BY <1>0, <1>1, <1>2, <1>3 DEF TokenInv, TypeInv, Rows
<1>5. \A x \in Procs : ~Mine(x)' BY <1>2 DEF Mine
<1>6. \A x \in Procs : ~Calling(x)'
  <2>1. \A x \in Procs : x # u => ~Mine(x) BY DEF Mine, TokenInv
  <2>2. \A x \in Procs : x # u => ~Calling(x) BY <2>1 DEF OwnerInv, Holds
  <2>3. QED BY <2>2, <1>0, <1>1 DEF Calling
<1>7. OwnerInv' BY <1>5, <1>6 DEF OwnerInv
<1>8. RowInv' BY <1>2 DEF RowInv
<1>9. EffectInv'
  <2>1. Spent' BY DEF Spent
  <2>2. \A x \in Procs : ~Untouched(x)' BY <1>5, <1>6 DEF Untouched, Calling
  <2>3. \A x \in Procs :
          (/\ call[x].pc = "accepted" => call[x].reply.ok
           /\ call[x].pc \in {"read", "leased", "started"} => ~call[x].reply.ok
           /\ call[x].pc = "uncertain" /\ ~call[x].reply.ok => call[x].reply.request = 0
           /\ call[x].pc = "calling" /\ call[x].reply.ok => call[x].answered)'
    BY <1>0, <1>1 DEF EffectInv
  <2>4. QED BY <2>1, <2>2, <2>3, <1>6 DEF EffectInv
<1>10. LateInv' BY <1>2 DEF LateInv
<1>11. SyncInv'
  <2>1. SyncInv' <=> \A x \in Syncs : SyncTrue(sync[x])' BY DEF SyncInv, SyncTrue
  <2>2. ASSUME NEW y, SyncTrue(y) PROVE SyncTrue(y)'
    <3>1. ~(y.copy.fact.unknown /\ SameFact(y.copy)') BY <1>2 DEF SameFact
    <3>2. QED BY <2>2, <3>1 DEF SyncTrue, Shown
  <2>3. QED BY <2>1, <2>2, SyncsTrue
<1>12. MoneyInv' BY DEF MoneyInv, MoneyEvents
<1>13. KindInv' BY <1>0, <1>1 DEF KindInv
<1>14. QED BY <1>3, <1>4, <1>7, <1>8, <1>9, <1>10, <1>11, <1>12, <1>13 DEF OrderInv

\* The accepted operation is written to the row.
LEMMA CommitSteps ==
  ASSUME OrderInv, KindInv, NEW u \in Procs, Commit(u)
  PROVE  OrderInv' /\ KindInv'
<1> TypeInv /\ TokenInv /\ OwnerInv /\ RowInv /\ EffectInv BY DEF OrderInv
<1> row \in Rows BY DEF TypeInv
<1> PICK c \in Calls : c = call[u] BY DEF TypeInv
<1>1. /\ c.pc = "accepted" /\ Mine(u) /\ (c.kind = "prepare" => row.state = "preparing")
      /\ row' = Committed(row, c) /\ call' = [call EXCEPT ![u] = Idle]
      /\ UNCHANGED <<venue, late, sync, claimed>>
  BY DEF Commit, Done
<1>2. /\ Holds(u) /\ Effect(u) /\ late = {} /\ c.reply.ok
  BY <1>1 DEF OwnerInv, Calling, EffectInv
<1>3. row.fact.op = "started" /\ row.fact.kind = c.kind /\ Spent BY <1>2 DEF Holds, Spent
<1>4. c.kind \in {"prepare", "activate", "edit", "cancel_init", "cancel_confirm"}
  BY <1>1 DEF KindInv, Calls, Kinds
<1>5. PICK r : r = [row EXCEPT !.fact = NoOp] OBVIOUS
<1>6. /\ r \in Rows /\ r.fact = NoOp /\ r.state = row.state /\ r.known = row.known
      /\ r.price = row.price /\ r.request = row.request /\ r.tx = row.tx /\ r.ver = row.ver
  BY <1>5, Blanks DEF Rows
<1>7. c.reply.state \in States /\ c.reply.request \in Nat /\ c.want \in Wants BY DEF Calls, Replies
<1>8. CASE c.kind = "prepare"
  <2>1. row' = [r EXCEPT !.state = "prepared"] BY <1>1, <1>5, <1>8 DEF Committed
  <2>2. "prepared" \in States BY DEF States
  <2>3. /\ row' \in Rows /\ row'.fact = NoOp /\ row'.state = "prepared" /\ row'.known = row.known
        /\ row'.price = row.price /\ row'.request = row.request /\ row'.tx = row.tx
        /\ row'.ver = row.ver
    BY <1>6, <2>1, <2>2 DEF Rows
  <2>4. RightId /\ RightPrice /\ venue.state # "cancel_pending"
    BY <1>3, <1>8 DEF RowInv, Started
  <2>5. (RightId /\ RightPrice /\ RightCancel)'
    BY <1>1, <2>3, <2>4 DEF RightId, RightPrice, RightCancel
  <2>6. row'.known => venue.state # "none" BY <2>3 DEF RowInv
  <2>7. QED BY <1>1, <1>3, <2>3, <2>5, <2>6, Settles
<1>9. CASE c.kind = "activate"
  <2>1. row' = [r EXCEPT !.state = c.reply.state, !.known = TRUE]
    BY <1>1, <1>5, <1>9 DEF Committed
  <2>3. /\ row' \in Rows /\ row'.fact = NoOp /\ row'.state = c.reply.state /\ row'.known
        /\ row'.price = row.price /\ row'.request = row.request /\ row'.tx = row.tx
        /\ row'.ver = row.ver
    BY <1>6, <1>7, <2>1 DEF Rows
  <2>4. RightPrice /\ venue.state # "cancel_pending" /\ venue.state # "none"
        /\ c.reply.state \in {"activating", "open"}
    BY <1>2, <1>3, <1>9 DEF RowInv, Started, Effect
  <2>5. (RightId /\ RightPrice /\ RightCancel)'
    BY <1>1, <2>3, <2>4 DEF RightId, RightPrice, RightCancel, Rows
  <2>7. QED BY <1>1, <1>3, <2>3, <2>4, <2>5, Settles
<1>10. CASE c.kind = "edit"
  <2>1. row' = [r EXCEPT !.price = c.want] BY <1>1, <1>5, <1>10 DEF Committed
  <2>3. /\ row' \in Rows /\ row'.fact = NoOp /\ row'.state = row.state /\ row'.known = row.known
        /\ row'.price = c.want /\ row'.request = row.request /\ row'.tx = row.tx
        /\ row'.ver = row.ver
    BY <1>6, <1>7, <2>1 DEF Rows
  <2>4. RightId /\ venue.price = c.want /\ venue.state # "cancel_pending"
    BY <1>2, <1>3, <1>10 DEF RowInv, Started, Effect
  <2>5. (RightId /\ RightPrice /\ RightCancel)'
    BY <1>1, <2>3, <2>4 DEF RightId, RightPrice, RightCancel
  <2>6. row'.known => venue.state # "none" BY <2>3 DEF RowInv
  <2>7. QED BY <1>1, <1>3, <2>3, <2>5, <2>6, Settles
<1>11. CASE c.kind = "cancel_init"
  <2>1. row' = [r EXCEPT !.state = "cancel_pending", !.request = c.reply.request, !.tx = TRUE]
    BY <1>1, <1>5, <1>11 DEF Committed
  <2>2. "cancel_pending" \in States BY DEF States
  <2>3. /\ row' \in Rows /\ row'.fact = NoOp /\ row'.state = "cancel_pending"
        /\ row'.known = row.known /\ row'.price = row.price
        /\ row'.request = c.reply.request /\ row'.tx /\ row'.ver = row.ver
    BY <1>6, <1>7, <2>1, <2>2 DEF Rows
  <2>4. RightId /\ RightPrice /\ venue.request = c.reply.request
    BY <1>2, <1>3, <1>11 DEF RowInv, Started, Effect
  <2>5. (RightId /\ RightPrice /\ RightCancel)'
    BY <1>1, <2>3, <2>4 DEF RightId, RightPrice, RightCancel
  <2>6. row'.known => venue.state # "none" BY <2>3 DEF RowInv
  <2>7. QED BY <1>1, <1>3, <2>3, <2>5, <2>6, Settles
<1>12. CASE c.kind = "cancel_confirm"
  <2>1. row' = [r EXCEPT !.state = "cancelled", !.tx = FALSE]
    BY <1>1, <1>5, <1>12 DEF Committed
  <2>2. "cancelled" \in States BY DEF States, Closed
  <2>3. /\ row' \in Rows /\ row'.fact = NoOp /\ row'.state = "cancelled"
        /\ row'.known = row.known /\ row'.price = row.price /\ row'.ver = row.ver
    BY <1>6, <2>1, <2>2 DEF Rows
  <2>4. RightId /\ RightPrice /\ venue.state # "cancel_pending"
    BY <1>2, <1>3, <1>12 DEF RowInv, Started, Effect
  <2>5. (RightId /\ RightPrice /\ RightCancel)'
    BY <1>1, <2>3, <2>4 DEF RightId, RightPrice, RightCancel
  <2>6. row'.known => venue.state # "none" BY <2>3 DEF RowInv
  <2>7. QED BY <1>1, <1>3, <2>3, <2>5, <2>6, Settles
<1>13. QED BY <1>4, <1>8, <1>9, <1>10, <1>11, <1>12

\* A refusal that is certain gives the lease back.
LEMMA CertainSteps ==
  ASSUME OrderInv, KindInv, NEW u \in Procs, RecordCertain(u)
  PROVE  OrderInv' /\ KindInv'
<1> TypeInv /\ OwnerInv /\ RowInv /\ EffectInv BY DEF OrderInv
<1> row \in Rows BY DEF TypeInv
<1> PICK c \in Calls : c = call[u] BY DEF TypeInv
<1>0. Idle \in Calls /\ Idle.pc = "idle" /\ Idle.token = 0 BY Blanks DEF Idle
<1>1. /\ c.pc = "certain" /\ call' = [call EXCEPT ![u] = Idle]
      /\ UNCHANGED <<venue, late, sync, claimed>>
  BY DEF RecordCertain, Done
<1>2. CASE Mine(u)
  <2>1. row' = [row EXCEPT !.fact = NoOp] BY <1>2 DEF RecordCertain
  <2>2. /\ row' \in Rows /\ row'.fact = NoOp /\ row'.state = row.state /\ row'.known = row.known
        /\ row'.price = row.price /\ row'.request = row.request /\ row'.tx = row.tx
        /\ row'.ver = row.ver
    BY <2>1, Blanks DEF Rows
  <2>3. RightId /\ RightPrice /\ RightCancel /\ Spent BY <1>1, <1>2 DEF EffectInv, Untouched
  <2>4. (RightId /\ RightPrice /\ RightCancel)'
    BY <1>1, <2>2, <2>3 DEF RightId, RightPrice, RightCancel
  <2>5. row'.known => venue.state # "none" BY <2>2 DEF RowInv
  <2>6. QED BY <1>1, <1>2, <2>2, <2>3, <2>4, <2>5, Settles
<1>3. CASE ~Mine(u)
  <2>1. row' = row BY <1>3 DEF RecordCertain
  <2>2. Onward(c, Idle) BY <1>0, <1>1 DEF Onward
  <2>3. QED BY <1>1, <2>1, <2>2, CallMoves
<1>4. QED BY <1>2, <1>3


\* The operation is recorded as started, before the venue is called.
LEMMA StartSteps ==
  ASSUME OrderInv, KindInv, NEW u \in Procs, Start(u)
  PROVE  OrderInv' /\ KindInv'
<1> TypeInv /\ TokenInv /\ OwnerInv /\ RowInv /\ EffectInv /\ LateInv /\ SyncInv /\ MoneyInv
  BY DEF OrderInv
<1> row \in Rows /\ row.fact \in Facts /\ venue \in Venues BY DEF TypeInv, Rows
<1> PICK c \in Calls : c = call[u] BY DEF TypeInv
<1>1. c.pc = "leased" /\ UNCHANGED <<venue, late, sync, claimed>> BY DEF Start
<1>2. CASE ~(Mine(u) /\ row.fact.op = "reserved" /\ row.fact.live)
  <2>1. PICK d : d = [c EXCEPT !.pc = "certain"] OBVIOUS
  <2>2. d \in Calls BY <2>1 DEF Calls, Pcs
  <2>3. call' = [call EXCEPT ![u] = d] /\ row' = row BY <1>2, <2>1 DEF Start, TypeInv
  <2>4. Onward(c, d) BY <1>1, <2>1, <2>2 DEF Onward, TokenInv, Calls, KindInv
  <2>5. QED BY <1>1, <2>3, <2>4, CallMoves
<1>3. CASE Mine(u) /\ row.fact.op = "reserved" /\ row.fact.live
  <2>1. PICK n \in Int : n = venue.at BY DEF Venues
  <2>2. PICK f : f = [row.fact EXCEPT !.op = "started", !.since = n] OBVIOUS
  <2>3. /\ f \in Facts /\ f.op = "started" /\ f.kind = row.fact.kind /\ f.want = row.fact.want
        /\ f.token = row.fact.token /\ f.unknown = row.fact.unknown
    BY <2>2 DEF Facts
  <2>4. row' = [row EXCEPT !.fact = f] BY <1>3, <2>1, <2>2 DEF Start, Rows
  <2>5. /\ row' \in Rows /\ row'.fact = f /\ row'.state = row.state /\ row'.known = row.known
        /\ row'.price = row.price /\ row'.request = row.request /\ row'.tx = row.tx
        /\ row'.ver = row.ver
    BY <2>3, <2>4 DEF Rows
  <2>6. PICK d : d = [c EXCEPT !.pc = "started"] OBVIOUS
  <2>7. d \in Calls /\ d.pc = "started" /\ d.kind = c.kind /\ d.want = c.want
        /\ d.token = c.token /\ d.reply = c.reply
    BY <2>6 DEF Calls, Pcs
  <2>8. call' = [call EXCEPT ![u] = d] BY <1>3, <2>6 DEF Start, TypeInv
  <2>9. /\ call' \in [Procs -> Calls] /\ call'[u] = d
        /\ \A x \in Procs : x # u => call'[x] = call[x]
    BY <2>7, <2>8, CallMade
  <2>10. /\ row.fact.kind = c.kind /\ row.fact.want = c.want /\ ~row.fact.unknown
         /\ row.fact.token = c.token /\ c.token # 0
    BY <1>1, <1>3 DEF OwnerInv, TokenInv, Mine
  <2>11. /\ row'.fact.op = "started" /\ row'.fact.kind = c.kind /\ row'.fact.want = c.want
         /\ row'.fact.token = c.token /\ ~row'.fact.unknown
    BY <2>3, <2>5, <2>10
  <2>12. Known /\ RightId /\ RightPrice /\ RightCancel /\ Spent
    BY <1>3 DEF Known, RowInv, Started, EffectInv
  <2>13. TypeInv' BY <1>1, <2>5, <2>9 DEF TypeInv
  <2>14. TokenInv' BY <1>1, <2>5, <2>7, <2>9, <2>10, <2>11 DEF TokenInv
  <2>15. \A x \in Procs : x # u => ~Mine(x)'
    BY <2>9, <2>10, <2>11 DEF Mine, TokenInv
  <2>16. \A x \in Procs : x # u => ~Calling(x)'
    <3>1. \A x \in Procs : ~Calling(x) BY <2>12 DEF OwnerInv, Holds, Known
    <3>2. QED BY <3>1, <2>9 DEF Calling
  <2>17. Mine(u)' /\ Holds(u)' BY <2>7, <2>9, <2>10, <2>11 DEF Mine, Holds
  <2>18. OwnerInv'
    <3> SUFFICES ASSUME NEW x \in Procs
        PROVE (/\ Calling(x) => Holds(x)
               /\ call[x].pc = "leased" /\ Mine(x) =>
                    /\ row.fact.op = "reserved"
                    /\ row.fact.kind = call[x].kind /\ row.fact.want = call[x].want
               /\ call[x].pc = "certain" /\ Mine(x) => row.fact.op = "reserved" \/ Holds(x)
               /\ Mine(x) => \A q \in late : q.token < call[x].token \/ call[x].pc = "uncertain")'
      BY DEF OwnerInv
    <3>1. CASE x # u BY <3>1, <2>15, <2>16
    <3>2. CASE x = u
      <4>1. \A q \in late : q.token < c.token BY <1>1, <1>3 DEF OwnerInv
      <4>2. QED BY <3>2, <4>1, <1>1, <2>7, <2>9, <2>17
    <3>3. QED BY <3>1, <3>2
  <2>19. (RightId /\ RightPrice /\ RightCancel /\ Spent)'
    BY <1>1, <2>5, <2>12 DEF RightId, RightPrice, RightCancel, Spent
  <2>20. RowInv'
    <3>1. row'.known => venue.state # "none" BY <2>5 DEF RowInv
    <3>2. c.kind \in {"prepare", "activate", "edit"} => venue.state # "cancel_pending"
      BY <1>3, <2>10 DEF RowInv
    <3>3. row'.state # "none" BY <1>3, <2>5 DEF RowInv
    <3>4. QED BY <3>1, <3>2, <3>3, <1>1, <2>11, <2>19 DEF RowInv
  <2>21. EffectInv'
    <3> SUFFICES ASSUME NEW x \in Procs
        PROVE  (/\ Untouched(x) => RightId /\ RightPrice /\ RightCancel /\ Spent
                /\ Calling(x) /\ call[x].reply.ok => Effect(x) /\ late = {}
                /\ call[x].pc = "accepted" => call[x].reply.ok
                /\ call[x].pc \in {"read", "leased", "started"} => ~call[x].reply.ok
                /\ call[x].pc = "uncertain" /\ ~call[x].reply.ok => call[x].reply.request = 0
                /\ call[x].pc = "calling" /\ call[x].reply.ok => call[x].answered)'
      BY <2>19 DEF EffectInv
    <3>1. ~c.reply.ok BY <1>1 DEF EffectInv
    <3>2. CASE x # u BY <3>2, <2>9, <2>16, <2>19 DEF EffectInv
    <3>3. CASE x = u BY <3>1, <3>3, <2>7, <2>9, <2>19
    <3>4. QED BY <3>2, <3>3
  <2>22. LateInv'
    <3>1. venue.price = row.price /\ \A q \in late : q.kind = "edit" /\ q.want = venue.price
      BY <2>12 DEF RightPrice, Spent
    <3>2. QED BY <3>1, <1>1, <2>5, <2>11, <2>19 DEF LateInv
  <2>23. SyncInv'
    <3>1. SyncInv' <=> \A x \in Syncs : SyncTrue(sync[x])' BY DEF SyncInv, SyncTrue
    <3>2. ASSUME NEW y, SyncTrue(y) PROVE SyncTrue(y)'
      <4>1. ~(y.copy.fact.unknown /\ SameFact(y.copy)') BY <2>11 DEF SameFact
      <4>2. QED BY <3>2, <4>1, <1>1, <2>5 DEF SyncTrue, Shown
    <3>3. QED BY <3>1, <3>2, <1>1, SyncsTrue
  <2>24. MoneyInv' BY <1>1, <2>5 DEF MoneyInv, MoneyEvents
  <2>25. KindInv' BY <1>1, <2>7, <2>9 DEF KindInv
  <2>26. QED BY <2>13, <2>14, <2>18, <2>20, <2>21, <2>22, <2>23, <2>24, <2>25 DEF OrderInv
<1>4. QED BY <1>2, <1>3

\* An uncertain outcome stays with the row, which names it from then on.
LEMMA UnknownSteps ==
  ASSUME OrderInv, KindInv, NEW u \in Procs, RecordUnknown(u)
  PROVE  OrderInv' /\ KindInv'
<1> TypeInv /\ TokenInv /\ OwnerInv /\ RowInv /\ EffectInv /\ LateInv /\ SyncInv /\ MoneyInv
  BY DEF OrderInv
<1> row \in Rows /\ row.fact \in Facts /\ venue \in Venues BY DEF TypeInv, Rows
<1> PICK c \in Calls : c = call[u] BY DEF TypeInv
<1>0. Idle \in Calls /\ Idle.pc = "idle" /\ Idle.token = 0 BY Blanks DEF Idle
<1>1. /\ c.pc = "uncertain" /\ call' = [call EXCEPT ![u] = Idle]
      /\ UNCHANGED <<venue, late, sync, claimed>>
  BY DEF RecordUnknown, Done
<1>2. Holds(u) /\ (c.reply.ok => Effect(u) /\ late = {}) /\ (~c.reply.ok => c.reply.request = 0)
  BY <1>1 DEF OwnerInv, Calling, EffectInv
<1>3. /\ Mine(u) /\ row.fact.op = "started" /\ ~row.fact.unknown
      /\ row.fact.kind = c.kind /\ row.fact.want = c.want
  BY <1>2 DEF Holds
<1>4. row' = Unknown(row, c) BY <1>3 DEF RecordUnknown
<1>5. c.reply.ok \in BOOLEAN /\ c.reply.request \in Nat BY DEF Calls, Replies
<1>6. PICK n \in Nat : n = row.ver + 1 BY DEF Rows
<1>7. PICK q \in Nat : q = IF c.kind = "cancel_init" /\ c.reply.ok THEN c.reply.request ELSE row.request
  BY <1>5 DEF Rows
<1>8. PICK x \in BOOLEAN : x = (row.tx \/ (c.kind = "cancel_init" /\ c.reply.ok))
  OBVIOUS
<1>9. PICK f : f = [row.fact EXCEPT !.unknown = TRUE, !.token = 0, !.live = FALSE,
                                    !.idSeen = c.reply.ok, !.requestSeen = c.reply.request]
  OBVIOUS
<1>10. /\ f \in Facts /\ f.op = "started" /\ f.kind = c.kind /\ f.want = c.want /\ f.unknown
       /\ f.token = 0 /\ ~f.live /\ f.requestSeen = c.reply.request
  BY <1>3, <1>5, <1>9 DEF Facts
<1>11. row' = [row EXCEPT !.ver = n, !.fact = f, !.request = q, !.tx = x]
  BY <1>4, <1>6, <1>7, <1>8, <1>9 DEF Unknown, Rows, Facts
<1>12. /\ row' \in Rows /\ row'.fact = f /\ row'.state = row.state /\ row'.known = row.known
       /\ row'.price = row.price /\ row'.request = q /\ row'.tx = x /\ row'.ver = n
  BY <1>10, <1>11 DEF Rows
<1>13. /\ call' \in [Procs -> Calls] /\ call'[u] = Idle
       /\ \A z \in Procs : z # u => call'[z] = call[z]
  BY <1>0, <1>1, CallMade
<1>14. TypeInv' BY <1>1, <1>12, <1>13 DEF TypeInv
<1>15. TokenInv'
  <2>1. \A r \in late : r.token <= n BY <1>6 DEF TokenInv, TypeInv, VenueRequests, Rows
  <2>2. \A z \in Procs : call'[z].token <= n
    BY <1>0, <1>6, <1>13 DEF TokenInv, TypeInv, Calls, Rows
  <2>3. QED BY <2>1, <2>2, <1>0, <1>1, <1>10, <1>12, <1>13 DEF TokenInv
<1>16. \A z \in Procs : ~Mine(z)' BY <1>10, <1>12 DEF Mine
<1>17. \A z \in Procs : ~Calling(z)'
  <2>1. \A z \in Procs : z # u => ~Mine(z) BY <1>3 DEF Mine, TokenInv
  <2>2. \A z \in Procs : z # u => ~Calling(z) BY <2>1 DEF OwnerInv, Holds
  <2>3. QED BY <2>2, <1>0, <1>13 DEF Calling
<1>18. OwnerInv' BY <1>16, <1>17 DEF OwnerInv
<1>19. RowInv'
  <2>1. row'.known => venue.state # "none" BY <1>12 DEF RowInv
  <2>2. (RightId \/ Started("activate"))'
    BY <1>1, <1>3, <1>10, <1>12 DEF RowInv, RightId, Started
  <2>3. (RightPrice \/ Started("edit"))'
    BY <1>1, <1>3, <1>10, <1>12 DEF RowInv, RightPrice, Started
  <2>4. (RightCancel \/ Started("cancel_init"))'
    <3>1. CASE c.kind = "cancel_init" BY <3>1, <1>10, <1>12 DEF Started
    <3>2. CASE c.kind # "cancel_init"
      <4>1. RightCancel BY <3>2, <1>3 DEF RowInv, Started
      <4>2. q = row.request /\ (row.tx => x) BY <3>2, <1>7, <1>8
      <4>3. QED BY <4>1, <4>2, <1>1, <1>12 DEF RightCancel
    <3>3. QED BY <3>1, <3>2
  <2>5. QED BY <2>1, <2>2, <2>3, <2>4, <1>1, <1>3, <1>10, <1>12 DEF RowInv
<1>20. EffectInv'
  <2>1. ~Known' BY <1>10, <1>12 DEF Known
  <2>2. \A z \in Procs : ~Untouched(z)' BY <1>16, <1>17 DEF Untouched, Calling
  <2>3. \A z \in Procs :
          (/\ call[z].pc = "accepted" => call[z].reply.ok
           /\ call[z].pc \in {"read", "leased", "started"} => ~call[z].reply.ok
           /\ call[z].pc = "uncertain" /\ ~call[z].reply.ok => call[z].reply.request = 0
           /\ call[z].pc = "calling" /\ call[z].reply.ok => call[z].answered)'
    BY <1>0, <1>13 DEF EffectInv
  <2>4. QED BY <2>1, <2>2, <2>3, <1>17 DEF EffectInv
<1>21. LateInv'
  <2>1. ASSUME c.kind = "cancel_init", c.reply.request # 0
        PROVE  venue.request = c.reply.request /\ q = venue.request /\ x /\ late = {}
    <3>1. c.reply.ok BY <2>1, <1>2
    <3>2. Effect(u) /\ late = {} BY <3>1, <1>2
    <3>3. QED BY <2>1, <3>1, <3>2, <1>7, <1>8 DEF Effect
  <2>2. QED BY <2>1, <1>1, <1>3, <1>10, <1>12 DEF LateInv, Spent
<1>22. SyncInv'
  <2>1. SyncInv' <=> \A z \in Syncs : SyncTrue(sync[z])' BY DEF SyncInv, SyncTrue
  <2>2. \A z \in Syncs : sync[z] \in SyncStates /\ sync[z].copy.ver \in Nat
    BY DEF TypeInv, SyncStates, Copies
  <2>3. ASSUME NEW y \in SyncStates, SyncTrue(y), y.copy.ver \in Nat PROVE SyncTrue(y)'
    <3>1. y.copy.ver <= row.ver BY <2>3 DEF SyncTrue
    <3>2. ~SameFact(y.copy)' /\ y.copy.ver <= row'.ver
      BY <2>3, <3>1, <1>6, <1>12 DEF SameFact, Rows
    <3>3. QED BY <2>3, <3>2, <1>1 DEF SyncTrue, Shown
  <2>4. QED BY <2>1, <2>2, <2>3, <1>1, SyncsTrue
<1>23. MoneyInv' BY <1>1, <1>12 DEF MoneyInv, MoneyEvents
<1>24. KindInv' BY <1>0, <1>1, <1>13 DEF KindInv
<1>25. QED BY <1>14, <1>15, <1>18, <1>19, <1>20, <1>21, <1>22, <1>23, <1>24 DEF OrderInv


(***************************************************************************)
(* The invariant, and what it says to the owner.                           *)
(***************************************************************************)
LEMMA FirstOrder == ASSUME Init PROVE OrderInv /\ KindInv
<1>1. /\ Idle \in Calls /\ Idle.pc = "idle" /\ Idle.token = 0
      /\ NoOp \in Facts /\ NoOp.op = "none" /\ NoOp.token = 0 /\ ~NoOp.unknown
  BY Blanks DEF Idle, NoOp
<1>2. /\ Asleep \in SyncStates /\ Asleep.pc = "idle" /\ Asleep.copy.ver = 0
  BY <1>1, Blanks DEF Asleep, Kept, NoOrder
<1>3. late = {} /\ claimed = {} /\ (\A u \in Procs : call[u] = Idle) /\ (\A s \in Syncs : sync[s] = Asleep)
      /\ call \in [Procs -> Calls] /\ sync \in [Syncs -> SyncStates]
  BY <1>1, <1>2 DEF Init
<1>4. /\ row \in Rows /\ venue \in Venues /\ row.ver = 0 /\ row.fact = NoOp
      /\ row.price = venue.price /\ row.known \in BOOLEAN
      /\ \/ row.state = "none" /\ ~row.known /\ venue.state = "none"
         \/ row.state = "open" /\ row.known /\ venue.state = "open"
      /\ venue.state = "none" => ~venue.landed
  <2>1. CASE row = NoOrder /\ venue = NoVenue BY <2>1, Blanks DEF NoOrder, NoVenue
  <2>2. CASE row = OpenOrder /\ venue = OpenVenue
    BY <2>2, Blanks DEF OpenOrder, OpenVenue, NoOrder, NoVenue
  <2>3. QED BY <2>1, <2>2 DEF Init
<1>5. TypeInv BY <1>3, <1>4 DEF TypeInv
<1>6. TokenInv BY <1>1, <1>3, <1>4 DEF TokenInv
<1>7. \A u \in Procs : ~Calling(u) /\ ~Mine(u) BY <1>1, <1>3, <1>4 DEF Calling, Mine
<1>8. OwnerInv BY <1>7 DEF OwnerInv
<1>9. RightId /\ RightPrice /\ RightCancel /\ Spent
  BY <1>3, <1>4 DEF RightId, RightPrice, RightCancel, Spent
<1>10. RowInv BY <1>1, <1>4, <1>9 DEF RowInv
<1>11. EffectInv BY <1>1, <1>3, <1>7, <1>9 DEF EffectInv
<1>12. LateInv BY <1>1, <1>4 DEF LateInv
<1>13. SyncInv BY <1>2, <1>3, <1>4, SyncsTrue DEF SyncTrue
<1>14. MoneyInv BY <1>3, <1>4 DEF MoneyInv
<1>15. KindInv BY <1>1, <1>3 DEF KindInv
<1>16. QED BY <1>5, <1>6, <1>8, <1>10, <1>11, <1>12, <1>13, <1>14, <1>15 DEF OrderInv

\* A step that changes nothing.
LEMMA StillOrder ==
  ASSUME OrderInv, KindInv, UNCHANGED vars PROVE OrderInv' /\ KindInv'
<1> TypeInv /\ TokenInv /\ OwnerInv /\ RowInv /\ EffectInv /\ LateInv /\ SyncInv /\ MoneyInv
  BY DEF OrderInv
<1> UNCHANGED <<row, venue, late, call, sync, claimed>> BY DEF vars
<1>1. TypeInv' /\ TokenInv' /\ KindInv' BY DEF TypeInv, TokenInv, KindInv
<1>2. OwnerInv' BY DEF OwnerInv, Calling, Holds, Mine
<1>3. RowInv' BY DEF RowInv, RightId, RightPrice, RightCancel, Started
<1>4. EffectInv'
  BY DEF EffectInv, Known, Spent, Untouched, Mine, Calling, Effect, RightId, RightPrice, RightCancel
<1>5. LateInv' BY DEF LateInv, Spent
<1>6. SyncInv'
  <2>1. SyncInv' <=> \A x \in Syncs : SyncTrue(sync[x])' BY DEF SyncInv, SyncTrue
  <2>2. \A y : SyncTrue(y) => SyncTrue(y)' BY DEF SyncTrue, Shown, SameFact
  <2>3. QED BY <2>1, <2>2, SyncsTrue
<1>7. MoneyInv' BY DEF MoneyInv, MoneyEvents
<1>8. QED BY <1>1, <1>2, <1>3, <1>4, <1>5, <1>6, <1>7 DEF OrderInv

\* The inductive invariant: at most one caller holds the started operation, and
\* the row is right about the venue but for what that operation may have changed.
THEOREM OrderInvariance == Spec => [](OrderInv /\ KindInv)
<1>1. Init => OrderInv /\ KindInv BY FirstOrder
<1>2. OrderInv /\ KindInv /\ [Next]_vars => OrderInv' /\ KindInv'
  <2> SUFFICES ASSUME OrderInv, KindInv, [Next]_vars PROVE OrderInv' /\ KindInv'
    OBVIOUS
  <2>1. CASE VenueStep BY <2>1, VenueSteps, LateSteps DEF VenueStep
  <2>2. CASE Lapse BY <2>2, LapseSteps
  <2>3. ASSUME NEW u \in Procs, UserStep(u) PROVE OrderInv' /\ KindInv'
    BY <2>3, OnwardSteps, LeavingSteps, ApplySteps, ReserveSteps, StartSteps, CommitSteps,
       UnknownSteps, CertainSteps DEF UserStep
  <2>4. ASSUME NEW s \in Syncs, SyncStep(s) PROVE OrderInv' /\ KindInv'
    BY <2>4, SyncReads, SyncApplySteps, SyncProveSteps DEF SyncStep
  <2>5. CASE UNCHANGED vars BY <2>5, StillOrder
  <2>6. QED BY <2>1, <2>2, <2>3, <2>4, <2>5 DEF Next
<1>3. QED BY <1>1, <1>2, PTL DEF Spec

\* What the invariant says to the owner.
LEMMA InvariantTells == ASSUME OrderInv PROVE OrderIsTrue
<1> TypeInv /\ OwnerInv /\ RowInv /\ EffectInv /\ LateInv /\ MoneyInv
  BY DEF OrderInv
<1>1. EffectsAreFenced
  <2> SUFFICES ASSUME NEW r \in Undecided
      PROVE  \/ row.fact.op = "started" /\ row.fact.kind = r.kind /\ row.fact.want = r.want
             \/ ~Accepts(venue, r) \/ r.kind = "edit"
    BY DEF EffectsAreFenced
  <2>1. CASE r \in late
    <3>1. CASE row.fact.op = "started" BY <2>1, <3>1 DEF LateInv
    <3>2. CASE row.fact.op # "started" BY <2>1, <3>2 DEF EffectInv, Known, Spent
    <3>3. QED BY <3>1, <3>2
  <2>2. CASE r \notin late
    <3>1. PICK u \in Procs : call[u].pc = "calling" /\ r = Request(u) BY <2>2 DEF Undecided
    <3>2. Holds(u) BY <3>1 DEF OwnerInv, Calling
    <3>3. QED BY <3>1, <3>2 DEF Holds, Request
  <2>3. QED BY <2>1, <2>2
<1>2. KnownIsTrue BY DEF KnownIsTrue, Known, RowInv, RightId, RightPrice, RightCancel, Started
<1>3. FilledIsClaimed BY DEF FilledIsClaimed, MoneyInv
<1>4. QED BY <1>1, <1>2, <1>3 DEF OrderIsTrue

\* A request that may still make or end an order is the one the row's started
\* fact names; a row without one is right about the provider's order; money the
\* row says was filled is in the ledger (orderService.ts acquireLease,
\* recordFailure, sync; V037).
THEOREM OrderTrue == Spec => []OrderIsTrue
<1>1. OrderInv => OrderIsTrue BY InvariantTells
<1>2. QED BY <1>1, OrderInvariance, PTL

(***************************************************************************)
(* The ticket.                                                             *)
(*                                                                         *)
(* That a quote leaves the page once, as one set of bytes, is not          *)
(* inductive by itself: it depends on what the ticket on screen keeps and  *)
(* on what the busy handler captured at the click, which may differ since  *)
(* the form and the wallet are live.  So what has to be known is how the   *)
(* two are related at every stage of the handler, that a click is younger  *)
(* than every quote, and which of the two lists, the one on screen or the  *)
(* one under way, has the orders the user was told of.                     *)
(***************************************************************************)
OrderRows ==
  [id : Nat, owner : Accounts, by : Accounts \cup {None}, state : OpenStates \cup {"cancelled"}]

Mounts == [stage : {"asked", "served", "done"}, list : SUBSET OrderRows, overtaken : BOOLEAN]

TicketTypeOK ==
  /\ form \in Forms \cup {Blank} /\ account \in Accounts \cup {None}
  /\ token \in Tokens \cup {None} /\ ticket \in Tickets /\ busy \in Handlers \cup {None}
  /\ orders \subseteq OrderRows /\ shown \subseteq OrderRows /\ mount \in Mounts
  /\ sent \subseteq [quote : Nat, key : Nat, sig : Signatures]
  /\ told \subseteq Nat /\ unlisted \in BOOLEAN /\ clicks \in Nat /\ changes \in Nat

\* What left for the quote on screen left as the ticket keeps it.
SentAsKept ==
  ticket.quote # None => \A s \in sent : s.quote = ticket.quote.id => s.sig = ticket.signed

\* The handler is the last click's, and younger than every quote.
ClicksCount ==
  /\ ticket.quote # None => ticket.quote.id <= clicks
  /\ \A s \in sent : s.quote <= clicks /\ s.key = s.quote
  /\ busy # None =>
       /\ busy.id = clicks
       /\ ticket.quote # None => ticket.quote.id < clicks
       /\ busy.ticket.quote # None => busy.ticket.quote.id < clicks
       /\ \A s \in sent : s.quote < clicks

\* The handler that submits has a quote, and the ticket is still that one or was
\* cleared.
SubmitHolds ==
  busy # None /\ busy.op = "submit" =>
    /\ busy.stage \in {"sign", "send", "answer"}
    /\ busy.ticket.quote # None /\ busy.ticket.key = busy.ticket.quote.id
    /\ busy.ticket.signed # None => busy.ticket.signed.of = busy.ticket.quote.id
    /\ ticket.quote # None => ticket.quote = busy.ticket.quote
    /\ busy.stage = "sign" =>
         /\ ticket.quote # None => ticket.signed = busy.ticket.signed
         /\ \A s \in sent : s.quote = busy.ticket.quote.id => s.sig = busy.ticket.signed
    /\ busy.stage \in {"send", "answer"} =>
         /\ busy.sig \in Signatures /\ busy.sig.of = busy.ticket.quote.id
         /\ ticket.quote # None => ticket.signed = busy.sig
         /\ \A s \in sent : s.quote = busy.ticket.quote.id => s.sig = busy.sig

\* What the handler captured is what is there, unless it was told otherwise.
CapturedHolds ==
  busy # None =>
    /\ ~busy.edited => busy.form = form
    /\ busy.op = "preview" => ticket.quote = None /\ busy.stage \in {"wallet", "ask"}
    /\ busy.op = "preview" /\ busy.stage = "ask" => busy.who \in Accounts
    /\ busy.by # None /\ ~busy.switched => account = busy.by
    /\ busy.stage = "verify" => busy.token \in Tokens /\ (~busy.switched => busy.token.of = account)
    /\ busy.stage = "prepare" => busy.token \in Tokens
    /\ busy.stage = "confirm" => busy.sig \in Accounts

\* Ids of the orders of a list.
IdsOf(list) == {o.id : o \in list}

\* What the user was told is on the list on screen and on the one under way,
\* unless a newer list is owed.
ListsHold ==
  /\ busy # None /\ busy.op = "create" /\ busy.stage \in {"sign", "confirm"} =>
       \E o \in orders : o.id = busy.id
  /\ mount.stage = "asked" => ~mount.overtaken
  /\ (busy = None \/ busy.stage # "list") /\ ~unlisted /\ ~mount.overtaken =>
       /\ told \subseteq IdsOf(shown)
       /\ mount.stage = "served" => told \subseteq IdsOf(mount.list)

TicketInv ==
  /\ TicketTypeOK /\ SentAsKept /\ ClicksCount /\ SubmitHolds /\ CapturedHolds /\ ListsHold
  /\ TicketIsTrue

Quoting == SentAsKept /\ ClicksCount /\ SubmitHolds /\ OneSubmission /\ TicketIsOne
Wallet == CapturedHolds /\ TokenIsOwners
Listing == ListsHold /\ ToldIsShown

\* The ticket nobody has used.
LEMMA NoTicketTyped ==
  /\ NoTicket \in Tickets /\ NoTicket.quote = None /\ NoTicket.key = None /\ NoTicket.signed = None
  /\ None \notin Accounts /\ None \notin Nat /\ None \notin Quotes /\ None \notin Signatures
  /\ None \notin Tokens /\ None \notin Handlers
BY TicketAssumption DEF NoTicket, Tickets

\* The parts of the invariant.
LEMMA TicketKnown ==
  TicketInv <=> TicketTypeOK /\ Quoting /\ Wallet /\ Listing
BY DEF TicketInv, TicketIsTrue, Quoting, Wallet, Listing

\* A handler that submits nothing moves on.
LEMMA HandlerMoves ==
  ASSUME TicketInv, busy # None, NEW h \in Handlers, busy' = h, UNCHANGED <<form, ticket, sent, clicks>>,
         h.op = busy.op, h.id = busy.id, h.ticket = busy.ticket, busy.op # "submit"
  PROVE  Quoting'
<1>1. h # None
  BY NoTicketTyped
<1>2. SentAsKept' /\ ClicksCount' /\ SubmitHolds'
  BY <1>1 DEF TicketInv, SentAsKept, ClicksCount, SubmitHolds
<1>3. OneSubmission' /\ TicketIsOne'
  BY DEF TicketInv, TicketIsTrue, OneSubmission, TicketIsOne
<1> QED BY <1>2, <1>3 DEF Quoting

\* A handler ends.
LEMMA HandlerEnds ==
  ASSUME TicketInv, busy' = None, UNCHANGED <<form, ticket, sent, clicks>>
  PROVE  Quoting'
<1>1. SentAsKept' /\ ClicksCount' /\ SubmitHolds'
  BY DEF TicketInv, SentAsKept, ClicksCount, SubmitHolds
<1>2. OneSubmission' /\ TicketIsOne'
  BY DEF TicketInv, TicketIsTrue, OneSubmission, TicketIsOne
<1> QED BY <1>1, <1>2 DEF Quoting

\* Nothing the user was told or shown changes.
LEMMA ListsStay ==
  ASSUME TicketInv, UNCHANGED <<orders, shown, mount, told, unlisted>>,
         busy' = None \/ busy' \in Handlers,
         busy = None /\ busy' # None =>
           /\ busy'.stage \in {"wallet", "sign", "auth"}
           /\ busy'.op = "create" => busy'.stage # "sign",
         busy # None => busy.stage # "list",
         busy # None /\ busy' # None =>
           /\ busy'.op = busy.op /\ busy'.id = busy.id
           /\ busy'.stage \in {"sign", "confirm"} => busy.stage \in {"sign", "confirm"} \/ busy.op # "create"
  PROVE  Listing'
<1>1. ListsHold'
  <2>1. (busy' # None /\ busy'.op = "create" /\ busy'.stage \in {"sign", "confirm"}) =>
           \E o \in orders : o.id = busy'.id
    BY DEF TicketInv, ListsHold
  <2> QED BY <2>1 DEF TicketInv, ListsHold
<1>2. ToldIsShown'
  BY DEF TicketInv, TicketIsTrue, ToldIsShown, ListsHold, IdsOf
<1> QED BY <1>1, <1>2 DEF Listing

\* The user edits the form.
LEMMA EditKeeps ==
  ASSUME TicketInv, NEW f \in Forms, Edit(f)
  PROVE  TicketInv'
<1>1. /\ form' = f /\ f # form /\ ticket' = NoTicket /\ changes' = changes + 1
      /\ UNCHANGED <<account, token, orders, shown, mount, sent, told, unlisted, clicks>>
  BY DEF Edit, Cleared
<1>2. \/ busy = None /\ busy' = None
      \/ \E h \in Handlers : /\ busy # None /\ busy' = h /\ h.edited /\ h.op = busy.op /\ h.id = busy.id
                             /\ h.stage = busy.stage /\ h.ticket = busy.ticket /\ h.sig = busy.sig
                             /\ h.who = busy.who /\ h.by = busy.by /\ h.token = busy.token
                             /\ h.switched = busy.switched
  <2>1. CASE busy = None
    BY <2>1 DEF Edit
  <2>2. CASE busy # None
    <3> DEFINE h == [busy EXCEPT !.edited = TRUE]
    <3>1. busy \in Handlers
      BY <2>2 DEF TicketInv, TicketTypeOK
    <3>2. h \in Handlers /\ busy' = h
      BY <2>2, <3>1 DEF Edit, Handlers
    <3> QED BY <2>2, <3>1, <3>2 DEF Handlers
  <2> QED BY <2>1, <2>2
<1>3. TicketTypeOK'
  BY <1>1, <1>2, NoTicketTyped DEF TicketInv, TicketTypeOK
<1>4. SentAsKept' /\ TicketIsOne' /\ OneSubmission'
  BY <1>1, NoTicketTyped DEF TicketInv, TicketIsTrue, SentAsKept, TicketIsOne, OneSubmission
<1>5. ClicksCount' /\ SubmitHolds'
  BY <1>1, <1>2, NoTicketTyped DEF TicketInv, ClicksCount, SubmitHolds
<1>6. Wallet'
  BY <1>1, <1>2, NoTicketTyped DEF TicketInv, TicketIsTrue, CapturedHolds, TokenIsOwners, Wallet
<1>7. ListsHold' /\ ToldIsShown'
  BY <1>1, <1>2, NoTicketTyped DEF TicketInv, TicketIsTrue, ListsHold, ToldIsShown
<1> QED BY <1>3, <1>4, <1>5, <1>6, <1>7, TicketKnown DEF Quoting, Listing, TicketInv, TicketIsTrue, Wallet

\* The wallet shows another account, or none.
LEMMA SwitchKeeps ==
  ASSUME TicketInv, NEW a \in Accounts \cup {None}, SwitchWallet(a)
  PROVE  TicketInv'
<1>1. /\ account' = a /\ a # account /\ token' = None /\ changes' = changes + 1
      /\ UNCHANGED <<form, ticket, orders, shown, mount, sent, told, unlisted, clicks>>
  BY DEF SwitchWallet, TokenFor
<1>2. \/ busy = None /\ busy' = None
      \/ \E h \in Handlers : /\ busy # None /\ busy' = h /\ h.switched /\ h.op = busy.op /\ h.id = busy.id
                             /\ h.stage = busy.stage /\ h.ticket = busy.ticket /\ h.sig = busy.sig
                             /\ h.who = busy.who /\ h.by = busy.by /\ h.token = busy.token
                             /\ h.edited = busy.edited /\ h.form = busy.form
  <2>1. CASE busy = None
    BY <2>1 DEF SwitchWallet
  <2>2. CASE busy # None
    <3> DEFINE h == [busy EXCEPT !.switched = TRUE]
    <3>1. busy \in Handlers
      BY <2>2 DEF TicketInv, TicketTypeOK
    <3>2. h \in Handlers /\ busy' = h
      BY <2>2, <3>1 DEF SwitchWallet, Handlers
    <3> QED BY <2>2, <3>1, <3>2 DEF Handlers
  <2> QED BY <2>1, <2>2
<1>3. TicketTypeOK'
  BY <1>1, <1>2, NoTicketTyped DEF TicketInv, TicketTypeOK
<1>4. SentAsKept' /\ TicketIsOne' /\ OneSubmission'
  BY <1>1, NoTicketTyped DEF TicketInv, TicketIsTrue, SentAsKept, TicketIsOne, OneSubmission
<1>5. ClicksCount' /\ SubmitHolds'
  BY <1>1, <1>2, NoTicketTyped DEF TicketInv, ClicksCount, SubmitHolds
<1>6. Wallet'
  BY <1>1, <1>2, NoTicketTyped DEF TicketInv, TicketIsTrue, CapturedHolds, TokenIsOwners, Wallet
<1>7. ListsHold' /\ ToldIsShown'
  BY <1>1, <1>2, NoTicketTyped DEF TicketInv, TicketIsTrue, ListsHold, ToldIsShown
<1> QED BY <1>3, <1>4, <1>5, <1>6, <1>7, TicketKnown DEF Quoting, Listing, TicketInv, TicketIsTrue, Wallet

\* The list asked for when the page was mounted.
LEMMA MountKeeps ==
  ASSUME TicketInv, MountServed \/ MountArrives
  PROVE  TicketInv'
<1>1. UNCHANGED <<form, account, token, ticket, busy, orders, sent, told, unlisted, clicks, changes>>
  BY DEF MountServed, MountArrives
<1>2. Quoting' /\ Wallet'
  BY <1>1 DEF TicketInv, TicketIsTrue, Quoting, Wallet, SentAsKept, ClicksCount, SubmitHolds, OneSubmission,
      TicketIsOne, CapturedHolds, TokenIsOwners
<1>3. mount \in Mounts /\ orders \subseteq OrderRows /\ shown \subseteq OrderRows
  BY DEF TicketInv, TicketTypeOK
<1>4. told \subseteq IdsOf({o \in orders : o.state # "prepared"}) /\ told \subseteq IdsOf(orders)
  BY DEF TicketInv, TicketIsTrue, ToldIsShown, IdsOf
<1>5. CASE MountServed
  <2>1. /\ mount.stage = "asked" /\ ~mount.overtaken /\ shown' = shown
        /\ mount' = [mount EXCEPT !.stage = "served", !.list = orders]
    BY <1>5 DEF MountServed, TicketInv, ListsHold
  <2>2. mount' \in Mounts /\ mount'.stage = "served" /\ mount'.list = orders /\ mount'.overtaken = mount.overtaken
    BY <1>3, <2>1 DEF Mounts
  <2>3. TicketTypeOK'
    BY <1>1, <2>1, <2>2 DEF TicketInv, TicketTypeOK
  <2>4. Listing'
    BY <1>1, <1>4, <2>1, <2>2 DEF TicketInv, TicketIsTrue, Listing, ListsHold, ToldIsShown, IdsOf
  <2> QED BY <1>2, <2>3, <2>4, TicketKnown DEF TicketInv, TicketIsTrue, Quoting, Wallet, Listing
<1>6. CASE MountArrives
  <2>1. /\ mount.stage = "served" /\ shown' = mount.list
        /\ mount' = [mount EXCEPT !.stage = "done"]
    BY <1>6 DEF MountArrives
  <2>2. /\ mount' \in Mounts /\ mount'.stage = "done" /\ mount'.overtaken = mount.overtaken
        /\ mount.list \subseteq OrderRows
    BY <1>3, <2>1 DEF Mounts
  <2>3. TicketTypeOK'
    BY <1>1, <2>1, <2>2 DEF TicketInv, TicketTypeOK
  <2>4. Listing'
    BY <1>1, <1>4, <2>1, <2>2 DEF TicketInv, TicketIsTrue, Listing, ListsHold, ToldIsShown, IdsOf
  <2> QED BY <1>2, <2>3, <2>4 DEF TicketInv, TicketIsTrue, Quoting, Wallet, Listing
<1> QED BY <1>5, <1>6

\* A click starts a handler.
LEMMA ClickKeeps ==
  ASSUME TicketInv, NEW op, NEW stage, NEW order, Click(op, stage, order),
         op \in {"preview", "submit", "create", "cancel", "update", "sync"},
         stage \in {"wallet", "sign", "auth", "ask"}, order \in Nat \cup {None},
         op = "submit" => stage = "sign" /\ ticket.quote # None,
         op = "preview" => stage = "wallet" /\ ticket.quote = None,
         op \notin {"submit", "preview"} => stage \in {"wallet", "auth"}
  PROVE  TicketInv'
<1> DEFINE h == [op |-> op, stage |-> stage, id |-> clicks + 1, form |-> form, by |-> account,
                 who |-> None, token |-> token, ticket |-> ticket, order |-> order, sig |-> None,
                 edited |-> FALSE, switched |-> FALSE]
<1>1. /\ busy = None /\ clicks' = clicks + 1 /\ busy' = h
      /\ UNCHANGED <<form, account, token, ticket, orders, shown, mount, sent, told, unlisted, changes>>
  BY DEF Click
<1>2. TicketTypeOK
  BY DEF TicketInv
<1>3. h \in Handlers
  BY <1>2 DEF TicketTypeOK, Handlers
<1>4. /\ h.op = op /\ h.stage = stage /\ h.id = clicks + 1 /\ h.form = form /\ h.by = account
      /\ h.token = token /\ h.ticket = ticket /\ ~h.edited
  OBVIOUS
<1> HIDE DEF h
<1>5. h # None /\ clicks \in Nat /\ ticket \in Tickets
  BY <1>2, <1>3, NoTicketTyped DEF TicketTypeOK
<1>6. TicketTypeOK'
  BY <1>1, <1>2, <1>3 DEF TicketTypeOK
<1>7. SentAsKept' /\ TicketIsOne' /\ OneSubmission'
  BY <1>1 DEF TicketInv, TicketIsTrue, SentAsKept, TicketIsOne, OneSubmission
<1>8. ClicksCount'
  <2>1. ticket.quote # None => ticket.quote.id \in Nat
    BY <1>5 DEF Tickets, Quotes
  <2>2. \A s \in sent : s.quote \in Nat
    BY <1>2 DEF TicketTypeOK
  <2> QED BY <1>1, <1>4, <1>5, <2>1, <2>2 DEF TicketInv, ClicksCount
<1>9. SubmitHolds'
  BY <1>1, <1>4, <1>5 DEF TicketInv, TicketIsTrue, TicketIsOne, SentAsKept, SubmitHolds
<1>10. Wallet'
  BY <1>1, <1>4, <1>5 DEF TicketInv, TicketIsTrue, CapturedHolds, TokenIsOwners, Wallet
<1>11. Listing'
  BY <1>1, <1>4, <1>5 DEF TicketInv, TicketIsTrue, Listing, ListsHold, ToldIsShown
<1> QED BY <1>6, <1>7, <1>8, <1>9, <1>10, <1>11 DEF Wallet, Listing, TicketInv, TicketIsTrue

\* The clicks.
LEMMA ClicksKeep ==
  ASSUME TicketInv,
         \/ PreviewSwap \/ SubmitSwap \/ CreateOrder \/ SyncOrders
         \/ \E o \in shown : CancelOrder(o) \/ UpdateOrder(o)
  PROVE  TicketInv'
<1>1. CASE PreviewSwap
  BY <1>1, ClickKeeps DEF PreviewSwap
<1>2. CASE SubmitSwap
  BY <1>2, ClickKeeps DEF SubmitSwap
<1>3. CASE CreateOrder
  BY <1>3, ClickKeeps DEF CreateOrder
<1>4. CASE SyncOrders
  BY <1>4, ClickKeeps DEF SyncOrders
<1>5. ASSUME NEW o \in shown, CancelOrder(o) \/ UpdateOrder(o) PROVE TicketInv'
  <2>1. o.id \in Nat
    BY DEF TicketInv, TicketTypeOK, OrderRows
  <2>2. CASE CancelOrder(o)
    BY <2>1, <2>2, ClickKeeps DEF CancelOrder
  <2>3. CASE UpdateOrder(o)
    BY <2>1, <2>3, ClickKeeps DEF UpdateOrder
  <2> QED BY <1>5, <2>2, <2>3
<1> QED BY <1>1, <1>2, <1>3, <1>4, <1>5

\* The account the wallet answers with, and the token that is kept for it.
LEMMA EnsuredKeeps ==
  ASSUME TicketInv, busy # None, NEW a \in Accounts, Ensured(a)
  PROVE  /\ account' \in Accounts \cup {None} /\ token' \in Tokens \cup {None} /\ TokenIsOwners'
         /\ busy.by # None => a = busy.by /\ account' = account
         /\ busy.by = None => account' = a
<1>1. CASE busy.by # None
  <2>1. a = busy.by /\ UNCHANGED <<account, token>>
    BY <1>1 DEF Ensured
  <2> QED BY <1>1, <2>1 DEF TicketInv, TicketIsTrue, TicketTypeOK, TokenIsOwners
<1>2. CASE busy.by = None
  <2>1. account' = a /\ token' = TokenFor(a)
    BY <1>2 DEF Ensured
  <2> QED BY <1>2, <2>1 DEF TicketInv, TicketIsTrue, TicketTypeOK, TokenIsOwners, TokenFor
<1> QED BY <1>1, <1>2

\* The wallet is asked for an account.
LEMMA GetWalletKeeps ==
  ASSUME TicketInv, NEW a \in Accounts, GetWallet(a)
  PROVE  TicketInv'
<1> DEFINE stage == IF busy.op = "preview" THEN "ask" ELSE "auth"
           h == [busy EXCEPT !.who = a, !.stage = stage]
<1>1. /\ stage \in {"ask", "auth"} /\ (busy.op # "preview" => stage # "ask")
      /\ busy.op = "preview" => stage = "ask"
  OBVIOUS
<1>2. /\ busy # None /\ busy.op \in {"preview", "create", "cancel"} /\ busy.stage = "wallet"
      /\ Ensured(a) /\ busy' = h
      /\ UNCHANGED <<form, ticket, orders, shown, mount, sent, told, unlisted, clicks, changes>>
  BY DEF GetWallet, At
<1> HIDE DEF stage
<1>3. TicketTypeOK /\ busy \in Handlers
  BY <1>2 DEF TicketInv, TicketTypeOK
<1>4. /\ h \in Handlers /\ h.op = busy.op /\ h.stage = stage /\ h.who = a /\ h.by = busy.by
      /\ h.id = busy.id /\ h.ticket = busy.ticket /\ h.form = busy.form /\ h.edited = busy.edited
      /\ h.switched = busy.switched /\ h.token = busy.token
  BY <1>3, <1>1 DEF Handlers
<1>5. h # None
  BY <1>4, NoTicketTyped
<1> HIDE DEF h
<1>6. /\ account' \in Accounts \cup {None} /\ token' \in Tokens \cup {None} /\ TokenIsOwners'
      /\ busy.by # None => a = busy.by /\ account' = account
  BY <1>2, EnsuredKeeps
<1>7. TicketTypeOK'
  BY <1>2, <1>3, <1>4, <1>6 DEF TicketTypeOK
<1>8. Quoting'
  BY <1>2, <1>4, HandlerMoves
<1>9. CapturedHolds'
  BY <1>2, <1>4, <1>5, <1>1, <1>6 DEF TicketInv, CapturedHolds
<1>10. Listing'
  BY <1>2, <1>4, <1>5, <1>1, ListsStay
<1> QED BY <1>6, <1>7, <1>8, <1>9, <1>10 DEF Quoting, Listing, TicketInv, TicketIsTrue

\* A quote arrives.
LEMMA QuotedKeeps ==
  ASSUME TicketInv, Quoted
  PROVE  TicketInv'
<1> DEFINE q == [id |-> busy.id, form |-> busy.form, taker |-> busy.who, late |-> busy.edited]
           k == [quote |-> q, key |-> busy.id, signed |-> None]
<1>1. /\ busy # None /\ busy.op = "preview" /\ busy.stage = "ask" /\ ticket' = k /\ busy' = None
      /\ UNCHANGED <<form, account, token, orders, shown, mount, sent, told, unlisted, clicks, changes>>
  BY DEF Quoted, At, Ends, QuoteTicket
<1>2. TicketTypeOK /\ busy \in Handlers /\ busy.who \in Accounts /\ busy.id = clicks
      /\ (~busy.edited => busy.form = form) /\ clicks \in Nat /\ (\A s \in sent : s.quote < clicks)
  BY <1>1 DEF TicketInv, TicketTypeOK, CapturedHolds, ClicksCount
<1>3. q \in Quotes
  BY <1>2 DEF Handlers, Quotes
<1>4. k \in Tickets /\ k.quote = q /\ k.key = q.id /\ k.signed = None /\ q.id = clicks
      /\ q.form = busy.form /\ q.late = busy.edited
  BY <1>2, <1>3 DEF Tickets
<1> HIDE DEF q, k
<1>5. TicketTypeOK'
  BY <1>1, <1>2, <1>4 DEF TicketTypeOK
<1>6. SentAsKept'
  <2>1. \A s \in sent : s.quote \in Nat
    BY <1>2 DEF TicketTypeOK
  <2> QED BY <1>1, <1>2, <1>4, <2>1 DEF SentAsKept
<1>7. ClicksCount' /\ SubmitHolds' /\ CapturedHolds'
  BY <1>1, <1>2, <1>4 DEF TicketInv, ClicksCount, SubmitHolds, CapturedHolds
<1>8. OneSubmission' /\ TicketIsOne'
  BY <1>1, <1>2, <1>4 DEF TicketInv, TicketIsTrue, OneSubmission, TicketIsOne
<1>9. TokenIsOwners'
  BY <1>1 DEF TicketInv, TicketIsTrue, TokenIsOwners
<1>10. Listing'
  BY <1>1, ListsStay
<1> QED BY <1>5, <1>6, <1>7, <1>8, <1>9, <1>10 DEF Listing, TicketInv, TicketIsTrue

\* A request is made with the token the click found.
LEMMA HasTokenKeeps ==
  ASSUME TicketInv, HasToken
  PROVE  TicketInv'
<1> DEFINE stage == WorkStage[busy.op]
           h == [busy EXCEPT !.stage = stage]
<1>1. /\ busy # None /\ busy.op \in {"create", "cancel", "sync", "update"} /\ busy.stage = "auth"
      /\ busy.token # None /\ busy' = h
      /\ UNCHANGED <<form, account, token, ticket, orders, shown, mount, sent, told, unlisted, clicks, changes>>
  BY DEF HasToken, At, Goes
<1>2. /\ stage \in {"prepare", "ask"} /\ (busy.op = "create" => stage = "prepare")
  BY <1>1 DEF WorkStage
<1> HIDE DEF stage
<1>3. TicketTypeOK /\ busy \in Handlers
  BY <1>1 DEF TicketInv, TicketTypeOK
<1>4. /\ h \in Handlers /\ h.op = busy.op /\ h.stage = stage /\ h.by = busy.by /\ h.token = busy.token
      /\ h.id = busy.id /\ h.ticket = busy.ticket /\ h.form = busy.form /\ h.edited = busy.edited
      /\ h.switched = busy.switched
  BY <1>2, <1>3 DEF Handlers
<1>5. h # None /\ busy.token \in Tokens
  BY <1>1, <1>3, <1>4, NoTicketTyped DEF Handlers
<1> HIDE DEF h
<1>6. TicketTypeOK'
  BY <1>1, <1>3, <1>4 DEF TicketTypeOK
<1>7. Quoting'
  BY <1>1, <1>4, HandlerMoves
<1>8. CapturedHolds' /\ TokenIsOwners'
  BY <1>1, <1>2, <1>4, <1>5 DEF TicketInv, TicketIsTrue, CapturedHolds, TokenIsOwners
<1>9. Listing'
  BY <1>1, <1>2, <1>4, ListsStay
<1> QED BY <1>6, <1>7, <1>8, <1>9 DEF Quoting, Listing, TicketInv, TicketIsTrue

\* A wallet signs the provider's challenge.
LEMMA ChallengedKeeps ==
  ASSUME TicketInv, NEW a \in Accounts, Challenged(a)
  PROVE  TicketInv'
<1> DEFINE t == [of |-> a, crossed |-> FALSE]
           sw == busy.by # None /\ busy.switched
           h == [busy EXCEPT !.token = t, !.stage = "verify", !.switched = sw]
<1>1. /\ busy # None /\ busy.op \in {"create", "cancel", "sync", "update"} /\ busy.stage = "auth"
      /\ Ensured(a) /\ busy' = h
      /\ UNCHANGED <<form, ticket, orders, shown, mount, sent, told, unlisted, clicks, changes>>
  BY DEF Challenged, At
<1>2. TicketTypeOK /\ busy \in Handlers
  BY <1>1 DEF TicketInv, TicketTypeOK
<1>3. t \in Tokens /\ t.of = a /\ sw \in BOOLEAN
  BY DEF Tokens
<1>4. /\ sw => busy.by # None /\ busy.switched
      /\ busy.by # None /\ ~sw => ~busy.switched
  OBVIOUS
<1> HIDE DEF t, sw
<1>5. /\ h \in Handlers /\ h.op = busy.op /\ h.stage = "verify" /\ h.by = busy.by /\ h.token = t
      /\ h.id = busy.id /\ h.ticket = busy.ticket /\ h.form = busy.form /\ h.edited = busy.edited
      /\ h.switched = sw
  BY <1>2, <1>3 DEF Handlers
<1> HIDE DEF h
<1>6. h # None
  BY <1>5, NoTicketTyped
<1>7. /\ account' \in Accounts \cup {None} /\ token' \in Tokens \cup {None} /\ TokenIsOwners'
      /\ busy.by # None => a = busy.by /\ account' = account
      /\ busy.by = None => account' = a
  BY <1>1, EnsuredKeeps
<1>8. TicketTypeOK'
  BY <1>1, <1>2, <1>5, <1>7 DEF TicketTypeOK
<1>9. Quoting'
  BY <1>1, <1>5, HandlerMoves
<1>10. CapturedHolds'
  <2>1. ~sw => account' = a
    BY <1>1, <1>4, <1>7 DEF TicketInv, CapturedHolds
  <2>2. ~busy.edited => busy.form = form
    BY <1>1 DEF TicketInv, CapturedHolds
  <2> QED BY <1>1, <1>3, <1>5, <1>6, <1>7, <2>1, <2>2 DEF CapturedHolds
<1>11. Listing'
  BY <1>1, <1>5, ListsStay
<1> QED BY <1>7, <1>8, <1>9, <1>10, <1>11 DEF Quoting, Listing, TicketInv, TicketIsTrue

\* The provider answers the challenge with a token.
LEMMA VerifiedKeeps ==
  ASSUME TicketInv, Verified
  PROVE  TicketInv'
<1> DEFINE t == [busy.token EXCEPT !.crossed = busy.switched]
           stage == WorkStage[busy.op]
           h == [busy EXCEPT !.token = t, !.stage = stage]
<1>1. /\ busy # None /\ busy.op \in {"create", "cancel", "sync", "update"} /\ busy.stage = "verify"
      /\ token' = t /\ busy' = h
      /\ UNCHANGED <<form, account, ticket, orders, shown, mount, sent, told, unlisted, clicks, changes>>
  BY DEF Verified, At
<1>2. /\ stage \in {"prepare", "ask"} /\ (busy.op = "create" => stage = "prepare")
  BY <1>1 DEF WorkStage
<1>3. TicketTypeOK /\ busy \in Handlers /\ busy.token \in Tokens /\ (~busy.switched => busy.token.of = account)
  BY <1>1 DEF TicketInv, TicketTypeOK, CapturedHolds
<1>4. t \in Tokens /\ t.of = busy.token.of /\ t.crossed = busy.switched
  BY <1>3 DEF Tokens, Handlers
<1> HIDE DEF t, stage
<1>5. /\ h \in Handlers /\ h.op = busy.op /\ h.stage = stage /\ h.by = busy.by /\ h.token = t
      /\ h.id = busy.id /\ h.ticket = busy.ticket /\ h.form = busy.form /\ h.edited = busy.edited
      /\ h.switched = busy.switched
  BY <1>2, <1>3, <1>4 DEF Handlers
<1> HIDE DEF h
<1>6. h # None
  BY <1>5, NoTicketTyped
<1>7. TicketTypeOK'
  BY <1>1, <1>3, <1>4, <1>5 DEF TicketTypeOK
<1>8. Quoting'
  BY <1>1, <1>5, HandlerMoves
<1>9. CapturedHolds' /\ TokenIsOwners'
  BY <1>1, <1>2, <1>3, <1>4, <1>5, <1>6 DEF TicketInv, CapturedHolds, TokenIsOwners
<1>10. Listing'
  BY <1>1, <1>2, <1>5, ListsStay
<1> QED BY <1>7, <1>8, <1>9, <1>10 DEF Quoting, Listing, TicketInv, TicketIsTrue

\* What a request does on the server keeps every order, and leaves no order that
\* was active or cancelled only prepared.
LEMMA ServedKeeps ==
  ASSUME TicketInv, busy # None, busy.op \in {"create", "cancel"}, busy.stage \in {"prepare", "confirm"}, Accepted
  PROVE  /\ Served \subseteq OrderRows
         /\ told \subseteq IdsOf({o \in Served : o.state # "prepared"})
         /\ busy.op = "create" => \E o \in Served : o.id = busy.id
         /\ busy.op = "create" /\ busy.stage = "confirm" =>
              busy.id \in IdsOf({o \in Served : o.state # "prepared"})
<1>1. /\ busy \in Handlers /\ orders \subseteq OrderRows /\ busy.id \in Nat
      /\ told \subseteq IdsOf({o \in orders : o.state # "prepared"})
  BY DEF TicketInv, TicketIsTrue, TicketTypeOK, ToldIsShown, Handlers, IdsOf
<1>2. CASE busy.op = "create" /\ busy.stage = "prepare"
  <2> DEFINE n == [Order(busy.id, busy.who, "prepared") EXCEPT !.by = None]
  <2>1. Served = orders \cup {n}
    BY <1>2 DEF Served
  <2>2. busy.who \in Accounts
    BY <1>2 DEF TicketInv, CapturedHolds, Accepted, Tokens
  <2>3. n \in OrderRows /\ n.id = busy.id
    BY <1>1, <2>2 DEF Order, OrderRows, OpenStates
  <2> HIDE DEF n
  <2>4. orders \subseteq Served
    BY <2>1
  <2> QED BY <1>1, <1>2, <2>1, <2>3, <2>4 DEF IdsOf
<1>3. CASE busy.op = "create" /\ busy.stage = "confirm"
  <2> DEFINE c(o) == [o EXCEPT !.state = "open", !.by = busy.sig]
  <2>1. Served = {IF o.id = busy.id THEN c(o) ELSE o : o \in orders}
    BY <1>3 DEF Served
  <2>2. busy.sig \in Accounts /\ \E o \in orders : o.id = busy.id
    BY <1>3 DEF TicketInv, CapturedHolds, ListsHold
  <2>3. \A o \in orders : c(o) \in OrderRows /\ c(o).id = o.id /\ c(o).state = "open"
    BY <1>1, <2>2 DEF OrderRows, OpenStates
  <2> HIDE DEF c
  <2>4. Served \subseteq OrderRows
    BY <1>1, <2>1, <2>3
  <2>5. PICK p \in orders : p.id = busy.id
    BY <2>2
  <2>6. c(p) \in Served /\ c(p).id = busy.id /\ c(p).state # "prepared"
    BY <2>1, <2>3, <2>5
  <2>7. told \subseteq IdsOf({o \in Served : o.state # "prepared"})
    <3> SUFFICES ASSUME NEW i \in told PROVE \E o \in Served : o.state # "prepared" /\ o.id = i
      BY DEF IdsOf
    <3>1. PICK o \in orders : o.state # "prepared" /\ o.id = i
      BY <1>1 DEF IdsOf
    <3>2. CASE o.id = busy.id
      BY <2>1, <2>3, <3>1, <3>2
    <3>3. CASE o.id # busy.id
      BY <2>1, <3>1, <3>3
    <3> QED BY <3>2, <3>3
  <2> QED BY <2>4, <2>6, <2>7 DEF IdsOf
<1>4. CASE busy.op = "cancel" /\ busy.stage = "confirm"
  <2> DEFINE c(o) == [o EXCEPT !.state = "cancelled"]
  <2>1. Served = {IF o.id = busy.order THEN c(o) ELSE o : o \in orders}
    BY <1>4 DEF Served
  <2>3. \A o \in orders : c(o) \in OrderRows /\ c(o).id = o.id /\ c(o).state = "cancelled"
    BY <1>1 DEF OrderRows, OpenStates
  <2> HIDE DEF c
  <2>4. Served \subseteq OrderRows
    BY <1>1, <2>1, <2>3
  <2>7. told \subseteq IdsOf({o \in Served : o.state # "prepared"})
    <3> SUFFICES ASSUME NEW i \in told PROVE \E o \in Served : o.state # "prepared" /\ o.id = i
      BY DEF IdsOf
    <3>1. PICK o \in orders : o.state # "prepared" /\ o.id = i
      BY <1>1 DEF IdsOf
    <3>2. CASE o.id = busy.order
      BY <2>1, <2>3, <3>1, <3>2
    <3>3. CASE o.id # busy.order
      BY <2>1, <3>1, <3>3
    <3> QED BY <3>2, <3>3
  <2> QED BY <1>4, <2>4, <2>7
<1>5. CASE busy.op = "cancel" /\ busy.stage = "prepare"
  BY <1>1, <1>5 DEF Served
<1> QED BY <1>2, <1>3, <1>4, <1>5

\* The provider prepares what the user is to sign.
LEMMA PreparedKeeps ==
  ASSUME TicketInv, Prepared
  PROVE  TicketInv'
<1> DEFINE h == [busy EXCEPT !.stage = "sign"]
<1>1. /\ busy # None /\ busy.op \in {"create", "cancel"} /\ busy.stage = "prepare"
      /\ Accepted /\ orders' = Served /\ busy' = h
      /\ UNCHANGED <<form, account, token, ticket, shown, mount, sent, told, unlisted, clicks, changes>>
  BY DEF Prepared, At, Goes, AfterPrepare
<1>2. TicketTypeOK /\ busy \in Handlers
  BY <1>1 DEF TicketInv, TicketTypeOK
<1>3. /\ h \in Handlers /\ h.op = busy.op /\ h.stage = "sign" /\ h.by = busy.by /\ h.token = busy.token
      /\ h.id = busy.id /\ h.ticket = busy.ticket /\ h.form = busy.form /\ h.edited = busy.edited
      /\ h.switched = busy.switched
  BY <1>2 DEF Handlers
<1> HIDE DEF h
<1>4. h # None
  BY <1>3, NoTicketTyped
<1>5. /\ orders' \subseteq OrderRows
      /\ told \subseteq IdsOf({o \in orders' : o.state # "prepared"})
      /\ busy.op = "create" => \E o \in orders' : o.id = busy.id
  BY <1>1, ServedKeeps
<1>6. TicketTypeOK'
  BY <1>1, <1>2, <1>3, <1>5 DEF TicketTypeOK
<1>7. Quoting'
  BY <1>1, <1>3, HandlerMoves
<1>8. CapturedHolds' /\ TokenIsOwners'
  BY <1>1, <1>3, <1>4 DEF TicketInv, TicketIsTrue, CapturedHolds, TokenIsOwners
<1>9. ListsHold' /\ ToldIsShown'
  <2>1. ListsHold'
    BY <1>1, <1>3, <1>4, <1>5 DEF TicketInv, ListsHold
  <2> QED BY <1>1, <1>3, <1>4, <1>5, <2>1 DEF ToldIsShown, IdsOf
<1> QED BY <1>6, <1>7, <1>8, <1>9 DEF Quoting, TicketInv, TicketIsTrue

\* The wallet signs what the provider prepared.
LEMMA SignOrderKeeps ==
  ASSUME TicketInv, NEW a \in Accounts, SignOrder(a)
  PROVE  TicketInv'
<1> DEFINE h == [busy EXCEPT !.sig = a, !.stage = "confirm"]
<1>1. /\ busy # None /\ busy.op \in {"create", "cancel"} /\ busy.stage = "sign"
      /\ Ensured(a) /\ busy' = h
      /\ UNCHANGED <<form, ticket, orders, shown, mount, sent, told, unlisted, clicks, changes>>
  BY DEF SignOrder, At
<1>2. TicketTypeOK /\ busy \in Handlers
  BY <1>1 DEF TicketInv, TicketTypeOK
<1>3. /\ h \in Handlers /\ h.op = busy.op /\ h.stage = "confirm" /\ h.by = busy.by /\ h.token = busy.token
      /\ h.id = busy.id /\ h.ticket = busy.ticket /\ h.form = busy.form /\ h.edited = busy.edited
      /\ h.switched = busy.switched /\ h.sig = a
  BY <1>2 DEF Handlers
<1> HIDE DEF h
<1>4. h # None
  BY <1>3, NoTicketTyped
<1>5. /\ account' \in Accounts \cup {None} /\ token' \in Tokens \cup {None} /\ TokenIsOwners'
      /\ busy.by # None => a = busy.by /\ account' = account
  BY <1>1, EnsuredKeeps
<1>6. TicketTypeOK'
  BY <1>1, <1>2, <1>3, <1>5 DEF TicketTypeOK
<1>7. Quoting'
  BY <1>1, <1>3, HandlerMoves
<1>8. CapturedHolds'
  BY <1>1, <1>3, <1>4, <1>5 DEF TicketInv, CapturedHolds
<1>9. Listing'
  BY <1>1, <1>3, ListsStay
<1> QED BY <1>5, <1>6, <1>7, <1>8, <1>9 DEF Quoting, Listing, TicketInv, TicketIsTrue

\* The provider takes the signature.
LEMMA ConfirmedKeeps ==
  ASSUME TicketInv, Confirmed
  PROVE  TicketInv'
<1> DEFINE h == [busy EXCEPT !.stage = "list"]
<1>1. /\ busy # None /\ busy.op \in {"create", "cancel"} /\ busy.stage = "confirm"
      /\ Accepted /\ orders' = Served /\ busy' = h
      /\ told' = IF busy.op = "create" THEN told \cup {busy.id} ELSE told
      /\ UNCHANGED <<form, account, token, ticket, shown, mount, sent, unlisted, clicks, changes>>
  BY DEF Confirmed, At, Goes, AfterConfirm
<1>2. TicketTypeOK /\ busy \in Handlers
  BY <1>1 DEF TicketInv, TicketTypeOK
<1>3. /\ h \in Handlers /\ h.op = busy.op /\ h.stage = "list" /\ h.by = busy.by /\ h.token = busy.token
      /\ h.id = busy.id /\ h.ticket = busy.ticket /\ h.form = busy.form /\ h.edited = busy.edited
      /\ h.switched = busy.switched /\ busy.id \in Nat
  BY <1>2 DEF Handlers
<1> HIDE DEF h
<1>4. h # None
  BY <1>3, NoTicketTyped
<1>5. /\ orders' \subseteq OrderRows
      /\ told' \subseteq IdsOf({o \in orders' : o.state # "prepared"})
  BY <1>1, ServedKeeps
<1>6. TicketTypeOK'
  BY <1>1, <1>2, <1>3, <1>5 DEF TicketTypeOK
<1>7. Quoting'
  BY <1>1, <1>3, HandlerMoves
<1>8. CapturedHolds' /\ TokenIsOwners'
  BY <1>1, <1>3, <1>4 DEF TicketInv, TicketIsTrue, CapturedHolds, TokenIsOwners
<1>9. ListsHold' /\ ToldIsShown'
  <2>1. ListsHold'
    BY <1>1, <1>3, <1>4 DEF TicketInv, ListsHold
  <2> QED BY <1>1, <1>3, <1>4, <1>5, <2>1 DEF ToldIsShown, IdsOf
<1> QED BY <1>6, <1>7, <1>8, <1>9 DEF Quoting, TicketInv, TicketIsTrue

\* The provider changes an order.
LEMMA UpdatedKeeps ==
  ASSUME TicketInv, Updated
  PROVE  TicketInv'
<1> DEFINE h == [busy EXCEPT !.stage = "list"]
<1>1. /\ busy # None /\ busy.op = "update" /\ busy.stage = "ask" /\ busy' = h
      /\ UNCHANGED <<form, account, token, ticket, orders, shown, mount, sent, told, unlisted, clicks, changes>>
  BY DEF Updated, At, Goes
<1>2. TicketTypeOK /\ busy \in Handlers
  BY <1>1 DEF TicketInv, TicketTypeOK
<1>3. /\ h \in Handlers /\ h.op = busy.op /\ h.stage = "list" /\ h.by = busy.by /\ h.token = busy.token
      /\ h.id = busy.id /\ h.ticket = busy.ticket /\ h.form = busy.form /\ h.edited = busy.edited
      /\ h.switched = busy.switched
  BY <1>2 DEF Handlers
<1> HIDE DEF h
<1>4. h # None
  BY <1>3, NoTicketTyped
<1>5. TicketTypeOK'
  BY <1>1, <1>2, <1>3 DEF TicketTypeOK
<1>6. Quoting'
  BY <1>1, <1>3, HandlerMoves
<1>7. CapturedHolds' /\ TokenIsOwners'
  BY <1>1, <1>3, <1>4 DEF TicketInv, TicketIsTrue, CapturedHolds, TokenIsOwners
<1>8. Listing'
  BY <1>1, <1>3, ListsStay
<1> QED BY <1>5, <1>6, <1>7, <1>8 DEF Quoting, Listing, TicketInv, TicketIsTrue

\* The list comes, or does not.
LEMMA ListedKeeps ==
  ASSUME TicketInv, Listed \/ NotListed
  PROVE  TicketInv'
<1>1. /\ busy # None /\ busy' = None
      /\ UNCHANGED <<form, account, token, ticket, orders, sent, told, clicks, changes>>
  BY DEF Listed, NotListed, At, Ends
<1>2. TicketTypeOK
  BY DEF TicketInv
<1>3. told \subseteq IdsOf({o \in orders : o.state # "prepared"}) /\ told \subseteq IdsOf(orders)
  BY DEF TicketInv, TicketIsTrue, ToldIsShown, IdsOf
<1>4. Quoting'
  BY <1>1, HandlerEnds
<1>5. CapturedHolds' /\ TokenIsOwners'
  BY <1>1 DEF TicketInv, TicketIsTrue, CapturedHolds, TokenIsOwners
<1>6. CASE Listed
  <2>1. shown' = orders /\ unlisted' = FALSE /\ mount' = [mount EXCEPT !.overtaken = mount.stage = "served"]
    BY <1>6 DEF Listed
  <2>2. mount' \in Mounts /\ mount'.stage = mount.stage /\ (mount'.overtaken <=> mount.stage = "served")
    BY <1>2, <2>1 DEF TicketTypeOK, Mounts
  <2>3. TicketTypeOK'
    BY <1>1, <1>2, <2>1, <2>2 DEF TicketTypeOK
  <2>4. ListsHold' /\ ToldIsShown'
    BY <1>1, <1>3, <2>1, <2>2 DEF ListsHold, ToldIsShown, IdsOf
  <2> QED BY <1>4, <1>5, <2>3, <2>4 DEF Quoting, TicketInv, TicketIsTrue
<1>7. CASE NotListed
  <2>1. unlisted' = TRUE /\ UNCHANGED <<shown, mount>>
    BY <1>7 DEF NotListed
  <2>2. TicketTypeOK'
    BY <1>1, <1>2, <2>1 DEF TicketTypeOK
  <2>3. ListsHold' /\ ToldIsShown'
    BY <1>1, <1>3, <2>1 DEF TicketInv, ListsHold, ToldIsShown, IdsOf
  <2> QED BY <1>4, <1>5, <2>2, <2>3 DEF Quoting, TicketInv, TicketIsTrue
<1> QED BY <1>6, <1>7

\* The signature the handler will send is made, or kept.
LEMMA SignKeeps ==
  ASSUME TicketInv, NEW s \in Signatures, busy # None, busy.op = "submit", busy.stage = "sign",
         s.of = busy.ticket.quote.id, busy.ticket.signed # None => s = busy.ticket.signed,
         busy' = [busy EXCEPT !.sig = s, !.stage = "send"], ticket' = [ticket EXCEPT !.signed = s],
         account' \in Accounts \cup {None}, token' \in Tokens \cup {None}, TokenIsOwners',
         busy.by # None => account' = account,
         UNCHANGED <<form, orders, shown, mount, sent, told, unlisted, clicks, changes>>
  PROVE  TicketInv'
<1> DEFINE h == [busy EXCEPT !.sig = s, !.stage = "send"]
           k == [ticket EXCEPT !.signed = s]
<1>1. TicketTypeOK /\ busy \in Handlers /\ ticket \in Tickets
  BY DEF TicketInv, TicketTypeOK
<1>2. /\ h \in Handlers /\ h.op = busy.op /\ h.stage = "send" /\ h.by = busy.by /\ h.token = busy.token
      /\ h.id = busy.id /\ h.ticket = busy.ticket /\ h.form = busy.form /\ h.edited = busy.edited
      /\ h.switched = busy.switched /\ h.sig = s /\ busy' = h
  BY <1>1 DEF Handlers
<1>3. k \in Tickets /\ k.quote = ticket.quote /\ k.key = ticket.key /\ k.signed = s /\ ticket' = k
  BY <1>1 DEF Tickets
<1> HIDE DEF h, k
<1>4. h # None /\ s # None
  BY <1>2, NoTicketTyped
<1>5. TicketTypeOK'
  BY <1>1, <1>2, <1>3 DEF TicketTypeOK
\* A signature that is made is the first, so nothing has left for the quote.
<1>6. \A x \in sent : x.quote = busy.ticket.quote.id => x.sig = s
  <2> SUFFICES ASSUME NEW x \in sent, x.quote = busy.ticket.quote.id PROVE x.sig = s
    OBVIOUS
  <2>1. x.sig = busy.ticket.signed
    BY DEF TicketInv, SubmitHolds
  <2>2. x.sig \in Signatures
    BY <1>1 DEF TicketTypeOK
  <2> QED BY <2>1, <2>2, NoTicketTyped
<1>7. busy.ticket.quote # None /\ (ticket.quote # None => ticket.quote = busy.ticket.quote)
  BY DEF TicketInv, SubmitHolds
<1>8. SentAsKept' /\ OneSubmission' /\ TicketIsOne'
  BY <1>3, <1>6, <1>7 DEF TicketInv, TicketIsTrue, SentAsKept, OneSubmission, TicketIsOne
<1>9. ClicksCount'
  BY <1>2, <1>3, <1>4 DEF TicketInv, ClicksCount
<1>10. SubmitHolds'
  <2>1. busy.ticket.key = busy.ticket.quote.id
        /\ (busy.ticket.signed # None => busy.ticket.signed.of = busy.ticket.quote.id)
    BY DEF TicketInv, SubmitHolds
  <2> QED BY <1>2, <1>3, <1>4, <1>6, <1>7, <2>1 DEF SubmitHolds
<1>11. CapturedHolds'
  BY <1>2, <1>3, <1>4 DEF TicketInv, CapturedHolds
<1>12. Listing'
  BY <1>2, <1>4, ListsStay
<1> QED BY <1>5, <1>8, <1>9, <1>10, <1>11, <1>12 DEF Listing, TicketInv, TicketIsTrue

\* The wallet signs the quote.
LEMMA SignSwapKeeps ==
  ASSUME TicketInv, NEW a \in Accounts, SignSwap(a)
  PROVE  TicketInv'
<1> DEFINE s == [of |-> busy.ticket.quote.id, by |-> a, bytes |-> busy.id]
<1>1. /\ busy # None /\ busy.op = "submit" /\ busy.stage = "sign" /\ busy.ticket.signed = None
      /\ Ensured(a) /\ busy' = [busy EXCEPT !.sig = s, !.stage = "send"]
      /\ ticket' = [ticket EXCEPT !.signed = s]
      /\ UNCHANGED <<form, orders, shown, mount, sent, told, unlisted, clicks, changes>>
  BY DEF SignSwap, At, NeedsSignature
<1>2. busy \in Handlers /\ busy.ticket.quote # None
  BY <1>1 DEF TicketInv, TicketTypeOK, SubmitHolds
<1>3. busy.ticket.quote \in Quotes /\ busy.id \in Nat
  BY <1>2 DEF Handlers, Tickets
<1>4. s \in Signatures /\ s.of = busy.ticket.quote.id
  BY <1>3 DEF Signatures, Quotes
<1> HIDE DEF s
<1>5. /\ account' \in Accounts \cup {None} /\ token' \in Tokens \cup {None} /\ TokenIsOwners'
      /\ busy.by # None => account' = account
  BY <1>1, EnsuredKeeps
<1> QED BY <1>1, <1>4, <1>5, SignKeeps

\* The signature that was kept is the one to send.
LEMMA KeepSignatureKeeps ==
  ASSUME TicketInv, KeepSignature
  PROVE  TicketInv'
<1>1. /\ busy # None /\ busy.op = "submit" /\ busy.stage = "sign" /\ busy.ticket.signed # None
      /\ busy' = [busy EXCEPT !.sig = busy.ticket.signed, !.stage = "send"]
      /\ ticket' = [ticket EXCEPT !.signed = busy.ticket.signed]
      /\ UNCHANGED <<form, account, token, orders, shown, mount, sent, told, unlisted, clicks, changes>>
  BY DEF KeepSignature, At, NeedsSignature
<1>2. /\ busy \in Handlers /\ busy.ticket.signed.of = busy.ticket.quote.id
      /\ account \in Accounts \cup {None} /\ token \in Tokens \cup {None} /\ TokenIsOwners
  BY <1>1 DEF TicketInv, TicketIsTrue, TicketTypeOK, SubmitHolds
<1>3. PICK s \in Signatures : s = busy.ticket.signed
  BY <1>1, <1>2 DEF Handlers, Tickets
<1>4. TokenIsOwners'
  BY <1>1, <1>2 DEF TokenIsOwners
<1> QED BY <1>1, <1>2, <1>3, <1>4, SignKeeps

\* The submission leaves the page.
LEMMA SendKeeps ==
  ASSUME TicketInv, SendSwap
  PROVE  TicketInv'
<1> DEFINE h == [busy EXCEPT !.stage = "answer"]
           m == [quote |-> busy.ticket.quote.id, key |-> busy.ticket.key, sig |-> busy.sig]
<1>1. /\ busy # None /\ busy.op = "submit" /\ busy.stage = "send" /\ busy' = h /\ sent' = sent \cup {m}
      /\ UNCHANGED <<form, account, token, ticket, orders, shown, mount, told, unlisted, clicks, changes>>
  BY DEF SendSwap, At, Goes
<1>2. TicketTypeOK /\ busy \in Handlers
  BY <1>1 DEF TicketInv, TicketTypeOK
<1>3. /\ h \in Handlers /\ h.op = busy.op /\ h.stage = "answer" /\ h.by = busy.by /\ h.token = busy.token
      /\ h.id = busy.id /\ h.ticket = busy.ticket /\ h.form = busy.form /\ h.edited = busy.edited
      /\ h.switched = busy.switched /\ h.sig = busy.sig
  BY <1>2 DEF Handlers
<1>4. /\ busy.ticket.quote # None /\ busy.ticket.key = busy.ticket.quote.id
      /\ busy.ticket.signed # None => busy.ticket.signed.of = busy.ticket.quote.id
      /\ ticket.quote # None => ticket.quote = busy.ticket.quote /\ ticket.signed = busy.sig
      /\ busy.sig \in Signatures /\ busy.sig.of = busy.ticket.quote.id
      /\ \A x \in sent : x.quote = busy.ticket.quote.id => x.sig = busy.sig
  BY <1>1 DEF TicketInv, SubmitHolds
<1>5. busy.ticket.quote.id \in Nat
  BY <1>2, <1>4 DEF Handlers, Tickets, Quotes
<1>6. /\ m \in [quote : Nat, key : Nat, sig : Signatures]
      /\ m.quote = busy.ticket.quote.id /\ m.key = m.quote /\ m.sig = busy.sig
  BY <1>4, <1>5
<1> HIDE DEF h, m
<1>7. h # None
  BY <1>3, NoTicketTyped
<1>8. TicketTypeOK'
  BY <1>1, <1>2, <1>3, <1>6 DEF TicketTypeOK
<1>9. SentAsKept' /\ TicketIsOne'
  BY <1>1, <1>4, <1>6 DEF TicketInv, TicketIsTrue, SentAsKept, TicketIsOne
<1>10. OneSubmission'
  <2>1. \A x, y \in sent' : /\ x \in [quote : Nat, key : Nat, sig : Signatures]
                            /\ y \in [quote : Nat, key : Nat, sig : Signatures]
    BY <1>8 DEF TicketTypeOK
  <2>2. \A x, y \in sent' : x.quote = y.quote => x.key = y.key /\ x.sig = y.sig
    BY <1>1, <1>4, <1>6 DEF TicketInv, TicketIsTrue, OneSubmission, ClicksCount
  <2>3. \A x \in sent' : x.sig.of = x.quote
    BY <1>1, <1>4, <1>6 DEF TicketInv, TicketIsTrue, OneSubmission
  <2>4. ASSUME NEW x \in sent', NEW y \in sent', x.quote = y.quote PROVE x = y
    BY <2>1, <2>2, <2>4
  <2> QED BY <2>3, <2>4 DEF OneSubmission
<1>11. ClicksCount'
  <2>1. clicks \in Nat /\ m.quote < clicks /\ m.quote \in Nat
    BY <1>1, <1>2, <1>4, <1>5, <1>6 DEF TicketInv, TicketTypeOK, ClicksCount
  <2> QED BY <1>1, <1>3, <1>6, <1>7, <2>1 DEF TicketInv, ClicksCount
<1>12. SubmitHolds'
  BY <1>1, <1>3, <1>4, <1>6, <1>7 DEF SubmitHolds
<1>13. CapturedHolds' /\ TokenIsOwners'
  BY <1>1, <1>3, <1>7 DEF TicketInv, TicketIsTrue, CapturedHolds, TokenIsOwners
<1>14. Listing'
  BY <1>1, <1>3, ListsStay
<1> QED BY <1>8, <1>9, <1>10, <1>11, <1>12, <1>13, <1>14 DEF Listing, TicketInv, TicketIsTrue

\* The submission is answered.
LEMMA AnsweredKeeps ==
  ASSUME TicketInv, NEW b \in BOOLEAN, SwapAnswered(b)
  PROVE  TicketInv'
<1>1. /\ busy # None /\ busy.stage = "answer" /\ busy' = None /\ ticket' = NoTicket /\ form' \in {form, Blank}
      /\ UNCHANGED <<account, token, orders, shown, mount, sent, told, unlisted, clicks, changes>>
  BY DEF SwapAnswered, At, Ends
<1>2. TicketTypeOK'
  BY <1>1, NoTicketTyped DEF TicketInv, TicketTypeOK
<1>3. SentAsKept' /\ ClicksCount' /\ SubmitHolds' /\ CapturedHolds'
  BY <1>1, NoTicketTyped DEF TicketInv, SentAsKept, ClicksCount, SubmitHolds, CapturedHolds
<1>4. OneSubmission' /\ TicketIsOne' /\ TokenIsOwners'
  BY <1>1, NoTicketTyped DEF TicketInv, TicketIsTrue, OneSubmission, TicketIsOne, TokenIsOwners
<1>5. Listing'
  BY <1>1, ListsStay
<1> QED BY <1>2, <1>3, <1>4, <1>5 DEF Listing, TicketInv, TicketIsTrue

\* A handler fails.
LEMMA FailsKeeps ==
  ASSUME TicketInv, NEW expired \in BOOLEAN, Fails(expired)
  PROVE  TicketInv'
<1>1. /\ busy # None /\ busy.stage # "list" /\ busy' = None /\ token' \in {token, None}
      /\ UNCHANGED <<form, account, ticket, orders, shown, mount, sent, told, unlisted, clicks, changes>>
  BY DEF Fails, Ends
<1>2. TicketTypeOK'
  BY <1>1 DEF TicketInv, TicketTypeOK
<1>3. Quoting'
  BY <1>1, HandlerEnds
<1>4. CapturedHolds' /\ TokenIsOwners'
  BY <1>1 DEF TicketInv, TicketIsTrue, CapturedHolds, TokenIsOwners
<1>5. Listing'
  BY <1>1, ListsStay
<1> QED BY <1>2, <1>3, <1>4, <1>5 DEF Quoting, Listing, TicketInv, TicketIsTrue

\* The page never hears what the server did.
LEMMA LostKeeps ==
  ASSUME TicketInv, Lost
  PROVE  TicketInv'
<1>1. /\ busy # None /\ busy.op \in {"create", "cancel"} /\ busy.stage \in {"prepare", "confirm"}
      /\ Accepted /\ orders' = Served /\ busy' = None
      /\ UNCHANGED <<form, account, token, ticket, shown, mount, sent, told, unlisted, clicks, changes>>
  BY DEF Lost, At, Ends
<1>2. orders' \subseteq OrderRows /\ told \subseteq IdsOf({o \in orders' : o.state # "prepared"})
  BY <1>1, ServedKeeps
<1>3. TicketTypeOK'
  BY <1>1, <1>2 DEF TicketInv, TicketTypeOK
<1>4. Quoting'
  BY <1>1, HandlerEnds
<1>5. CapturedHolds' /\ TokenIsOwners'
  BY <1>1 DEF TicketInv, TicketIsTrue, CapturedHolds, TokenIsOwners
<1>6. ListsHold' /\ ToldIsShown'
  BY <1>1, <1>2 DEF TicketInv, ListsHold, ToldIsShown, IdsOf
<1> QED BY <1>3, <1>4, <1>5, <1>6 DEF Quoting, TicketInv, TicketIsTrue

\* The invariant holds of the page as it is opened.
LEMMA TicketStarts == TicketInit => TicketInv
<1> SUFFICES ASSUME TicketInit PROVE TicketInv
  OBVIOUS
<1>1. \A a \in Accounts : Order(0, a, "open") \in OrderRows
  BY DEF Order, OrderRows, OpenStates
<1>2. TicketTypeOK
  <2>1. mount \in Mounts
    BY DEF TicketInit, Mounts
  <2>2. orders \subseteq OrderRows /\ shown \subseteq OrderRows
    BY <1>1 DEF TicketInit
  <2>3. sent \subseteq [quote : Nat, key : Nat, sig : Signatures] /\ told \subseteq Nat
    BY DEF TicketInit
  <2>4. /\ form \in Forms \cup {Blank} /\ account \in Accounts \cup {None}
        /\ token \in Tokens \cup {None} /\ ticket \in Tickets /\ busy \in Handlers \cup {None}
        /\ unlisted \in BOOLEAN /\ clicks \in Nat /\ changes \in Nat
    BY NoTicketTyped DEF TicketInit
  <2> QED BY <2>1, <2>2, <2>3, <2>4 DEF TicketTypeOK
<1>3. SentAsKept /\ ClicksCount /\ SubmitHolds /\ CapturedHolds /\ ListsHold
  <2>1. SentAsKept /\ ClicksCount
    BY NoTicketTyped DEF TicketInit, SentAsKept, ClicksCount
  <2>2. SubmitHolds /\ CapturedHolds
    BY NoTicketTyped DEF TicketInit, SubmitHolds, CapturedHolds
  <2>3. ListsHold
    BY DEF TicketInit, ListsHold
  <2> QED BY <2>1, <2>2, <2>3
<1>4. TicketIsTrue
  <2>1. OneSubmission /\ ToldIsShown
    BY DEF TicketInit, OneSubmission, ToldIsShown
  <2>2. TicketIsOne /\ TokenIsOwners
    BY NoTicketTyped DEF TicketInit, TicketIsOne, TokenIsOwners
  <2> QED BY <2>1, <2>2 DEF TicketIsTrue
<1> QED BY <1>2, <1>3, <1>4 DEF TicketInv

\* The invariant is about nothing but the ticket's variables.
LEMMA TicketStutters ==
  ASSUME TicketInv, UNCHANGED TicketVars
  PROVE  TicketInv'
<1> USE DEF TicketVars
<1>1. TicketTypeOK' /\ SentAsKept' /\ ClicksCount'
  BY DEF TicketInv, TicketTypeOK, SentAsKept, ClicksCount
<1>2. SubmitHolds' /\ CapturedHolds' /\ ListsHold'
  BY DEF TicketInv, SubmitHolds, CapturedHolds, ListsHold
<1>3. TicketIsTrue'
  BY DEF TicketInv, TicketIsTrue, OneSubmission, TicketIsOne, TokenIsOwners, ToldIsShown
<1> QED BY <1>1, <1>2, <1>3 DEF TicketInv

\* The parts of the ticket agree in every reachable state.
LEMMA TicketInvariance == TicketSpec => []TicketInv
<1>1. TicketInv /\ TicketNext => TicketInv'
  BY EditKeeps, SwitchKeeps, MountKeeps, ClicksKeep, GetWalletKeeps, ChallengedKeeps, SignOrderKeeps,
     SignSwapKeeps, QuotedKeeps, HasTokenKeeps, VerifiedKeeps, PreparedKeeps, ConfirmedKeeps, UpdatedKeeps,
     ListedKeeps, KeepSignatureKeeps, SendKeeps, AnsweredKeeps, FailsKeeps, LostKeeps DEF TicketNext
<1>2. TicketInv /\ [TicketNext]_TicketVars => TicketInv'
  BY <1>1, TicketStutters
<1> QED BY TicketStarts, <1>2, PTL DEF TicketSpec

\* The ticket trades what it shows, once, as the wallet that signs, and what the
\* user is told is there, for any forms, accounts and number of clicks
\* (TradeTicket.tsx submitSwap, createOrder, WalletContext.tsx).
THEOREM TrueTicket == TicketSpec => []TicketIsTrue
<1>1. TicketInv => TicketIsTrue
  BY DEF TicketInv
<1> QED BY <1>1, TicketInvariance, PTL
-----------------------------------------------------------------------------
(***************************************************************************)
(* Accounts.                                                               *)
(***************************************************************************)
LinkRows == [Channels -> Chats \cup {Discord, Absent}]
PrefRows == [Channels -> BOOLEAN \cup {Absent}]
ViewRows == [Channels -> [linked : BOOLEAN, on : BOOLEAN]]
TokenRows == [for : Wallets \cup {Discord}, id : Nat]
NonceRows == [wallet : Wallets, id : -1 .. MaxRequests]
Links == [token : TokenRows, chat : Chats]

AskKinds == {"none", "nonce", "signin", "token", "discord", "telegram", "profile", "view"}
AskStages ==
  {"none", "auth", "loaded", "go", "insert", "find", "put", "check", "move", "delete", "forget",
   "write", "prefer", "unview", "uncache", "mark", "commit", "ask", "read", "store"}
Asks ==
  [kind : AskKinds, user : Wallets \cup {Absent}, stage : AskStages,
   arg : {Absent, Discord} \cup Chats \cup Wallets \cup Int \cup Links,
   seen : LinkRows \cup {Absent, Placeholder}, prefs : PrefRows \cup {Absent}, id : Nat]

AccountTypeOK ==
  /\ users \in [Users -> LinkRows \cup {Absent}] /\ prefs \in [Users -> PrefRows]
  /\ owner \in [Alerts -> Users \cup {Absent}]
  /\ nonces \subseteq NonceRows /\ tokens \subseteq TokenRows
  /\ cached \in [Users -> LinkRows \cup {Absent}] /\ viewed \in [Users -> ViewRows \cup {Absent}]
  /\ req \in [Requests -> Asks] /\ made \in 0 .. MaxRequests
  /\ accepted \in [NonceRows -> Nat] /\ blurred \subseteq {"user", "view"} \X Users

\* Preferences of an account that has been viewed.
Full(u) == prefs[u]["chat"] # Absent /\ prefs[u]["discord"] # Absent

There(u) == u \in Wallets /\ users[u] # Absent

\* Whom a request is for: but for a first sign-in, somebody who has an account.
AskerKnown(r) ==
  LET q == req[r]
  IN /\ q.kind = "none" => q.stage = "none"
     /\ q.kind \in {"nonce", "signin"} => q.user \in Wallets
     /\ q.kind \in {"telegram", "profile", "discord", "view"} => There(q.user)
     /\ q.stage \in {"auth", "loaded"} =>
          q.kind \in {"token", "profile", "discord", "view"} /\ There(q.user)
     /\ q.kind = "token" => q.arg = Discord \/ There(q.arg)
     /\ q.kind = "telegram" => q.arg \in Links
     /\ q.kind = "profile" => q.arg \in Chats \cup {Absent}

\* What a request has found at its stage.
StageKnown(r) ==
  LET q == req[r]
  IN /\ q.stage \in {"auth", "go", "ask"} => q.seen = Absent
     /\ q.stage \in {"auth", "loaded", "go", "ask"} => q.prefs = Absent
     /\ q.stage = "loaded" => q.seen \in LinkRows
     /\ q.kind = "signin" /\ q.stage # "put" => q.seen = Absent
     /\ q.kind = "signin" /\ q.stage = "put" => There(q.user) /\ q.seen \in LinkRows
     /\ q.kind = "profile" /\ q.stage \in {"prefer", "unview", "put"} => q.seen \in LinkRows
     /\ q.kind = "discord" /\ q.stage \in {"move", "delete", "forget"} => q.seen = Placeholder
     /\ q.kind = "discord" /\ q.stage = "delete" => \A a \in Alerts : owner[a] # Placeholder
     /\ q.kind = "view" /\ q.stage \in {"ask", "read", "store"} => Full(q.user)
     /\ q.kind = "view" /\ q.stage = "store" => q.seen # Absent /\ q.prefs # Absent

\* A row a request has read for a cache is the row there is, or the cache is known to
\* be in doubt.
HeldIsTrue(r) ==
  LET q == req[r]
  IN /\ q.stage = "loaded" \/ (q.kind \in {"signin", "profile"} /\ q.seen # Absent) =>
          <<"user", q.user>> \in blurred \/ q.seen = users[q.user]
     /\ q.kind = "view" /\ q.stage \in {"read", "store"} =>
          \/ <<"view", q.user>> \in blurred
          \/ q.seen \in {Absent, users[q.user]} /\ q.prefs \in {Absent, prefs[q.user]}

AskersKnown == \A r \in Requests : AskerKnown(r) /\ StageKnown(r) /\ HeldIsTrue(r)

\* Numbers are given once, and a nonce that is there, or yet to come, was not accepted.
NumbersAreFresh ==
  /\ \A r \in Requests : req[r].kind # "none" => req[r].id \in 1 .. made
  /\ \A r, s \in Requests : r # s /\ req[r].kind # "none" /\ req[s].kind # "none" => req[r].id # req[s].id
  /\ \A n \in nonces : n.id <= made /\ accepted[n] = 0
  /\ \A n \in NonceRows : n.id > made => accepted[n] = 0
  /\ \A r \in Requests : req[r].kind = "nonce" =>
       LET n == [wallet |-> req[r].user, id |-> req[r].id] IN n \notin nonces /\ accepted[n] = 0

TokensAreFor == \A t \in tokens : t.for = Discord \/ There(t.for)

\* Nothing is cached of a row nobody can be signed in to.
CachedIsThere ==
  \A u \in Users :
    /\ u = Placeholder \/ users[u] = Absent => cached[u] = Absent /\ viewed[u] = Absent
    /\ viewed[u] # Absent => Full(u)

AccountInv ==
  /\ AccountTypeOK /\ AskersKnown /\ NumbersAreFresh /\ TokensAreFor /\ CachedIsThere
  /\ AccountsAreTrue

\* Absent is no row.
LEMMA AbsentApart ==
  /\ Absent \notin Users /\ Placeholder \notin Wallets
  /\ Absent \notin BOOLEAN
  /\ Free \in Asks /\ Free.kind = "none" /\ Free.stage = "none" /\ Free.seen = Absent
  /\ NewRow \in LinkRows /\ NoPrefs \in PrefRows
BY AccountAssumption DEF Users, Free, Asks, AskKinds, AskStages, NewRow, NoPrefs, LinkRows, PrefRows, Channels

\* What is known of the other requests stays known.
LEMMA OthersStay ==
  ASSUME AccountTypeOK, AskersKnown, NEW r \in Requests, NEW d, req' = [req EXCEPT ![r] = d],
         \A u : There(u) => There(u)',
         (\A a \in Alerts : owner[a] # Placeholder) => (\A a \in Alerts : owner'[a] # Placeholder),
         \A u \in Wallets : Full(u) => Full(u)'
  PROVE  \A q \in Requests \ {r} : AskerKnown(q)' /\ StageKnown(q)'
<1> TAKE q \in Requests \ {r}
<1>1. req'[q] = req[q] /\ AskerKnown(q) /\ StageKnown(q)
  BY DEF AccountTypeOK, AskersKnown
<1>2. AskerKnown(q)'
  BY <1>1 DEF AskerKnown
<1>3. StageKnown(q)'
  BY <1>1 DEF StageKnown, AskerKnown, There
<1> QED BY <1>2, <1>3

\* What they have read stays true, if the caches it is for are in doubt wherever a row
\* they read was changed.
LEMMA HeldStays ==
  ASSUME AccountTypeOK, AskersKnown, NEW r \in Requests, NEW d, req' = [req EXCEPT ![r] = d],
         blurred \subseteq blurred',
         \A u \in Wallets : users'[u] = users[u] \/ <<"user", u>> \in blurred' \/ ~Holding(r, "user", u),
         \A u \in Wallets : \/ users'[u] = users[u] /\ prefs'[u] = prefs[u]
                            \/ <<"view", u>> \in blurred' \/ ~Holding(r, "view", u)
  PROVE  \A q \in Requests \ {r} : HeldIsTrue(q)'
<1> TAKE q \in Requests \ {r}
<1>1. req'[q] = req[q] /\ AskerKnown(q) /\ HeldIsTrue(q)
  BY DEF AccountTypeOK, AskersKnown
<1> DEFINE u == req[q].user
<1>2. ASSUME req[q].stage = "loaded" \/ (req[q].kind \in {"signin", "profile"} /\ req[q].seen # Absent)
      PROVE  <<"user", u>> \in blurred' \/ req[q].seen = users'[u]
  <2>1. u \in Wallets
    BY <1>1, <1>2 DEF AskerKnown, There
  <2>2. Holding(r, "user", u)
    BY <1>2 DEF Holding
  <2> QED BY <1>1, <1>2, <2>1, <2>2 DEF HeldIsTrue
<1>3. ASSUME req[q].kind = "view", req[q].stage \in {"read", "store"}
      PROVE  \/ <<"view", u>> \in blurred'
             \/ req[q].seen \in {Absent, users'[u]} /\ req[q].prefs \in {Absent, prefs'[u]}
  <2>1. u \in Wallets
    BY <1>1, <1>3 DEF AskerKnown, There
  <2>2. Holding(r, "view", u)
    BY <1>3 DEF Holding
  <2> QED BY <1>1, <1>3, <2>1, <2>2 DEF HeldIsTrue
<1> QED BY <1>1, <1>2, <1>3 DEF HeldIsTrue

\* No number is given and no nonce comes.
LEMMA NumbersStay ==
  ASSUME AccountTypeOK, NumbersAreFresh, NEW r \in Requests, NEW d, req' = [req EXCEPT ![r] = d],
         d.kind = "none" \/ (d.kind = req[r].kind /\ d.user = req[r].user /\ d.id = req[r].id),
         nonces' \subseteq nonces, UNCHANGED <<made, accepted>>
  PROVE  NumbersAreFresh'
<1>1. req'[r] = d /\ \A q \in Requests \ {r} : req'[q] = req[q]
  BY DEF AccountTypeOK
<1>2. \A q \in Requests : req'[q].kind # "none" =>
        req'[q].kind = req[q].kind /\ req'[q].user = req[q].user /\ req'[q].id = req[q].id
  BY <1>1
<1>3. \A q \in Requests : req'[q].kind # "none" => req'[q].id \in 1 .. made
  BY <1>2 DEF NumbersAreFresh
<1>4. \A q, s \in Requests :
        q # s /\ req'[q].kind # "none" /\ req'[s].kind # "none" => req'[q].id # req'[s].id
  BY <1>2 DEF NumbersAreFresh
<1>5. \A q \in Requests : req'[q].kind = "nonce" =>
        LET n == [wallet |-> req'[q].user, id |-> req'[q].id] IN n \notin nonces' /\ accepted[n] = 0
  BY <1>2 DEF NumbersAreFresh
<1> QED BY <1>3, <1>4, <1>5 DEF NumbersAreFresh

\* The rows stay, and so do the caches, but for entries that are emptied or say what the
\* rows say; the step of r ends no duty to tell a cache but by telling it.
LEMMA CachesStay ==
  ASSUME AccountTypeOK, CachedIsThere, CachesAreTrue,
         NEW r \in Requests, NEW d, req' = [req EXCEPT ![r] = d],
         UNCHANGED <<users, prefs>>, blurred \subseteq blurred',
         \A u \in Users : \/ cached'[u] \in {cached[u], Absent}
                          \/ There(u) /\ (<<"user", u>> \in blurred' \/ cached'[u] = users[u]),
         \A u \in Users : \/ viewed'[u] \in {viewed[u], Absent}
                          \/ /\ There(u) /\ Full(u)
                             /\ (<<"view", u>> \in blurred' \/ viewed'[u] = View(prefs[u], users[u])),
         Owes(r, "user") =>
           \/ d.user = req[r].user /\ Owes(r, "user")'
           \/ <<"user", req[r].user>> \in blurred'
           \/ cached'[req[r].user] \in {Absent, users[req[r].user]},
         Owes(r, "view") =>
           \/ d.user = req[r].user /\ Owes(r, "view")'
           \/ <<"view", req[r].user>> \in blurred'
           \/ viewed'[req[r].user] = Absent
  PROVE  CachedIsThere' /\ CachesAreTrue'
<1>1. req'[r] = d /\ \A q \in Requests \ {r} : req'[q] = req[q]
  BY DEF AccountTypeOK
<1>2. \A q \in Requests \ {r}, c \in {"user", "view"} : Owes(q, c) => Owes(q, c)'
  BY <1>1 DEF Owes
<1>3. CachedIsThere'
  BY AbsentApart DEF CachedIsThere, Full, There
<1>4. ASSUME NEW u \in Users, cached'[u] # Absent, <<"user", u>> \notin blurred',
             ~ \E q \in Requests : req'[q].user = u /\ Owes(q, "user")'
      PROVE  cached'[u] = users[u]
  <2>1. CASE cached'[u] = cached[u]
    <3>1. \A q \in Requests \ {r} : ~(req[q].user = u /\ Owes(q, "user"))
      BY <1>1, <1>2, <1>4
    <3>2. CASE req[r].user = u /\ Owes(r, "user")
      BY <1>1, <1>4, <3>2
    <3>3. CASE ~(req[r].user = u /\ Owes(r, "user"))
      BY <1>4, <2>1, <3>1, <3>3 DEF CachesAreTrue
    <3> QED BY <3>2, <3>3
  <2>2. CASE cached'[u] # cached[u]
    BY <1>4, <2>2
  <2> QED BY <2>1, <2>2
<1>5. ASSUME NEW u \in Users, viewed'[u] # Absent, <<"view", u>> \notin blurred',
             ~ \E q \in Requests : req'[q].user = u /\ Owes(q, "view")'
      PROVE  viewed'[u] = View(prefs[u], users[u])
  <2>1. CASE viewed'[u] = viewed[u]
    <3>1. \A q \in Requests \ {r} : ~(req[q].user = u /\ Owes(q, "view"))
      BY <1>1, <1>2, <1>5
    <3>2. ~(req[r].user = u /\ Owes(r, "view"))
      BY <1>1, <1>5
    <3> QED BY <1>5, <2>1, <3>1, <3>2 DEF CachesAreTrue
  <2>2. CASE viewed'[u] # viewed[u]
    BY <1>5, <2>2
  <2> QED BY <2>1, <2>2
<1> QED BY <1>3, <1>4, <1>5 DEF CachesAreTrue, View

\* A step of r that changes no row: what is left to show is what r knows afterwards, what
\* it has put in the caches, and that it has told them whatever it was to tell.
LEMMA RowsStay ==
  ASSUME AccountInv, NEW r \in Requests,
         req' \in [Requests -> Asks], \A q \in Requests \ {r} : req'[q] = req[q],
         AccountTypeOK', NumbersAreFresh', TokensAreFor', \A i \in NonceRows : accepted'[i] <= 1,
         UNCHANGED <<users, prefs, owner>>, blurred \subseteq blurred',
         AskerKnown(r)', StageKnown(r)', HeldIsTrue(r)',
         \A u \in Users : \/ cached'[u] \in {cached[u], Absent}
                          \/ There(u) /\ (<<"user", u>> \in blurred' \/ cached'[u] = users[u]),
         \A u \in Users : \/ viewed'[u] \in {viewed[u], Absent}
                          \/ /\ There(u) /\ Full(u)
                             /\ (<<"view", u>> \in blurred' \/ viewed'[u] = View(prefs[u], users[u])),
         Owes(r, "user") =>
           \/ req'[r].user = req[r].user /\ Owes(r, "user")'
           \/ <<"user", req[r].user>> \in blurred'
           \/ cached'[req[r].user] \in {Absent, users[req[r].user]},
         Owes(r, "view") =>
           \/ req'[r].user = req[r].user /\ Owes(r, "view")'
           \/ <<"view", req[r].user>> \in blurred'
           \/ viewed'[req[r].user] = Absent
  PROVE  AccountInv'
<1>1. PICK d : d = req'[r] /\ req' = [req EXCEPT ![r] = d]
  BY DEF AccountInv, AccountTypeOK
<1>2. AskersKnown'
  <2>1. \A u : There(u) => There(u)'
    BY DEF There
  <2>2. (\A a \in Alerts : owner[a] # Placeholder) => (\A a \in Alerts : owner'[a] # Placeholder)
    OBVIOUS
  <2>3. \A u \in Wallets : Full(u) => Full(u)'
    BY DEF Full
  <2>4. \A q \in Requests \ {r} : AskerKnown(q)' /\ StageKnown(q)'
    BY <1>1, <2>1, <2>2, <2>3, OthersStay DEF AccountInv
  <2>5. \A q \in Requests \ {r} : HeldIsTrue(q)'
    BY <1>1, HeldStays DEF AccountInv
  <2> QED BY <2>4, <2>5 DEF AskersKnown
<1>3. CachedIsThere' /\ CachesAreTrue'
  BY <1>1, CachesStay DEF AccountInv, AccountsAreTrue
<1>4. NothingIsLost' /\ OneOfEach'
  <2>1. DOMAIN accepted' = NonceRows
    BY DEF AccountTypeOK
  <2> QED BY <2>1 DEF AccountInv, AccountsAreTrue, NothingIsLost, OneOfEach
<1> QED BY <1>2, <1>3, <1>4 DEF AccountInv, AccountsAreTrue

\* The same, of a step that gives no number and makes no nonce or token.
LEMMA QuietStep ==
  ASSUME AccountInv, NEW r \in Requests,
         req' \in [Requests -> Asks], \A q \in Requests \ {r} : req'[q] = req[q],
         \/ req'[r].kind = "none"
         \/ req'[r].kind = req[r].kind /\ req'[r].user = req[r].user /\ req'[r].id = req[r].id,
         UNCHANGED <<users, prefs, owner, made, accepted>>,
         nonces' \subseteq nonces, tokens' \subseteq tokens,
         blurred \subseteq blurred', blurred' \subseteq {"user", "view"} \X Users,
         cached' \in [Users -> LinkRows \cup {Absent}], viewed' \in [Users -> ViewRows \cup {Absent}],
         AskerKnown(r)', StageKnown(r)', HeldIsTrue(r)',
         \A u \in Users : \/ cached'[u] \in {cached[u], Absent}
                          \/ There(u) /\ (<<"user", u>> \in blurred' \/ cached'[u] = users[u]),
         \A u \in Users : \/ viewed'[u] \in {viewed[u], Absent}
                          \/ /\ There(u) /\ Full(u)
                             /\ (<<"view", u>> \in blurred' \/ viewed'[u] = View(prefs[u], users[u])),
         Owes(r, "user") =>
           \/ req'[r].user = req[r].user /\ Owes(r, "user")'
           \/ <<"user", req[r].user>> \in blurred'
           \/ cached'[req[r].user] \in {Absent, users[req[r].user]},
         Owes(r, "view") =>
           \/ req'[r].user = req[r].user /\ Owes(r, "view")'
           \/ <<"view", req[r].user>> \in blurred'
           \/ viewed'[req[r].user] = Absent
  PROVE  AccountInv'
<1>1. PICK d : d = req'[r] /\ req' = [req EXCEPT ![r] = d]
  BY DEF AccountInv, AccountTypeOK
<1>2. AccountTypeOK'
  BY DEF AccountInv, AccountTypeOK
<1>3. NumbersAreFresh'
  BY <1>1, NumbersStay DEF AccountInv
<1>4. TokensAreFor'
  BY DEF AccountInv, TokensAreFor, There
<1>5. \A i \in NonceRows : accepted'[i] <= 1
  BY DEF AccountInv, AccountsAreTrue, OneOfEach, AccountTypeOK
<1> QED BY <1>2, <1>3, <1>4, <1>5, RowsStay

\* A request that has ended.
LEMMA EndKnown ==
  ASSUME AccountTypeOK, NEW r \in Requests, End(r)
  PROVE  /\ req' \in [Requests -> Asks] /\ (\A q \in Requests \ {r} : req'[q] = req[q])
         /\ req'[r] = Free /\ req'[r].kind = "none"
         /\ AskerKnown(r)' /\ StageKnown(r)' /\ HeldIsTrue(r)'
<1>1. req'[r] = Free /\ req' \in [Requests -> Asks]
  BY AbsentApart DEF End, AccountTypeOK
<1> QED BY <1>1, AbsentApart DEF End, AccountTypeOK, AskerKnown, StageKnown, HeldIsTrue, Free

\* A request that has gone on.
LEMMA GoKnown ==
  ASSUME AccountTypeOK, NEW r \in Requests, NEW s \in AskStages, Go(r, s)
  PROVE  /\ req' \in [Requests -> Asks] /\ (\A q \in Requests \ {r} : req'[q] = req[q])
         /\ req'[r].kind = req[r].kind /\ req'[r].user = req[r].user /\ req'[r].arg = req[r].arg
         /\ req'[r].seen = req[r].seen /\ req'[r].prefs = req[r].prefs /\ req'[r].id = req[r].id
         /\ req'[r].stage = s
<1>1. req[r] \in Asks /\ req' = [req EXCEPT ![r] = [req[r] EXCEPT !.stage = s]]
  BY DEF Go, AccountTypeOK
<1>2. [req[r] EXCEPT !.stage = s] \in Asks
  BY <1>1 DEF Asks
<1> QED BY <1>1, <1>2 DEF AccountTypeOK, Asks

\* A request ends or goes on, and nothing else changes but that nonces or tokens are gone.
LEMMA QuietEnd ==
  ASSUME AccountInv, NEW r \in Requests, End(r),
         UNCHANGED <<users, prefs, owner, made, accepted, cached, viewed, blurred>>,
         nonces' \subseteq nonces, tokens' \subseteq tokens, ~Owes(r, "user"), ~Owes(r, "view")
  PROVE  AccountInv'
<1>1. /\ req' \in [Requests -> Asks] /\ (\A q \in Requests \ {r} : req'[q] = req[q])
      /\ req'[r].kind = "none" /\ AskerKnown(r)' /\ StageKnown(r)' /\ HeldIsTrue(r)'
  BY EndKnown DEF AccountInv
<1>2. /\ blurred \subseteq blurred' /\ blurred' \subseteq {"user", "view"} \X Users
      /\ cached' \in [Users -> LinkRows \cup {Absent}] /\ viewed' \in [Users -> ViewRows \cup {Absent}]
      /\ (\A u \in Users : cached'[u] \in {cached[u], Absent} /\ viewed'[u] \in {viewed[u], Absent})
  BY DEF AccountInv, AccountTypeOK
<1> QED BY <1>1, <1>2, QuietStep

LEMMA QuietGo ==
  ASSUME AccountInv, NEW r \in Requests,
         req' \in [Requests -> Asks], \A q \in Requests \ {r} : req'[q] = req[q],
         req'[r].kind = req[r].kind /\ req'[r].user = req[r].user /\ req'[r].id = req[r].id,
         AskerKnown(r)', StageKnown(r)', HeldIsTrue(r)',
         UNCHANGED <<users, prefs, owner, made, accepted, cached, viewed, blurred>>,
         nonces' \subseteq nonces, tokens' \subseteq tokens, ~Owes(r, "user"), ~Owes(r, "view")
  PROVE  AccountInv'
<1>2. /\ blurred \subseteq blurred' /\ blurred' \subseteq {"user", "view"} \X Users
      /\ cached' \in [Users -> LinkRows \cup {Absent}] /\ viewed' \in [Users -> ViewRows \cup {Absent}]
      /\ (\A u \in Users : cached'[u] \in {cached[u], Absent} /\ viewed'[u] \in {viewed[u], Absent})
  BY DEF AccountInv, AccountTypeOK
<1> QED BY <1>2, QuietStep

\* What is known of a request.
LEMMA RequestKnown ==
  ASSUME AccountInv, NEW r \in Requests
  PROVE  /\ AccountTypeOK /\ req[r] \in Asks /\ AskerKnown(r) /\ StageKnown(r) /\ HeldIsTrue(r)
         /\ users \in [Users -> LinkRows \cup {Absent}] /\ prefs \in [Users -> PrefRows]
         /\ Wallets \subseteq Users /\ Placeholder \in Users
BY DEF AccountInv, AccountTypeOK, AskersKnown, Users

\* Looking a user up: it is there.
LEMMA AuthKeeps ==
  ASSUME AccountInv, NEW r \in Requests, AuthHit(r) \/ AuthLoad(r)
  PROVE  AccountInv'
<1>1. req[r].stage = "auth"
  BY DEF AuthHit, AuthLoad
<1>2. ~Owes(r, "user") /\ ~Owes(r, "view")
  BY <1>1 DEF Owes
<1>3. CASE AuthHit(r)
  <2>1. "go" \in AskStages /\ Go(r, "go")
    BY <1>3 DEF AuthHit, AskStages
  <2>2. UNCHANGED <<users, prefs, owner, nonces, tokens, cached, viewed, made, accepted, blurred>>
    BY <1>3 DEF AuthHit, Tables, Caches, Past
  <2>3. /\ req' \in [Requests -> Asks] /\ (\A q \in Requests \ {r} : req'[q] = req[q])
        /\ req'[r].kind = req[r].kind /\ req'[r].user = req[r].user /\ req'[r].arg = req[r].arg
        /\ req'[r].seen = req[r].seen /\ req'[r].prefs = req[r].prefs /\ req'[r].id = req[r].id
        /\ req'[r].stage = "go"
    BY <2>1, GoKnown, RequestKnown
  <2>4. AskerKnown(r) /\ StageKnown(r)
    BY RequestKnown
  <2>5. AskerKnown(r)'
    BY <1>1, <2>2, <2>3, <2>4 DEF AskerKnown, There
  <2>6. StageKnown(r)'
    BY <1>1, <2>3, <2>4 DEF StageKnown
  <2>7. HeldIsTrue(r)'
    BY <1>1, <2>3, <2>4 DEF HeldIsTrue, StageKnown
  <2> QED BY <1>2, <2>2, <2>3, <2>5, <2>6, <2>7, QuietGo
<1>4. CASE AuthLoad(r)
  <2> DEFINE d == [req[r] EXCEPT !.stage = "loaded", !.seen = users[req[r].user]]
  <2>1. There(req[r].user) /\ req[r].user \in Users
    BY <1>1, RequestKnown DEF AskerKnown, There
  <2>2. d \in Asks
    BY <2>1, RequestKnown DEF Asks, AskStages
  <2>3. /\ req' \in [Requests -> Asks] /\ (\A q \in Requests \ {r} : req'[q] = req[q])
        /\ req'[r] = d
    BY <1>4, <2>2, RequestKnown DEF AuthLoad, AccountTypeOK
  <2>4. /\ d.kind = req[r].kind /\ d.user = req[r].user /\ d.id = req[r].id /\ d.arg = req[r].arg
        /\ d.prefs = req[r].prefs /\ d.stage = "loaded" /\ d.seen = users[req[r].user]
    BY RequestKnown DEF Asks
  <2> HIDE DEF d
  <2>5. UNCHANGED <<users, prefs, owner, nonces, tokens, cached, viewed, made, accepted, blurred>>
    BY <1>4 DEF AuthLoad, Tables, Caches, Past
  <2>6. AskerKnown(r) /\ StageKnown(r)
    BY RequestKnown
  <2>7. AskerKnown(r)'
    BY <1>1, <2>3, <2>4, <2>5, <2>6 DEF AskerKnown, There
  <2>8. StageKnown(r)'
    <3>1. users[req[r].user] \in LinkRows
      BY <2>1, RequestKnown DEF There
    <3> QED BY <1>1, <2>3, <2>4, <2>6, <3>1 DEF StageKnown, AskerKnown
  <2>9. HeldIsTrue(r)'
    BY <2>3, <2>4, <2>5 DEF HeldIsTrue
  <2> QED BY <1>2, <2>3, <2>4, <2>5, <2>7, <2>8, <2>9, QuietGo
<1> QED BY <1>3, <1>4

\* Sign-in up to the row.
LEMMA NonceClearKeeps ==
  ASSUME AccountInv, NEW r \in Requests, NonceClear(r)
  PROVE  AccountInv'
<1>1. Doing(r, "nonce", "go") /\ Go(r, "insert") /\ "insert" \in AskStages
  BY DEF NonceClear, AskStages
<1>2. ~Owes(r, "user") /\ ~Owes(r, "view")
  BY <1>1 DEF Owes, Doing
<1>3. /\ UNCHANGED <<users, prefs, owner, tokens, cached, viewed, made, accepted, blurred>>
      /\ nonces' \subseteq nonces
  BY DEF NonceClear, Caches, Past
<1>4. AskerKnown(r)'
  BY <1>1, GoKnown, RequestKnown DEF Doing, AskerKnown
<1>5. StageKnown(r)' /\ HeldIsTrue(r)'
  BY <1>1, GoKnown, RequestKnown DEF Doing, StageKnown, HeldIsTrue
<1> QED BY <1>1, <1>2, <1>3, <1>4, <1>5, GoKnown, RequestKnown, QuietGo

LEMMA FindKeeps ==
  ASSUME AccountInv, NEW r \in Requests, Find(r)
  PROVE  AccountInv'
<1> DEFINE u == req[r].user
           d == [req[r] EXCEPT !.stage = IF users[u] = Absent THEN "insert" ELSE "put", !.seen = users[u]]
<1>1. Doing(r, "signin", "find") /\ u \in Wallets /\ u \in Users
  BY RequestKnown DEF Find, Doing, AskerKnown
<1>2. ~Owes(r, "user") /\ ~Owes(r, "view")
  BY <1>1 DEF Owes, Doing
<1>3. d \in Asks
  BY <1>1, RequestKnown DEF Asks, AskStages
<1>4. req' \in [Requests -> Asks] /\ (\A q \in Requests \ {r} : req'[q] = req[q]) /\ req'[r] = d
  BY <1>3, RequestKnown DEF Find, AccountTypeOK
<1>5. /\ d.kind = "signin" /\ d.user = u /\ d.id = req[r].id /\ d.prefs = req[r].prefs
      /\ d.seen = users[u] /\ d.stage = IF users[u] = Absent THEN "insert" ELSE "put"
  BY <1>1, RequestKnown DEF Asks, Doing
<1> HIDE DEF d
<1>6. UNCHANGED <<users, prefs, owner, nonces, tokens, cached, viewed, made, accepted, blurred>>
  BY DEF Find, Tables, Caches, Past
<1>7. AskerKnown(r)'
  BY <1>1, <1>4, <1>5 DEF AskerKnown
<1>8. StageKnown(r)'
  <2>1. users[u] # Absent => users[u] \in LinkRows
    BY <1>1, RequestKnown
  <2> QED BY <1>1, <1>4, <1>5, <1>6, <2>1 DEF StageKnown, There
<1>9. HeldIsTrue(r)'
  BY <1>4, <1>5, <1>6 DEF HeldIsTrue
<1> QED BY <1>1, <1>2, <1>4, <1>5, <1>6, <1>7, <1>8, <1>9, QuietGo DEF Doing

\* A step that stores a row in the cache of accounts, or empties it there.
LEMMA QuietStore ==
  ASSUME AccountInv, NEW r \in Requests,
         req' \in [Requests -> Asks], \A q \in Requests \ {r} : req'[q] = req[q],
         \/ req'[r].kind = "none"
         \/ req'[r].kind = req[r].kind /\ req'[r].user = req[r].user /\ req'[r].id = req[r].id,
         AskerKnown(r)', StageKnown(r)', HeldIsTrue(r)',
         NEW u \in Users, NEW v \in LinkRows \cup {Absent}, Store(u, v),
         v = Absent \/ (There(u) /\ (<<"user", u>> \in blurred \/ v = users[u])),
         UNCHANGED <<users, prefs, owner, nonces, tokens, viewed, made, accepted>>,
         Owes(r, "user") => req[r].user = u, ~Owes(r, "view")
  PROVE  AccountInv'
<1>1. /\ cached \in [Users -> LinkRows \cup {Absent}] /\ viewed \in [Users -> ViewRows \cup {Absent}]
      /\ blurred \subseteq {"user", "view"} \X Users
  BY DEF AccountInv, AccountTypeOK
<1>2. /\ blurred \subseteq blurred' /\ blurred' \subseteq {"user", "view"} \X Users
      /\ cached' \in [Users -> LinkRows \cup {Absent}] /\ \A w \in Users \ {u} : cached'[w] = cached[w]
      /\ cached'[u] = v \/ (<<"user", u>> \in blurred' /\ cached'[u] = cached[u])
  BY <1>1 DEF Store
<1>3. \A w \in Users : \/ cached'[w] \in {cached[w], Absent}
                       \/ There(w) /\ (<<"user", w>> \in blurred' \/ cached'[w] = users[w])
  BY <1>2
<1>4. \A w \in Users : viewed'[w] \in {viewed[w], Absent}
  OBVIOUS
<1>5. Owes(r, "user") => \/ <<"user", req[r].user>> \in blurred'
                         \/ cached'[req[r].user] \in {Absent, users[req[r].user]}
  BY <1>2
<1> QED BY <1>1, <1>2, <1>3, <1>4, <1>5, QuietStep

\* A step that empties the cache of preferences.
LEMMA QuietUnview ==
  ASSUME AccountInv, NEW r \in Requests,
         req' \in [Requests -> Asks], \A q \in Requests \ {r} : req'[q] = req[q],
         \/ req'[r].kind = "none"
         \/ req'[r].kind = req[r].kind /\ req'[r].user = req[r].user /\ req'[r].id = req[r].id,
         AskerKnown(r)', StageKnown(r)', HeldIsTrue(r)',
         req[r].user \in Users, Unview(req[r].user),
         UNCHANGED <<users, prefs, owner, nonces, tokens, cached, made, accepted>>,
         Owes(r, "user") => req'[r].user = req[r].user /\ Owes(r, "user")'
  PROVE  AccountInv'
<1> DEFINE u == req[r].user
<1>1. /\ cached \in [Users -> LinkRows \cup {Absent}] /\ viewed \in [Users -> ViewRows \cup {Absent}]
      /\ blurred \subseteq {"user", "view"} \X Users
  BY DEF AccountInv, AccountTypeOK
<1>2. /\ blurred \subseteq blurred' /\ blurred' \subseteq {"user", "view"} \X Users
      /\ viewed' \in [Users -> ViewRows \cup {Absent}] /\ \A w \in Users \ {u} : viewed'[w] = viewed[w]
      /\ viewed'[u] = Absent \/ (<<"view", u>> \in blurred' /\ viewed'[u] = viewed[u])
  BY <1>1 DEF Unview
<1>3. \A w \in Users : viewed'[w] \in {viewed[w], Absent} /\ cached'[w] \in {cached[w], Absent}
  BY <1>2
<1> QED BY <1>1, <1>2, <1>3, QuietStep

\* Storing what was looked up, and dropping it.
LEMMA AuthStoreKeeps ==
  ASSUME AccountInv, NEW r \in Requests, AuthStore(r)
  PROVE  AccountInv'
<1> DEFINE d == [req[r] EXCEPT !.stage = "go", !.seen = Absent]
<1>1. req[r].stage = "loaded" /\ Store(req[r].user, req[r].seen)
  BY DEF AuthStore
<1>2. AskerKnown(r) /\ StageKnown(r) /\ HeldIsTrue(r)
  BY RequestKnown
<1>3. /\ req[r].kind \in {"token", "profile", "discord", "view"} /\ There(req[r].user)
      /\ req[r].prefs = Absent /\ req[r].user \in Users
      /\ <<"user", req[r].user>> \in blurred \/ req[r].seen = users[req[r].user]
  BY <1>1, <1>2, RequestKnown DEF AskerKnown, StageKnown, HeldIsTrue, There
<1>4. d \in Asks
  BY RequestKnown DEF Asks, AskStages
<1>5. req' \in [Requests -> Asks] /\ (\A q \in Requests \ {r} : req'[q] = req[q]) /\ req'[r] = d
  BY <1>4, RequestKnown DEF AuthStore, AccountTypeOK
<1>6. /\ d.kind = req[r].kind /\ d.user = req[r].user /\ d.id = req[r].id /\ d.arg = req[r].arg
      /\ d.prefs = req[r].prefs /\ d.stage = "go" /\ d.seen = Absent
  BY RequestKnown DEF Asks
<1> HIDE DEF d
<1>7. UNCHANGED <<users, prefs, owner, nonces, tokens, viewed, made, accepted>>
  BY DEF AuthStore, Tables, Past
<1>8. AskerKnown(r)'
  BY <1>2, <1>3, <1>5, <1>6, <1>7 DEF AskerKnown, There
<1>9. StageKnown(r)' /\ HeldIsTrue(r)'
  BY <1>3, <1>5, <1>6 DEF StageKnown, HeldIsTrue
<1>10. ~Owes(r, "user") /\ ~Owes(r, "view")
  BY <1>1 DEF Owes
<1>11. req[r].seen \in LinkRows
  BY <1>1, <1>2 DEF StageKnown
<1> QED BY <1>1, <1>3, <1>5, <1>6, <1>7, <1>8, <1>9, <1>10, <1>11, QuietStore

\* The end of a sign-in or of PUT /profile: the row as it was read, or as it was written.
LEMMA PutKeeps ==
  ASSUME AccountInv, NEW r \in Requests, SignedIn(r) \/ ProfilePut(r)
  PROVE  AccountInv'
<1>1. req[r].stage = "put" /\ req[r].kind \in {"signin", "profile"} /\ Store(req[r].user, req[r].seen) /\ End(r)
  BY DEF SignedIn, ProfilePut, Doing
<1>2. AskerKnown(r) /\ StageKnown(r) /\ HeldIsTrue(r)
  BY RequestKnown
<1>3. /\ There(req[r].user) /\ req[r].user \in Users /\ req[r].seen \in LinkRows
  BY <1>1, <1>2, RequestKnown DEF AskerKnown, StageKnown, There
<1>4. req[r].seen # Absent
  BY <1>3, AccountAssumption DEF LinkRows
<1>5. <<"user", req[r].user>> \in blurred \/ req[r].seen = users[req[r].user]
  BY <1>1, <1>2, <1>4 DEF HeldIsTrue
<1>6. UNCHANGED <<users, prefs, owner, nonces, tokens, viewed, made, accepted>>
  BY DEF SignedIn, ProfilePut, Tables, Past
<1>7. ~Owes(r, "view")
  BY <1>1 DEF Owes
<1> QED BY <1>1, <1>3, <1>5, <1>6, <1>7, EndKnown, RequestKnown, QuietStore

\* Tokens.
LEMMA TokenClearKeeps ==
  ASSUME AccountInv, NEW r \in Requests, TokenClear(r)
  PROVE  AccountInv'
<1>1. Doing(r, "token", "go") /\ "insert" \in AskStages /\ ~Owes(r, "user") /\ ~Owes(r, "view")
  BY DEF TokenClear, AskStages, Doing, Owes
<1>2. /\ UNCHANGED <<users, prefs, owner, nonces, cached, viewed, made, accepted, blurred>>
      /\ tokens' \subseteq tokens
  BY DEF TokenClear, Caches, Past
<1>3. CASE End(r)
  BY <1>1, <1>2, <1>3, QuietEnd
<1>4. CASE Go(r, "insert")
  <2>1. AskerKnown(r)'
    BY <1>1, <1>2, <1>4, GoKnown, RequestKnown DEF Doing, AskerKnown, There
  <2>2. StageKnown(r)' /\ HeldIsTrue(r)'
    BY <1>1, <1>4, GoKnown, RequestKnown DEF Doing, StageKnown, HeldIsTrue
  <2> QED BY <1>1, <1>2, <1>4, <2>1, <2>2, GoKnown, RequestKnown, QuietGo
<1> QED BY <1>3, <1>4 DEF TokenClear

\* Linking a Discord account, up to the row.
LEMMA DiscordTokenKeeps ==
  ASSUME AccountInv, NEW r \in Requests, DiscordToken(r)
  PROVE  AccountInv'
<1>1. Doing(r, "discord", "go") /\ "check" \in AskStages /\ ~Owes(r, "user") /\ ~Owes(r, "view")
  BY DEF DiscordToken, AskStages, Doing, Owes
<1>2. UNCHANGED <<users, prefs, owner, nonces, tokens, cached, viewed, made, accepted, blurred>>
  BY DEF DiscordToken, Tables, Caches, Past
<1>3. CASE End(r)
  BY <1>1, <1>2, <1>3, QuietEnd
<1>4. CASE Go(r, "check")
  <2>1. AskerKnown(r)'
    BY <1>1, <1>2, <1>4, GoKnown, RequestKnown DEF Doing, AskerKnown, There
  <2>2. StageKnown(r)' /\ HeldIsTrue(r)'
    BY <1>1, <1>4, GoKnown, RequestKnown DEF Doing, StageKnown, HeldIsTrue
  <2> QED BY <1>1, <1>2, <1>4, <2>1, <2>2, GoKnown, RequestKnown, QuietGo
<1> QED BY <1>3, <1>4 DEF DiscordToken

LEMMA DiscordCheckKeeps ==
  ASSUME AccountInv, NEW r \in Requests, DiscordCheck(r)
  PROVE  AccountInv'
<1>1. Doing(r, "discord", "check") /\ {"write", "mark"} \subseteq AskStages /\ ~Owes(r, "user") /\ ~Owes(r, "view")
  BY DEF DiscordCheck, AskStages, Doing, Owes
<1>2. UNCHANGED <<users, prefs, owner, nonces, tokens, cached, viewed, made, accepted, blurred>>
  BY DEF DiscordCheck, Tables, Caches, Past
<1>3. CASE End(r)
  BY <1>1, <1>2, <1>3, QuietEnd
<1>4. ASSUME NEW s \in {"write", "mark"}, Go(r, s)
      PROVE  AccountInv'
  <2>1. AskerKnown(r)'
    BY <1>1, <1>2, <1>4, GoKnown, RequestKnown DEF Doing, AskerKnown, There
  <2>2. StageKnown(r)' /\ HeldIsTrue(r)'
    BY <1>1, <1>4, GoKnown, RequestKnown DEF Doing, StageKnown, HeldIsTrue
  <2> QED BY <1>1, <1>2, <1>4, <2>1, <2>2, GoKnown, RequestKnown, QuietGo
<1>5. CASE req' = [req EXCEPT ![r].stage = "move", ![r].seen = Placeholder]
  <2> DEFINE d == [req[r] EXCEPT !.stage = "move", !.seen = Placeholder]
  <2>1. d \in Asks
    BY RequestKnown DEF Asks, AskStages
  <2>2. req' \in [Requests -> Asks] /\ (\A q \in Requests \ {r} : req'[q] = req[q]) /\ req'[r] = d
    BY <1>5, <2>1, RequestKnown DEF AccountTypeOK
  <2>3. /\ d.kind = "discord" /\ d.user = req[r].user /\ d.id = req[r].id /\ d.arg = req[r].arg
        /\ d.stage = "move" /\ d.seen = Placeholder
    BY <1>1, RequestKnown DEF Asks, Doing
  <2> HIDE DEF d
  <2>4. AskerKnown(r)'
    BY <1>1, <1>2, <2>2, <2>3, RequestKnown DEF AskerKnown, There, Doing
  <2>5. StageKnown(r)' /\ HeldIsTrue(r)'
    BY <2>2, <2>3 DEF StageKnown, HeldIsTrue
  <2> QED BY <1>1, <1>2, <2>2, <2>3, <2>4, <2>5, QuietGo DEF Doing
<1> QED BY <1>3, <1>4, <1>5 DEF DiscordCheck, Merged

LEMMA DiscordForgetKeeps ==
  ASSUME AccountInv, NEW r \in Requests, DiscordForget(r)
  PROVE  AccountInv'
<1> DEFINE d == [req[r] EXCEPT !.stage = "write", !.seen = Absent]
<1>1. Doing(r, "discord", "forget") /\ ~Owes(r, "user") /\ ~Owes(r, "view")
  BY DEF DiscordForget, Doing, Owes
<1>2. UNCHANGED <<users, prefs, owner, nonces, tokens, viewed, made, accepted>>
  BY DEF DiscordForget, Tables, Past
<1>3. Store(Placeholder, Absent) /\ Placeholder \in Users
  BY <1>1, RequestKnown DEF DiscordForget, StageKnown, Doing
<1>4. d \in Asks
  BY RequestKnown DEF Asks, AskStages
<1>5. req' \in [Requests -> Asks] /\ (\A q \in Requests \ {r} : req'[q] = req[q]) /\ req'[r] = d
  BY <1>4, RequestKnown DEF DiscordForget, AccountTypeOK
<1>6. /\ d.kind = "discord" /\ d.user = req[r].user /\ d.id = req[r].id /\ d.arg = req[r].arg
      /\ d.stage = "write" /\ d.seen = Absent
  BY <1>1, RequestKnown DEF Asks, Doing
<1> HIDE DEF d
<1>7. AskerKnown(r)'
  BY <1>1, <1>2, <1>5, <1>6, RequestKnown DEF AskerKnown, There, Doing
<1>8. StageKnown(r)' /\ HeldIsTrue(r)'
  BY <1>5, <1>6 DEF StageKnown, HeldIsTrue
<1> QED BY <1>1, <1>2, <1>3, <1>5, <1>6, <1>7, <1>8, QuietStore DEF Doing

LEMMA DiscordUnviewKeeps ==
  ASSUME AccountInv, NEW r \in Requests, DiscordUnview(r)
  PROVE  AccountInv'
<1>1. Doing(r, "discord", "unview") /\ "uncache" \in AskStages /\ Go(r, "uncache") /\ Unview(req[r].user)
  BY DEF DiscordUnview, AskStages
<1>2. UNCHANGED <<users, prefs, owner, nonces, tokens, cached, made, accepted>>
  BY DEF DiscordUnview, Tables, Past
<1>3. There(req[r].user) /\ req[r].user \in Users
  BY <1>1, RequestKnown DEF AskerKnown, There, Doing
<1>4. AskerKnown(r)'
  BY <1>1, <1>2, GoKnown, RequestKnown DEF Doing, AskerKnown, There
<1>5. StageKnown(r)' /\ HeldIsTrue(r)'
  BY <1>1, GoKnown, RequestKnown DEF Doing, StageKnown, HeldIsTrue
<1>6. Owes(r, "user")'
  BY <1>1, GoKnown, RequestKnown DEF Doing, Owes
<1> QED BY <1>1, <1>2, <1>3, <1>4, <1>5, <1>6, GoKnown, RequestKnown, QuietUnview

LEMMA DiscordUncacheKeeps ==
  ASSUME AccountInv, NEW r \in Requests, DiscordUncache(r)
  PROVE  AccountInv'
<1>1. Doing(r, "discord", "uncache") /\ "mark" \in AskStages /\ Go(r, "mark") /\ Store(req[r].user, Absent)
  BY DEF DiscordUncache, AskStages, Uncached
<1>2. UNCHANGED <<users, prefs, owner, nonces, tokens, viewed, made, accepted>>
  BY DEF DiscordUncache, Tables, Past
<1>3. There(req[r].user) /\ req[r].user \in Users
  BY <1>1, RequestKnown DEF AskerKnown, There, Doing
<1>4. AskerKnown(r)'
  BY <1>1, <1>2, GoKnown, RequestKnown DEF Doing, AskerKnown, There
<1>5. StageKnown(r)' /\ HeldIsTrue(r)'
  BY <1>1, GoKnown, RequestKnown DEF Doing, StageKnown, HeldIsTrue
<1>6. ~Owes(r, "view")
  BY <1>1 DEF Doing, Owes
<1> QED BY <1>1, <1>2, <1>3, <1>4, <1>5, <1>6, GoKnown, RequestKnown, QuietStore

LEMMA DiscordMarkKeeps ==
  ASSUME AccountInv, NEW r \in Requests, DiscordMark(r)
  PROVE  AccountInv'
<1>1. End(r) /\ ~Owes(r, "user") /\ ~Owes(r, "view")
  BY DEF DiscordMark, Doing, Owes
<1>2. /\ UNCHANGED <<users, prefs, owner, nonces, cached, viewed, made, accepted, blurred>>
      /\ tokens' \subseteq tokens
  BY DEF DiscordMark, Caches, Past
<1> QED BY <1>1, <1>2, QuietEnd

\* The Telegram bot.
LEMMA TelegramReadKeeps ==
  ASSUME AccountInv, NEW r \in Requests, TelegramRead(r)
  PROVE  AccountInv'
<1>1. Doing(r, "telegram", "go") /\ "commit" \in AskStages /\ ~Owes(r, "user") /\ ~Owes(r, "view")
  BY DEF TelegramRead, AskStages, Doing, Owes
<1>2. UNCHANGED <<users, prefs, owner, nonces, tokens, cached, viewed, made, accepted, blurred>>
  BY DEF TelegramRead, Tables, Caches, Past
<1>3. CASE End(r)
  BY <1>1, <1>2, <1>3, QuietEnd
<1>4. CASE Go(r, "commit")
  <2>1. AskerKnown(r)'
    BY <1>1, <1>2, <1>4, GoKnown, RequestKnown DEF Doing, AskerKnown, There
  <2>2. StageKnown(r)' /\ HeldIsTrue(r)'
    BY <1>1, <1>4, GoKnown, RequestKnown DEF Doing, StageKnown, HeldIsTrue
  <2> QED BY <1>1, <1>2, <1>4, <2>1, <2>2, GoKnown, RequestKnown, QuietGo
<1> QED BY <1>3, <1>4 DEF TelegramRead

LEMMA TelegramUnviewKeeps ==
  ASSUME AccountInv, NEW r \in Requests, TelegramUnview(r)
  PROVE  AccountInv'
<1>1. Doing(r, "telegram", "unview") /\ End(r) /\ Unview(req[r].user) /\ ~Owes(r, "user")
  BY DEF TelegramUnview, Doing, Owes
<1>2. UNCHANGED <<users, prefs, owner, nonces, tokens, cached, made, accepted>>
  BY DEF TelegramUnview, Tables, Past
<1>3. There(req[r].user) /\ req[r].user \in Users
  BY <1>1, RequestKnown DEF AskerKnown, There, Doing
<1> QED BY <1>1, <1>2, <1>3, EndKnown, RequestKnown, QuietUnview

\* PUT /profile, once the rows are written.
LEMMA ProfileUnviewKeeps ==
  ASSUME AccountInv, NEW r \in Requests, ProfileUnview(r)
  PROVE  AccountInv'
<1>1. Doing(r, "profile", "unview") /\ "put" \in AskStages /\ Go(r, "put") /\ Unview(req[r].user)
  BY DEF ProfileUnview, AskStages
<1>2. /\ UNCHANGED <<users, prefs, owner, nonces, tokens, cached, made, accepted>>
      /\ blurred \subseteq blurred'
  BY DEF ProfileUnview, Tables, Past, Unview
<1>3. There(req[r].user) /\ req[r].user \in Users
  BY <1>1, RequestKnown DEF AskerKnown, There, Doing
<1>4. AskerKnown(r)'
  BY <1>1, <1>2, GoKnown, RequestKnown DEF Doing, AskerKnown, There
<1>5. StageKnown(r)'
  BY <1>1, GoKnown, RequestKnown DEF Doing, StageKnown
<1>6. HeldIsTrue(r)'
  BY <1>1, <1>2, GoKnown, RequestKnown DEF Doing, HeldIsTrue
<1>7. Owes(r, "user")'
  BY <1>1, GoKnown, RequestKnown DEF Doing, Owes
<1> QED BY <1>1, <1>2, <1>3, <1>4, <1>5, <1>6, <1>7, GoKnown, RequestKnown, QuietUnview

\* The view of the preferences.
LEMMA ViewAskKeeps ==
  ASSUME AccountInv, NEW r \in Requests, ViewAsk(r)
  PROVE  AccountInv'
<1>1. Doing(r, "view", "ask") /\ "read" \in AskStages /\ ~Owes(r, "user") /\ ~Owes(r, "view")
  BY DEF ViewAsk, AskStages, Doing, Owes
<1>2. UNCHANGED <<users, prefs, owner, nonces, tokens, cached, viewed, made, accepted, blurred>>
  BY DEF ViewAsk, Tables, Caches, Past
<1>3. CASE End(r)
  BY <1>1, <1>2, <1>3, QuietEnd
<1>4. CASE Go(r, "read")
  <2>1. AskerKnown(r)'
    BY <1>1, <1>2, <1>4, GoKnown, RequestKnown DEF Doing, AskerKnown, There
  <2>2. StageKnown(r)'
    BY <1>1, <1>2, <1>4, GoKnown, RequestKnown DEF Doing, StageKnown, Full
  <2>3. HeldIsTrue(r)'
    BY <1>1, <1>4, GoKnown, RequestKnown DEF Doing, StageKnown, HeldIsTrue
  <2> QED BY <1>1, <1>2, <1>4, <2>1, <2>2, <2>3, GoKnown, RequestKnown, QuietGo
<1> QED BY <1>3, <1>4 DEF ViewAsk

LEMMA ViewReadKeeps ==
  ASSUME AccountInv, NEW r \in Requests, ViewRead(r)
  PROVE  AccountInv'
<1> DEFINE u == req[r].user
<1>1. Doing(r, "view", "read") /\ ~Owes(r, "user") /\ ~Owes(r, "view")
  BY DEF ViewRead, Doing, Owes
<1>2. UNCHANGED <<users, prefs, owner, nonces, tokens, cached, viewed, made, accepted, blurred>>
  BY DEF ViewRead, Tables, Caches, Past
<1>3. AskerKnown(r) /\ StageKnown(r) /\ HeldIsTrue(r)
  BY RequestKnown
<1>4. There(u) /\ u \in Users /\ users[u] \in LinkRows /\ users[u] # Absent /\ Full(u)
  BY <1>1, <1>3, RequestKnown DEF AskerKnown, StageKnown, There, Doing
<1>5. prefs[u] \in PrefRows /\ prefs[u] # Absent
  BY <1>4, RequestKnown, AccountAssumption DEF PrefRows
<1>6. ASSUME NEW d \in Asks, req' = [req EXCEPT ![r] = d], d.kind = "view", d.user = u, d.id = req[r].id,
             d.stage \in {"read", "store"}, d.stage = "store" => d.seen # Absent /\ d.prefs # Absent,
             d.seen \in {req[r].seen, users[u]}, d.prefs \in {req[r].prefs, prefs[u]}
      PROVE  AccountInv'
  <2>1. req' \in [Requests -> Asks] /\ (\A q \in Requests \ {r} : req'[q] = req[q]) /\ req'[r] = d
    BY <1>6, RequestKnown DEF AccountTypeOK
  <2>2. AskerKnown(r)'
    BY <1>2, <1>4, <1>6, <2>1 DEF AskerKnown, There
  <2>3. StageKnown(r)'
    BY <1>2, <1>4, <1>6, <2>1 DEF StageKnown, Full
  <2>4. HeldIsTrue(r)'
    BY <1>1, <1>2, <1>3, <1>6, <2>1 DEF HeldIsTrue, Doing
  <2> QED BY <1>1, <1>2, <1>6, <2>1, <2>2, <2>3, <2>4, QuietGo DEF Doing
<1>7. CASE /\ req[r].prefs = Absent
           /\ req' = [req EXCEPT ![r].prefs = prefs[u],
                                 ![r].stage = IF req[r].seen # Absent THEN "store" ELSE "read"]
  <2> DEFINE d == [req[r] EXCEPT !.prefs = prefs[u],
                                 !.stage = IF req[r].seen # Absent THEN "store" ELSE "read"]
  <2>1. d \in Asks
    BY <1>5, RequestKnown DEF Asks, AskStages
  <2>2. req' = [req EXCEPT ![r] = d]
    BY <1>7, RequestKnown DEF AccountTypeOK
  <2>3. /\ d.kind = "view" /\ d.user = u /\ d.id = req[r].id /\ d.seen = req[r].seen /\ d.prefs = prefs[u]
        /\ d.stage = IF req[r].seen # Absent THEN "store" ELSE "read"
    BY <1>1, RequestKnown DEF Asks, Doing
  <2> HIDE DEF d
  <2> QED BY <1>5, <1>6, <2>1, <2>2, <2>3
<1>8. CASE /\ req[r].seen = Absent
           /\ req' = [req EXCEPT ![r].seen = users[u],
                                 ![r].stage = IF req[r].prefs # Absent THEN "store" ELSE "read"]
  <2> DEFINE d == [req[r] EXCEPT !.seen = users[u],
                                 !.stage = IF req[r].prefs # Absent THEN "store" ELSE "read"]
  <2>1. d \in Asks
    BY <1>4, RequestKnown DEF Asks, AskStages
  <2>2. req' = [req EXCEPT ![r] = d]
    BY <1>8, RequestKnown DEF AccountTypeOK
  <2>3. /\ d.kind = "view" /\ d.user = u /\ d.id = req[r].id /\ d.seen = users[u] /\ d.prefs = req[r].prefs
        /\ d.stage = IF req[r].prefs # Absent THEN "store" ELSE "read"
    BY <1>1, RequestKnown DEF Asks, Doing
  <2> HIDE DEF d
  <2> QED BY <1>4, <1>6, <2>1, <2>2, <2>3
<1> QED BY <1>7, <1>8 DEF ViewRead

\* A step of r that changes the rows of u, the alerts or both and no cache: those who have
\* read the rows of u for a cache put it in doubt, and r has the caches to tell.
LEMMA ChangeKeeps ==
  ASSUME AccountInv, NEW r \in Requests, NEW u \in Users,
         req' \in [Requests -> Asks], \A q \in Requests \ {r} : req'[q] = req[q],
         \/ req'[r].kind = "none"
         \/ req'[r].kind = req[r].kind /\ req'[r].user = req[r].user /\ req'[r].id = req[r].id,
         AskerKnown(r)', StageKnown(r)', HeldIsTrue(r)',
         users' \in [Users -> LinkRows \cup {Absent}], prefs' \in [Users -> PrefRows],
         owner' \in [Alerts -> Users \cup {Absent}],
         blurred \subseteq blurred', blurred' \subseteq {"user", "view"} \X Users,
         UNCHANGED <<nonces, cached, viewed, made, accepted>>, tokens' \subseteq tokens,
         \A v \in Users \ {u} : users'[v] = users[v] /\ prefs'[v] = prefs[v],
         u = Placeholder \/ users'[u] # Absent \/ users'[u] = users[u],
         u = Placeholder \/ (Full(u) => Full(u)'),
         \A v \in Users \ {u} : users'[u] # Absent /\ users[v] # Absent =>
           \A c \in Channels : users'[u][c] = users[v][c] => users'[u][c] = Absent,
         NothingIsLost', (\A a \in Alerts : owner[a] # Placeholder) => (\A a \in Alerts : owner'[a] # Placeholder),
         \/ u = Placeholder \/ users'[u] = users[u]
         \/ /\ <<"user", u>> \in blurred' \/ ~Holding(r, "user", u)
            /\ \/ cached[u] = Absent \/ <<"user", u>> \in blurred'
               \/ req'[r].user = u /\ Owes(r, "user")',
         \/ u = Placeholder \/ (users'[u] = users[u] /\ prefs'[u] = prefs[u])
         \/ /\ <<"view", u>> \in blurred' \/ ~Holding(r, "view", u)
            /\ \/ viewed[u] = Absent \/ <<"view", u>> \in blurred'
               \/ req'[r].user = u /\ Owes(r, "view")',
         \A c \in {"user", "view"} : Owes(r, c) => req'[r].user = req[r].user /\ Owes(r, c)'
  PROVE  AccountInv'
<1>1. PICK d : d = req'[r] /\ req' = [req EXCEPT ![r] = d]
  BY DEF AccountInv, AccountTypeOK
<1>2. AccountTypeOK'
  BY DEF AccountInv, AccountTypeOK
<1>3. NumbersAreFresh'
  BY <1>1, NumbersStay DEF AccountInv
<1>4. /\ Placeholder \notin Wallets /\ (\A w : There(w) => There(w)')
      /\ (\A w \in Wallets : Full(w) => Full(w)')
  <2>1. Placeholder \notin Wallets /\ Wallets \subseteq Users
    BY AbsentApart DEF Users
  <2>2. \A w \in Wallets : users[w] # Absent => users'[w] # Absent
    BY <2>1
  <2>3. \A w \in Wallets : Full(w) => Full(w)'
    BY <2>1 DEF Full
  <2> QED BY <2>1, <2>2, <2>3 DEF There
<1>5. TokensAreFor'
  BY <1>4 DEF AccountInv, TokensAreFor
<1>6. AskersKnown'
  <2>1. \A q \in Requests \ {r} : AskerKnown(q)' /\ StageKnown(q)'
    BY <1>1, <1>4, OthersStay DEF AccountInv
  <2>2. /\ \A w \in Wallets : users'[w] = users[w] \/ <<"user", w>> \in blurred' \/ ~Holding(r, "user", w)
        /\ \A w \in Wallets : \/ users'[w] = users[w] /\ prefs'[w] = prefs[w]
                              \/ <<"view", w>> \in blurred' \/ ~Holding(r, "view", w)
    BY <1>4 DEF Users
  <2>3. \A q \in Requests \ {r} : HeldIsTrue(q)'
    BY <1>1, <2>2, HeldStays DEF AccountInv
  <2> QED BY <2>1, <2>3 DEF AskersKnown
<1>7. CachedIsThere'
  <2> SUFFICES ASSUME NEW w \in Users
               PROVE  /\ w = Placeholder \/ users'[w] = Absent => cached[w] = Absent /\ viewed[w] = Absent
                      /\ viewed[w] # Absent => Full(w)'
    BY DEF CachedIsThere, Full
  <2>1. /\ w = Placeholder \/ users[w] = Absent => cached[w] = Absent /\ viewed[w] = Absent
        /\ viewed[w] # Absent => Full(w)
    BY DEF AccountInv, CachedIsThere
  <2>2. w # Placeholder => w \in Wallets
    BY DEF Users
  <2> QED BY <1>4, <2>1, <2>2 DEF There
<1>8. CachesAreTrue'
  <2>1. \A q \in Requests \ {r}, c \in {"user", "view"} : Owes(q, c) => Owes(q, c)'
    BY DEF Owes
  <2>2. ASSUME NEW w \in Users, cached[w] # Absent, <<"user", w>> \notin blurred',
               ~ \E q \in Requests : req'[q].user = w /\ Owes(q, "user")'
        PROVE  cached[w] = users'[w]
    <3>1. w # Placeholder
      BY <2>2 DEF AccountInv, CachedIsThere
    <3>2. users'[w] = users[w]
      BY <2>2, <3>1
    <3>3. ~ \E q \in Requests : req[q].user = w /\ Owes(q, "user")
      BY <2>1, <2>2
    <3> QED BY <2>2, <3>2, <3>3 DEF AccountInv, AccountsAreTrue, CachesAreTrue
  <2>3. ASSUME NEW w \in Users, viewed[w] # Absent, <<"view", w>> \notin blurred',
               ~ \E q \in Requests : req'[q].user = w /\ Owes(q, "view")'
        PROVE  viewed[w] = View(prefs'[w], users'[w])
    <3>1. w # Placeholder
      BY <2>3 DEF AccountInv, CachedIsThere
    <3>2. users'[w] = users[w] /\ prefs'[w] = prefs[w]
      BY <2>3, <3>1
    <3>3. ~ \E q \in Requests : req[q].user = w /\ Owes(q, "view")
      BY <2>1, <2>3
    <3> QED BY <2>3, <3>2, <3>3 DEF AccountInv, AccountsAreTrue, CachesAreTrue
  <2> QED BY <2>2, <2>3 DEF CachesAreTrue
<1>9. OneOfEach'
  <2>1. \A i \in DOMAIN accepted : accepted[i] <= 1
    BY DEF AccountInv, AccountsAreTrue, OneOfEach
  <2>2. ASSUME NEW v \in Users, NEW w \in Users, v # w, users'[v] # Absent, users'[w] # Absent, NEW c \in Channels,
               users'[v][c] = users'[w][c]
        PROVE  users'[v][c] = Absent
    <3>1. CASE v # u /\ w # u
      BY <2>2, <3>1 DEF AccountInv, AccountsAreTrue, OneOfEach
    <3>2. CASE v = u
      BY <2>2, <3>2
    <3>3. CASE w = u
      BY <2>2, <3>3
    <3> QED BY <3>1, <3>2, <3>3
  <2> QED BY <2>1, <2>2 DEF OneOfEach
<1> QED BY <1>2, <1>3, <1>5, <1>6, <1>7, <1>8, <1>9 DEF AccountInv, AccountsAreTrue

LEMMA ViewStoreKeeps ==
  ASSUME AccountInv, NEW r \in Requests, ViewStore(r)
  PROVE  AccountInv'
<1> DEFINE u == req[r].user
           v == View(req[r].prefs, req[r].seen)
<1>1. Doing(r, "view", "store") /\ End(r) /\ ~Owes(r, "user") /\ ~Owes(r, "view")
  BY DEF ViewStore, Doing, Owes
<1>2. UNCHANGED <<users, prefs, owner, nonces, tokens, cached, made, accepted, blurred>>
  BY DEF ViewStore, Tables, Past
<1>3. There(u) /\ u \in Users /\ Full(u)
  BY <1>1, RequestKnown DEF AskerKnown, StageKnown, There, Doing
<1>4. <<"view", u>> \in blurred \/ v = View(prefs[u], users[u])
  BY <1>1, RequestKnown DEF HeldIsTrue, StageKnown, Doing
<1>5. v \in ViewRows
  BY DEF View, ViewRows
<1>6. /\ cached \in [Users -> LinkRows \cup {Absent}] /\ viewed \in [Users -> ViewRows \cup {Absent}]
      /\ blurred \subseteq {"user", "view"} \X Users
  BY DEF AccountInv, AccountTypeOK
<1>7. viewed' = viewed \/ viewed' = [viewed EXCEPT ![u] = v]
  BY DEF ViewStore
<1> HIDE DEF v
<1>8. /\ viewed' \in [Users -> ViewRows \cup {Absent}]
      /\ \A w \in Users : viewed'[w] = viewed[w] \/ (w = u /\ viewed'[w] = v)
  BY <1>3, <1>5, <1>6, <1>7
<1>9. \A w \in Users : \/ viewed'[w] \in {viewed[w], Absent}
                       \/ /\ There(w) /\ Full(w)
                          /\ (<<"view", w>> \in blurred' \/ viewed'[w] = View(prefs[w], users[w]))
  BY <1>2, <1>3, <1>4, <1>8
<1> QED BY <1>1, <1>2, <1>6, <1>8, <1>9, EndKnown, RequestKnown, QuietStep

\* A request that stops where it owes a cache something has left it in doubt.
LEMMA StopKeeps ==
  ASSUME AccountInv, NEW r \in Requests, Stop(r)
  PROVE  AccountInv'
<1> DEFINE due == {<<c, req[r].user>> : c \in {k \in {"user", "view"} : Owes(r, k)}}
<1>1. End(r) /\ blurred' = blurred \cup due
      /\ UNCHANGED <<users, prefs, owner, nonces, tokens, cached, viewed, made, accepted>>
  BY DEF Stop, Tables, Caches, Past
<1>2. \A c \in {"user", "view"} : Owes(r, c) => req[r].user \in Users /\ <<c, req[r].user>> \in due
  BY RequestKnown DEF Owes, AskerKnown, There
<1>3. due \subseteq {"user", "view"} \X Users
  BY <1>2
<1> HIDE DEF due
<1>4. /\ cached \in [Users -> LinkRows \cup {Absent}] /\ viewed \in [Users -> ViewRows \cup {Absent}]
      /\ blurred \subseteq {"user", "view"} \X Users
  BY DEF AccountInv, AccountTypeOK
<1> QED BY <1>1, <1>2, <1>3, <1>4, EndKnown, RequestKnown, QuietStep

\* The row of a first sign-in.
LEMMA InsertUserKeeps ==
  ASSUME AccountInv, NEW r \in Requests, InsertUser(r)
  PROVE  AccountInv'
<1>0. PICK u : u = req[r].user
  OBVIOUS
<1>1. Doing(r, "signin", "insert") /\ ~Owes(r, "user") /\ ~Owes(r, "view") /\ u \in Wallets /\ u \in Users
  BY <1>0, RequestKnown DEF InsertUser, Doing, Owes, AskerKnown
<1>2. UNCHANGED <<prefs, owner, nonces, tokens, cached, viewed, made, accepted, blurred>>
  BY DEF InsertUser, Caches, Past
<1>3. CASE users[u] # Absent
  <2>1. End(r) /\ users' = users
    BY <1>0, <1>3 DEF InsertUser
  <2> QED BY <1>1, <1>2, <2>1, QuietEnd
<1>4. CASE users[u] = Absent
  <2> DEFINE d == [req[r] EXCEPT !.stage = "put", !.seen = NewRow]
  <2>1. users' = [users EXCEPT ![u] = NewRow] /\ req' = [req EXCEPT ![r].stage = "put", ![r].seen = NewRow]
    BY <1>0, <1>4 DEF InsertUser
  <2>2. NewRow \in LinkRows /\ NewRow # Absent /\ \A c \in Channels : NewRow[c] = Absent
    BY AbsentApart, AccountAssumption DEF NewRow, LinkRows
  <2>3. /\ users' \in [Users -> LinkRows \cup {Absent}] /\ users'[u] = NewRow
        /\ \A v \in Users \ {u} : users'[v] = users[v]
    BY <1>1, <2>1, <2>2, RequestKnown
  <2>4. d \in Asks
    BY <2>2, RequestKnown DEF Asks, AskStages
  <2>5. req' \in [Requests -> Asks] /\ (\A q \in Requests \ {r} : req'[q] = req[q]) /\ req'[r] = d
    BY <2>1, <2>4, RequestKnown DEF AccountTypeOK
  <2>6. d.kind = "signin" /\ d.user = u /\ d.id = req[r].id /\ d.stage = "put" /\ d.seen = NewRow
    BY <1>0, <1>1, RequestKnown DEF Asks, Doing
  <2> HIDE DEF d
  <2>7. AskerKnown(r)'
    BY <1>1, <2>5, <2>6 DEF AskerKnown
  <2>8. StageKnown(r)'
    BY <1>1, <2>2, <2>3, <2>5, <2>6 DEF StageKnown, There
  <2>9. HeldIsTrue(r)'
    BY <2>3, <2>5, <2>6 DEF HeldIsTrue
  <2>10. ~Holding(r, "user", u) /\ ~Holding(r, "view", u)
    <3> SUFFICES ASSUME NEW q \in Requests, req[q].user = u,
                        \/ req[q].stage = "loaded" \/ (req[q].kind \in {"signin", "profile"} /\ req[q].seen # Absent)
                        \/ req[q].kind = "view"
                 PROVE  FALSE
      BY DEF Holding
    <3>1. AskerKnown(q) /\ StageKnown(q)
      BY RequestKnown
    <3> QED BY <1>4, <3>1 DEF AskerKnown, StageKnown, There
  <2>11. cached[u] = Absent /\ viewed[u] = Absent
    BY <1>1, <1>4 DEF AccountInv, CachedIsThere
  <2>12. NothingIsLost'
    BY <1>2, <2>2, <2>3, AccountAssumption DEF AccountInv, AccountsAreTrue, NothingIsLost, AccountTypeOK, Users
  <2>13. /\ prefs' \in [Users -> PrefRows] /\ owner' \in [Alerts -> Users \cup {Absent}]
         /\ blurred' \subseteq {"user", "view"} \X Users /\ (Full(u) => Full(u)')
    BY <1>2 DEF AccountInv, AccountTypeOK, Full
  <2>14. req'[r].kind = req[r].kind /\ req'[r].user = req[r].user /\ req'[r].id = req[r].id
    BY <1>0, <1>1, <2>5, <2>6 DEF Doing
  <2>15. \A v \in Users \ {u} : users'[u] # Absent /\ users[v] # Absent =>
           \A c \in Channels : users'[u][c] = users[v][c] => users'[u][c] = Absent
    BY <2>2, <2>3
  <2> QED BY <1>1, <1>2, <2>2, <2>3, <2>5, <2>7, <2>8, <2>9, <2>10, <2>11, <2>12, <2>13, <2>14, <2>15, ChangeKeeps
<1> QED BY <1>3, <1>4

\* The placeholder is merged: its alerts move, then it is deleted.
LEMMA DiscordMoveKeeps ==
  ASSUME AccountInv, NEW r \in Requests, DiscordMove(r)
  PROVE  AccountInv'
<1>0. PICK u : u = req[r].user
  OBVIOUS
<1>1. /\ Doing(r, "discord", "move") /\ Go(r, "delete") /\ "delete" \in AskStages
      /\ ~Owes(r, "user") /\ ~Owes(r, "view")
  BY DEF DiscordMove, Doing, Owes, AskStages
<1>2. UNCHANGED <<users, prefs, nonces, tokens, cached, viewed, made, accepted, blurred>>
  BY DEF DiscordMove, Caches, Past
<1>3. There(u) /\ u \in Users /\ u \in Wallets /\ u # Placeholder /\ req[r].seen = Placeholder
  BY <1>0, <1>1, RequestKnown, AbsentApart DEF AskerKnown, StageKnown, There, Doing
<1>4. owner' = [a \in Alerts |-> IF owner[a] = Placeholder THEN u ELSE owner[a]]
  BY <1>0, <1>3 DEF DiscordMove
<1>5. owner' \in [Alerts -> Users \cup {Absent}] /\ \A a \in Alerts : owner'[a] # Placeholder
  BY <1>3, <1>4 DEF AccountInv, AccountTypeOK
<1>6. NothingIsLost'
  BY <1>2, <1>3, <1>4, AbsentApart DEF AccountInv, AccountsAreTrue, NothingIsLost, There
<1>7. AskerKnown(r)'
  BY <1>1, <1>2, GoKnown, RequestKnown DEF Doing, AskerKnown, There
<1>8. StageKnown(r)' /\ HeldIsTrue(r)'
  BY <1>1, <1>3, <1>5, GoKnown, RequestKnown DEF Doing, StageKnown, HeldIsTrue
<1>9. /\ users' \in [Users -> LinkRows \cup {Absent}] /\ prefs' \in [Users -> PrefRows]
      /\ blurred' \subseteq {"user", "view"} \X Users /\ (Full(u) => Full(u)')
  BY <1>2 DEF AccountInv, AccountTypeOK, Full
<1>10. \A v \in Users \ {u} : users'[u] # Absent /\ users[v] # Absent =>
         \A c \in Channels : users'[u][c] = users[v][c] => users'[u][c] = Absent
  BY <1>2, <1>3 DEF AccountInv, AccountsAreTrue, OneOfEach
<1>11. /\ req' \in [Requests -> Asks] /\ (\A q \in Requests \ {r} : req'[q] = req[q])
       /\ req'[r].kind = req[r].kind /\ req'[r].user = req[r].user /\ req'[r].id = req[r].id
  BY <1>1, GoKnown, RequestKnown
<1> QED BY <1>1, <1>2, <1>3, <1>5, <1>6, <1>7, <1>8, <1>9, <1>10, <1>11, ChangeKeeps

LEMMA DiscordDeleteKeeps ==
  ASSUME AccountInv, NEW r \in Requests, DiscordDelete(r)
  PROVE  AccountInv'
<1> DEFINE u == Placeholder
<1>1. /\ Doing(r, "discord", "delete") /\ Go(r, "forget") /\ "forget" \in AskStages
      /\ ~Owes(r, "user") /\ ~Owes(r, "view")
  BY DEF DiscordDelete, Doing, Owes, AskStages, Go
<1>2. UNCHANGED <<nonces, tokens, cached, viewed, made, accepted, blurred>>
  BY DEF DiscordDelete, Caches, Past
<1>3. /\ req[r].seen = u /\ (\A a \in Alerts : owner[a] # u) /\ u \in Users /\ u \notin Wallets
      /\ There(req[r].user)
  BY <1>1, RequestKnown, AbsentApart DEF AskerKnown, StageKnown, Doing
<1>4. /\ users' = [users EXCEPT ![u] = Absent] /\ prefs' = [prefs EXCEPT ![u] = NoPrefs]
      /\ owner' = [a \in Alerts |-> owner[a]]
  BY <1>3 DEF DiscordDelete
<1>5. /\ users' \in [Users -> LinkRows \cup {Absent}] /\ prefs' \in [Users -> PrefRows] /\ users'[u] = Absent
      /\ \A v \in Users \ {u} : users'[v] = users[v] /\ prefs'[v] = prefs[v]
  BY <1>3, <1>4, RequestKnown, AbsentApart
<1>6. owner' = owner /\ owner' \in [Alerts -> Users \cup {Absent}]
  BY <1>4 DEF AccountInv, AccountTypeOK
<1>7. NothingIsLost'
  <2>1. \A a \in Alerts : owner[a] \in Users /\ owner[a] # u /\ users[owner[a]] # Absent /\ owner[a] # Absent
    BY <1>3 DEF AccountInv, AccountTypeOK, AccountsAreTrue, NothingIsLost
  <2>2. \A w \in Registered : users[w] # Absent /\ w \in Users /\ w # u
    BY <1>3, AccountAssumption DEF AccountInv, AccountsAreTrue, NothingIsLost, Users
  <2> QED BY <1>5, <1>6, <2>1, <2>2 DEF NothingIsLost
<1>8. AskerKnown(r)'
  <2>1. \A w : There(w) => There(w)'
    BY <1>3, <1>5 DEF There, Users
  <2> QED BY <1>1, <1>3, <2>1, GoKnown, RequestKnown DEF Doing, AskerKnown
<1>9. StageKnown(r)' /\ HeldIsTrue(r)'
  BY <1>1, <1>3, GoKnown, RequestKnown DEF Doing, StageKnown, HeldIsTrue
<1>10. blurred' \subseteq {"user", "view"} \X Users
  BY <1>2 DEF AccountInv, AccountTypeOK
<1>11. /\ req' \in [Requests -> Asks] /\ (\A q \in Requests \ {r} : req'[q] = req[q])
       /\ req'[r].kind = req[r].kind /\ req'[r].user = req[r].user /\ req'[r].id = req[r].id
  BY <1>1, GoKnown, RequestKnown
<1> QED BY <1>1, <1>2, <1>3, <1>5, <1>6, <1>7, <1>8, <1>9, <1>10, <1>11, ChangeKeeps

\* The defaults: whoever has been viewed has them already.
LEMMA ViewDefaultsKeeps ==
  ASSUME AccountInv, NEW r \in Requests, ViewDefaults(r)
  PROVE  AccountInv'
<1>0. PICK u : u = req[r].user
  OBVIOUS
<1>1. /\ Doing(r, "view", "go") /\ Go(r, "ask") /\ "ask" \in AskStages
      /\ ~Owes(r, "user") /\ ~Owes(r, "view")
  BY DEF ViewDefaults, Doing, Owes, AskStages, Go
<1>2. UNCHANGED <<users, owner, nonces, tokens, cached, viewed, made, accepted, blurred>>
  BY DEF ViewDefaults, Caches, Past
<1>3. There(u) /\ u \in Users /\ u \in Wallets /\ u # Placeholder
  BY <1>0, <1>1, RequestKnown, AbsentApart DEF AskerKnown, There, Doing
<1>4. prefs' = [prefs EXCEPT ![u] = Defaults(u)] /\ prefs[u] \in PrefRows
  BY <1>0, <1>3, RequestKnown DEF ViewDefaults
<1>5. Defaults(u) \in PrefRows /\ (\A c \in Channels : Defaults(u)[c] # Absent)
      /\ (Full(u) => Defaults(u) = prefs[u])
  <2>1. \A c \in Channels : Defaults(u)[c] = IF prefs[u][c] = Absent THEN TRUE ELSE prefs[u][c]
    BY DEF Defaults
  <2>2. \A c \in Channels : Defaults(u)[c] \in BOOLEAN \cup {Absent} /\ Defaults(u)[c] # Absent
    BY <1>4, <2>1, AccountAssumption DEF PrefRows
  <2>3. Defaults(u) \in PrefRows
    BY <2>2 DEF Defaults, PrefRows
  <2>4. ASSUME Full(u) PROVE Defaults(u) = prefs[u]
    BY <1>4, <2>1, <2>3, <2>4 DEF Full, PrefRows, Channels
  <2> QED BY <2>2, <2>3, <2>4
<1>6. /\ prefs' \in [Users -> PrefRows] /\ prefs'[u] = Defaults(u)
      /\ \A v \in Users \ {u} : prefs'[v] = prefs[v]
  BY <1>3, <1>4, <1>5, RequestKnown
<1>7. Full(u)'
  BY <1>5, <1>6 DEF Full, Channels
<1>8. AskerKnown(r)'
  BY <1>1, <1>2, GoKnown, RequestKnown DEF Doing, AskerKnown, There
<1>9. StageKnown(r)'
  BY <1>0, <1>1, <1>7, GoKnown, RequestKnown DEF Doing, StageKnown
<1>10. HeldIsTrue(r)'
  BY <1>1, GoKnown, RequestKnown DEF Doing, HeldIsTrue
<1>11. /\ users' \in [Users -> LinkRows \cup {Absent}] /\ owner' \in [Alerts -> Users \cup {Absent}]
       /\ blurred' \subseteq {"user", "view"} \X Users
  BY <1>2 DEF AccountInv, AccountTypeOK
<1>12. \A v \in Users \ {u} : users'[u] # Absent /\ users[v] # Absent =>
         \A c \in Channels : users'[u][c] = users[v][c] => users'[u][c] = Absent
  BY <1>2, <1>3 DEF AccountInv, AccountsAreTrue, OneOfEach
<1>13. NothingIsLost'
  BY <1>2 DEF AccountInv, AccountsAreTrue, NothingIsLost
<1>14. prefs'[u] = prefs[u] \/ (~Holding(r, "view", u) /\ viewed[u] = Absent)
  <2>1. CASE Full(u)
    BY <2>1, <1>5, <1>6
  <2>2. CASE ~Full(u)
    <3>1. viewed[u] = Absent
      BY <1>3, <2>2 DEF AccountInv, CachedIsThere
    <3>2. ~Holding(r, "view", u)
      BY <2>2, RequestKnown DEF Holding, StageKnown
    <3> QED BY <3>1, <3>2
  <2> QED BY <2>1, <2>2
<1>15. /\ req' \in [Requests -> Asks] /\ (\A q \in Requests \ {r} : req'[q] = req[q])
       /\ req'[r].kind = req[r].kind /\ req'[r].user = req[r].user /\ req'[r].id = req[r].id
  BY <1>1, GoKnown, RequestKnown
<1> QED BY <1>1, <1>2, <1>3, <1>6, <1>7, <1>8, <1>9, <1>10, <1>11, <1>12, <1>13, <1>14, <1>15, ChangeKeeps

\* A change puts the caches in doubt for which somebody holds the rows of before.
LEMMA ChangingKeeps ==
  ASSUME AccountTypeOK, NEW r \in Requests, NEW u \in Users, Changing(r, u)
  PROVE  /\ blurred \subseteq blurred' /\ blurred' \subseteq {"user", "view"} \X Users
         /\ <<"user", u>> \in blurred' \/ ~Holding(r, "user", u)
         /\ <<"view", u>> \in blurred' \/ ~Holding(r, "view", u)
<1> DEFINE more == {<<c, u>> : c \in {k \in {"user", "view"} : Holding(r, k, u)}}
<1>1. /\ more \subseteq {"user", "view"} \X Users
      /\ \A c \in {"user", "view"} : Holding(r, c, u) => <<c, u>> \in more
  OBVIOUS
<1>2. blurred' = blurred \cup more
  BY DEF Changing
<1> HIDE DEF more
<1> QED BY <1>1, <1>2 DEF AccountTypeOK

\* A row that takes a link no other row has.
LEMMA LinkKeeps ==
  ASSUME AccountInv, NEW u \in Wallets, users[u] # Absent, NEW c \in Channels,
         NEW value \in Chats \cup {Discord, Absent}, ~Clashes(u, c, value),
         users' = [users EXCEPT ![u] = [users[u] EXCEPT ![c] = value]]
  PROVE  /\ users' \in [Users -> LinkRows \cup {Absent}] /\ users'[u] # Absent
         /\ users'[u] = [users[u] EXCEPT ![c] = value]
         /\ \A v \in Users \ {u} : users'[v] = users[v]
         /\ \A v \in Users \ {u} : users'[u] # Absent /\ users[v] # Absent =>
              \A k \in Channels : users'[u][k] = users[v][k] => users'[u][k] = Absent
<1> DEFINE x == [users[u] EXCEPT ![c] = value]
<1>1. u \in Users /\ users \in [Users -> LinkRows \cup {Absent}] /\ users[u] \in LinkRows
  BY DEF AccountInv, AccountTypeOK, Users
<1>2. x \in LinkRows /\ x[c] = value /\ \A k \in Channels \ {c} : x[k] = users[u][k]
  BY <1>1 DEF LinkRows
<1>3. x # Absent
  BY <1>2, AccountAssumption DEF LinkRows
<1> HIDE DEF x
<1>4. users' \in [Users -> LinkRows \cup {Absent}] /\ users'[u] = x /\ \A v \in Users \ {u} : users'[v] = users[v]
  BY <1>1, <1>2 DEF x
<1>5. ASSUME NEW v \in Users \ {u}, users[v] # Absent, NEW k \in Channels, x[k] = users[v][k]
      PROVE  x[k] = Absent
  <2>1. CASE k = c
    BY <1>2, <1>5, <2>1 DEF Clashes
  <2>2. CASE k # c
    BY <1>1, <1>2, <1>5, <2>2 DEF AccountInv, AccountsAreTrue, OneOfEach
  <2> QED BY <2>1, <2>2
<1> QED BY <1>3, <1>4, <1>5 DEF x

\* A channel is switched.
LEMMA PreferKeeps ==
  ASSUME AccountInv, NEW u \in Wallets, NEW c \in Channels, NEW on \in BOOLEAN,
         prefs' = [prefs EXCEPT ![u] = [prefs[u] EXCEPT ![c] = on]]
  PROVE  /\ prefs' \in [Users -> PrefRows] /\ (Full(u) => Full(u)')
         /\ \A v \in Users \ {u} : prefs'[v] = prefs[v]
<1> DEFINE p == [prefs[u] EXCEPT ![c] = on]
<1>1. u \in Users /\ prefs \in [Users -> PrefRows] /\ prefs[u] \in PrefRows
  BY DEF AccountInv, AccountTypeOK, Users
<1>2. p \in PrefRows /\ p[c] = on /\ \A k \in Channels \ {c} : p[k] = prefs[u][k]
  BY <1>1 DEF PrefRows
<1>3. on # Absent
  BY AccountAssumption
<1> HIDE DEF p
<1>4. prefs' \in [Users -> PrefRows] /\ prefs'[u] = p /\ \A v \in Users \ {u} : prefs'[v] = prefs[v]
  BY <1>1, <1>2 DEF p
<1>5. Full(u) => Full(u)'
  BY <1>2, <1>3, <1>4 DEF Full, Channels
<1> QED BY <1>4, <1>5

\* Nothing is lost where rows only change.
LEMMA LossKeeps ==
  ASSUME AccountInv, UNCHANGED owner, \A u \in Users : users[u] # Absent => users'[u] # Absent
  PROVE  NothingIsLost' /\ owner' \in [Alerts -> Users \cup {Absent}]
<1>1. \A a \in Alerts : owner[a] \in Users \cup {Absent}
  BY DEF AccountInv, AccountTypeOK
<1>2. Registered \subseteq Users
  BY AccountAssumption DEF Users
<1> QED BY <1>1, <1>2 DEF AccountInv, AccountTypeOK, AccountsAreTrue, NothingIsLost

\* POST /auth/discord/link-with-token writes the row and then the preferences.
LEMMA DiscordWriteKeeps ==
  ASSUME AccountInv, NEW r \in Requests, DiscordWrite(r)
  PROVE  AccountInv'
<1>0. PICK u : u = req[r].user
  OBVIOUS
<1>1. /\ Doing(r, "discord", "write") /\ "prefer" \in AskStages /\ ~Owes(r, "user") /\ ~Owes(r, "view")
  BY DEF DiscordWrite, Doing, Owes, AskStages
<1>2. UNCHANGED <<prefs, owner, nonces, tokens, cached, viewed, made, accepted>>
  BY DEF DiscordWrite, Caches, Past
<1>3. There(u) /\ u \in Users /\ u \in Wallets /\ u # Placeholder /\ users[u] # Absent
  BY <1>0, <1>1, RequestKnown, AbsentApart DEF AskerKnown, There, Doing
<1>4. CASE Clashes(u, "discord", Discord)
  <2>1. End(r) /\ UNCHANGED <<users, blurred>>
    BY <1>0, <1>4 DEF DiscordWrite
  <2> QED BY <1>1, <1>2, <2>1, QuietEnd
<1>5. CASE ~Clashes(u, "discord", Discord)
  <2>1. /\ users' = [users EXCEPT ![u] = [users[u] EXCEPT !["discord"] = Discord]]
        /\ Changing(r, u) /\ Go(r, "prefer")
    BY <1>0, <1>5 DEF DiscordWrite
  <2>2. /\ users' \in [Users -> LinkRows \cup {Absent}] /\ users'[u] # Absent
        /\ \A v \in Users \ {u} : users'[v] = users[v]
        /\ \A v \in Users \ {u} : users'[u] # Absent /\ users[v] # Absent =>
              \A k \in Channels : users'[u][k] = users[v][k] => users'[u][k] = Absent
    BY <1>3, <1>5, <2>1, LinkKeeps DEF Channels
  <2>3. /\ req' \in [Requests -> Asks] /\ (\A q \in Requests \ {r} : req'[q] = req[q])
        /\ req'[r].kind = "discord" /\ req'[r].user = u /\ req'[r].id = req[r].id /\ req'[r].stage = "prefer"
        /\ req[r].kind = "discord"
    BY <1>0, <1>1, <2>1, GoKnown, RequestKnown DEF Doing
  <2>4. AskerKnown(r)' /\ StageKnown(r)' /\ HeldIsTrue(r)'
    BY <1>3, <2>2, <2>3 DEF AskerKnown, StageKnown, HeldIsTrue, There
  <2>5. Owes(r, "user")' /\ Owes(r, "view")'
    BY <2>3 DEF Owes
  <2>6. /\ blurred \subseteq blurred' /\ blurred' \subseteq {"user", "view"} \X Users
        /\ <<"user", u>> \in blurred' \/ ~Holding(r, "user", u)
        /\ <<"view", u>> \in blurred' \/ ~Holding(r, "view", u)
    BY <1>3, <2>1, ChangingKeeps, RequestKnown
  <2>7. NothingIsLost' /\ owner' \in [Alerts -> Users \cup {Absent}]
    BY <1>2, <2>2, LossKeeps
  <2>8. prefs' \in [Users -> PrefRows] /\ (Full(u) => Full(u)')
    BY <1>2, RequestKnown DEF Full
  <2> QED BY <1>0, <1>1, <1>2, <1>3, <2>2, <2>3, <2>4, <2>5, <2>6, <2>7, <2>8, ChangeKeeps
<1> QED BY <1>4, <1>5

\* Both ways to switch a channel once the row is written.
LEMMA ChannelSwitchKeeps ==
  ASSUME AccountInv, NEW r \in Requests, DiscordPrefer(r) \/ ProfilePrefer(r)
  PROVE  AccountInv'
<1>0. PICK u : u = req[r].user
  OBVIOUS
<1>1. /\ req[r].stage = "prefer" /\ req[r].kind \in {"discord", "profile"} /\ "unview" \in AskStages
      /\ Go(r, "unview") /\ Changing(r, u)
  BY <1>0 DEF DiscordPrefer, ProfilePrefer, Doing, AskStages
<1>2. UNCHANGED <<users, owner, nonces, tokens, cached, viewed, made, accepted>>
  BY DEF DiscordPrefer, ProfilePrefer, Caches, Past
<1>3. There(u) /\ u \in Users /\ u \in Wallets /\ u # Placeholder
  BY <1>0, <1>1, RequestKnown, AbsentApart DEF AskerKnown, There
<1>4. \E c \in Channels, on \in BOOLEAN : prefs' = [prefs EXCEPT ![u] = [prefs[u] EXCEPT ![c] = on]]
  BY <1>0 DEF DiscordPrefer, ProfilePrefer, Channels
<1>5. /\ prefs' \in [Users -> PrefRows] /\ (Full(u) => Full(u)')
      /\ \A v \in Users \ {u} : prefs'[v] = prefs[v]
  BY <1>3, <1>4, PreferKeeps
<1>6. /\ req' \in [Requests -> Asks] /\ (\A q \in Requests \ {r} : req'[q] = req[q])
      /\ req'[r].kind = req[r].kind /\ req'[r].user = u /\ req'[r].id = req[r].id /\ req'[r].stage = "unview"
      /\ req'[r].arg = req[r].arg /\ req'[r].seen = req[r].seen
  BY <1>0, <1>1, GoKnown, RequestKnown
<1>7. AskerKnown(r)'
  BY <1>0, <1>1, <1>2, <1>3, <1>6, RequestKnown DEF AskerKnown, There
<1>8. StageKnown(r)'
  BY <1>1, <1>6, RequestKnown DEF StageKnown
<1>9. /\ blurred \subseteq blurred' /\ blurred' \subseteq {"user", "view"} \X Users
      /\ <<"user", u>> \in blurred' \/ ~Holding(r, "user", u)
      /\ <<"view", u>> \in blurred' \/ ~Holding(r, "view", u)
  BY <1>1, <1>3, ChangingKeeps, RequestKnown
<1>10. HeldIsTrue(r)'
  BY <1>0, <1>1, <1>2, <1>6, <1>9, RequestKnown DEF HeldIsTrue
<1>11. Owes(r, "user")' /\ Owes(r, "view")'
  BY <1>1, <1>6 DEF Owes
<1>12. NothingIsLost' /\ owner' \in [Alerts -> Users \cup {Absent}]
  BY <1>2, LossKeeps
<1>13. users' \in [Users -> LinkRows \cup {Absent}]
  BY <1>2, RequestKnown
<1>14. \A v \in Users \ {u} : users'[u] # Absent /\ users[v] # Absent =>
         \A c \in Channels : users'[u][c] = users[v][c] => users'[u][c] = Absent
  BY <1>2, <1>3 DEF AccountInv, AccountsAreTrue, OneOfEach
<1> QED BY <1>0, <1>1, <1>2, <1>3, <1>5, <1>6, <1>7, <1>8, <1>9, <1>10, <1>11, <1>12, <1>13, <1>14, ChangeKeeps

LEMMA ProfileWriteKeeps ==
  ASSUME AccountInv, NEW r \in Requests, ProfileWrite(r)
  PROVE  AccountInv'
<1>0. PICK u : u = req[r].user
  OBVIOUS
<1>1. /\ Doing(r, "profile", "go") /\ ~Owes(r, "user") /\ ~Owes(r, "view")
  BY DEF ProfileWrite, Doing, Owes
<1>2. UNCHANGED <<prefs, owner, nonces, tokens, cached, viewed, made, accepted>>
  BY DEF ProfileWrite, Caches, Past
<1>3. /\ There(u) /\ u \in Users /\ u \in Wallets /\ u # Placeholder /\ users[u] # Absent
      /\ req[r].arg \in Chats \cup {Absent} /\ req[r].prefs = Absent
  BY <1>0, <1>1, RequestKnown, AbsentApart DEF AskerKnown, StageKnown, There, Doing
<1>4. CASE Clashes(u, "chat", req[r].arg)
  <2>1. End(r) /\ UNCHANGED <<users, blurred>>
    BY <1>0, <1>4 DEF ProfileWrite
  <2> QED BY <1>1, <1>2, <2>1, QuietEnd
<1>5. CASE ~Clashes(u, "chat", req[r].arg)
  <2>0. PICK next : next = [users[u] EXCEPT !["chat"] = req[r].arg]
    OBVIOUS
  <2>1. /\ users' = [users EXCEPT ![u] = next] /\ Changing(r, u)
        /\ req' = [req EXCEPT ![r].stage = "prefer", ![r].seen = next]
    BY <1>0, <1>5, <2>0 DEF ProfileWrite
  <2>2. /\ users' \in [Users -> LinkRows \cup {Absent}] /\ users'[u] # Absent /\ users'[u] = next
        /\ \A v \in Users \ {u} : users'[v] = users[v]
        /\ \A v \in Users \ {u} : users'[u] # Absent /\ users[v] # Absent =>
              \A k \in Channels : users'[u][k] = users[v][k] => users'[u][k] = Absent
    <3>1. "chat" \in Channels /\ req[r].arg \in Chats \cup {Discord, Absent}
      BY <1>3 DEF Channels
    <3> QED BY <1>3, <1>5, <2>0, <2>1, <3>1, LinkKeeps
  <2>3. next \in LinkRows
    BY <1>3, <2>2
  <2> DEFINE d == [req[r] EXCEPT !.stage = "prefer", !.seen = next]
  <2>4. d \in Asks
    BY <2>3, RequestKnown DEF Asks, AskStages
  <2>5. req' \in [Requests -> Asks] /\ (\A q \in Requests \ {r} : req'[q] = req[q]) /\ req'[r] = d
    BY <2>1, <2>4, RequestKnown DEF AccountTypeOK
  <2>6. /\ d.kind = "profile" /\ d.user = u /\ d.id = req[r].id /\ d.stage = "prefer" /\ d.seen = next
        /\ d.arg = req[r].arg /\ d.prefs = req[r].prefs /\ req[r].kind = "profile"
    BY <1>0, <1>1, RequestKnown DEF Asks, Doing
  <2> HIDE DEF d
  <2>7. AskerKnown(r)'
    BY <1>3, <2>2, <2>5, <2>6 DEF AskerKnown, There
  <2>8. StageKnown(r)'
    BY <2>3, <2>5, <2>6 DEF StageKnown
  <2>9. HeldIsTrue(r)'
    BY <2>2, <2>5, <2>6 DEF HeldIsTrue
  <2>10. Owes(r, "user")' /\ Owes(r, "view")'
    BY <2>5, <2>6 DEF Owes
  <2>11. /\ blurred \subseteq blurred' /\ blurred' \subseteq {"user", "view"} \X Users
         /\ <<"user", u>> \in blurred' \/ ~Holding(r, "user", u)
         /\ <<"view", u>> \in blurred' \/ ~Holding(r, "view", u)
    BY <1>3, <2>1, ChangingKeeps, RequestKnown
  <2>12. NothingIsLost' /\ owner' \in [Alerts -> Users \cup {Absent}]
    BY <1>2, <2>2, LossKeeps
  <2>13. prefs' \in [Users -> PrefRows] /\ (Full(u) => Full(u)')
    BY <1>2, RequestKnown DEF Full
  <2>14. req'[r].kind = req[r].kind /\ req'[r].user = u /\ req[r].user = u /\ req'[r].id = req[r].id
    BY <1>0, <2>5, <2>6
  <2> QED BY <1>1, <1>2, <1>3, <2>2, <2>5, <2>7, <2>8, <2>9, <2>10, <2>11, <2>12, <2>13, <2>14, ChangeKeeps
<1> QED BY <1>4, <1>5

\* The transaction of the Telegram bot commits; the cache of accounts is not told of it.
LEMMA TelegramCommitKeeps ==
  ASSUME AccountInv, NEW r \in Requests, TelegramCommit(r)
  PROVE  AccountInv'
<1>0. PICK u, chat : u = req[r].user /\ chat = req[r].arg.chat
  OBVIOUS
<1>1. /\ Doing(r, "telegram", "commit") /\ "unview" \in AskStages /\ ~Owes(r, "user") /\ ~Owes(r, "view")
  BY DEF TelegramCommit, Doing, Owes, AskStages
<1>2. UNCHANGED <<owner, nonces, cached, viewed, made, accepted>>
  BY DEF TelegramCommit, Caches, Past
<1>3. /\ There(u) /\ u \in Users /\ u \in Wallets /\ u # Placeholder /\ users[u] # Absent
      /\ req[r].arg \in Links /\ chat \in Chats
  BY <1>0, <1>1, RequestKnown, AbsentApart DEF AskerKnown, There, Doing, Links
<1>4. CASE Clashes(u, "chat", chat)
  <2>1. End(r) /\ UNCHANGED <<users, prefs, tokens, blurred>>
    BY <1>0, <1>4 DEF TelegramCommit
  <2> QED BY <1>1, <1>2, <2>1, QuietEnd
<1>5. CASE ~Clashes(u, "chat", chat)
  <2>1. /\ users' = [users EXCEPT ![u] = [users[u] EXCEPT !["chat"] = chat]]
        /\ prefs' = [prefs EXCEPT ![u] = [prefs[u] EXCEPT !["chat"] = TRUE]]
        /\ tokens' \subseteq tokens /\ Go(r, "unview")
        /\ blurred' = blurred \cup {<<"user", u>>} \cup (IF Holding(r, "view", u) THEN {<<"view", u>>} ELSE {})
    BY <1>0, <1>5 DEF TelegramCommit
  <2>2. /\ users' \in [Users -> LinkRows \cup {Absent}] /\ users'[u] # Absent
        /\ \A v \in Users \ {u} : users'[v] = users[v]
        /\ \A v \in Users \ {u} : users'[u] # Absent /\ users[v] # Absent =>
              \A k \in Channels : users'[u][k] = users[v][k] => users'[u][k] = Absent
    <3>1. "chat" \in Channels /\ chat \in Chats \cup {Discord, Absent}
      BY <1>3 DEF Channels
    <3> QED BY <1>3, <1>5, <2>1, <3>1, LinkKeeps
  <2>3. /\ prefs' \in [Users -> PrefRows] /\ (Full(u) => Full(u)')
        /\ \A v \in Users \ {u} : prefs'[v] = prefs[v]
    BY <1>3, <2>1, PreferKeeps DEF Channels
  <2>4. /\ req' \in [Requests -> Asks] /\ (\A q \in Requests \ {r} : req'[q] = req[q])
        /\ req'[r].kind = "telegram" /\ req'[r].user = u /\ req'[r].id = req[r].id /\ req'[r].stage = "unview"
        /\ req'[r].arg = req[r].arg /\ req[r].kind = "telegram" /\ req[r].user = u
    BY <1>0, <1>1, <2>1, GoKnown, RequestKnown DEF Doing
  <2>5. AskerKnown(r)' /\ StageKnown(r)' /\ HeldIsTrue(r)'
    BY <1>3, <2>2, <2>4 DEF AskerKnown, StageKnown, HeldIsTrue, There
  <2>6. Owes(r, "view")'
    BY <2>4 DEF Owes
  <2>7. /\ blurred \subseteq blurred' /\ blurred' \subseteq {"user", "view"} \X Users
        /\ <<"user", u>> \in blurred' /\ (<<"view", u>> \in blurred' \/ ~Holding(r, "view", u))
        /\ tokens' \subseteq tokens
    BY <1>3, <2>1, RequestKnown DEF AccountTypeOK
  <2>8. NothingIsLost' /\ owner' \in [Alerts -> Users \cup {Absent}]
    BY <1>2, <2>2, LossKeeps
  <2> QED BY <1>1, <1>2, <1>3, <2>2, <2>3, <2>4, <2>5, <2>6, <2>7, <2>8, ChangeKeeps
<1> QED BY <1>4, <1>5

\* Rows, caches and doubts stay: what is left is what r knows, and the numbers.
LEMMA StillStep ==
  ASSUME AccountInv, NEW r \in Requests,
         req' \in [Requests -> Asks], \A q \in Requests \ {r} : req'[q] = req[q],
         AccountTypeOK', NumbersAreFresh', TokensAreFor', \A i \in NonceRows : accepted'[i] <= 1,
         UNCHANGED <<users, prefs, owner, cached, viewed, blurred>>, ~Owes(r, "user"), ~Owes(r, "view"),
         AskerKnown(r)', StageKnown(r)', HeldIsTrue(r)'
  PROVE  AccountInv'
<1>1. \A u \in Users : cached'[u] \in {cached[u], Absent} /\ viewed'[u] \in {viewed[u], Absent}
  OBVIOUS
<1> QED BY <1>1, RowsStay

LEMMA TokenInsertKeeps ==
  ASSUME AccountInv, NEW r \in Requests, TokenInsert(r)
  PROVE  AccountInv'
<1> DEFINE t == [for |-> req[r].arg, id |-> req[r].id]
<1>1. Doing(r, "token", "insert") /\ End(r) /\ tokens' = tokens \cup {t} /\ ~Owes(r, "user") /\ ~Owes(r, "view")
  BY DEF TokenInsert, Doing, Owes
<1>2. UNCHANGED <<users, prefs, owner, nonces, cached, viewed, made, accepted, blurred>>
  BY DEF TokenInsert, Caches, Past
<1>3. t \in TokenRows /\ (t.for = Discord \/ There(t.for))
  BY <1>1, RequestKnown DEF AskerKnown, There, TokenRows, Asks, Doing
<1> HIDE DEF t
<1>4. req' \in [Requests -> Asks] /\ (\A q \in Requests \ {r} : req'[q] = req[q]) /\ req'[r] = Free
      /\ Free.kind = "none" /\ AskerKnown(r)' /\ StageKnown(r)' /\ HeldIsTrue(r)'
  BY <1>1, EndKnown, RequestKnown, AbsentApart
<1>5. AccountTypeOK'
  BY <1>1, <1>2, <1>3, <1>4 DEF AccountInv, AccountTypeOK
<1>6. NumbersAreFresh'
  BY <1>1, <1>2, <1>4, NumbersStay DEF AccountInv, End
<1>7. TokensAreFor'
  BY <1>1, <1>2, <1>3 DEF AccountInv, TokensAreFor, There
<1>8. \A i \in NonceRows : accepted'[i] <= 1
  BY <1>2 DEF AccountInv, AccountsAreTrue, OneOfEach, AccountTypeOK
<1> QED BY <1>1, <1>2, <1>4, <1>5, <1>6, <1>7, <1>8, StillStep

LEMMA NonceInsertKeeps ==
  ASSUME AccountInv, NEW r \in Requests, NonceInsert(r)
  PROVE  AccountInv'
<1> DEFINE n == [wallet |-> req[r].user, id |-> req[r].id]
<1>1. Doing(r, "nonce", "insert") /\ End(r) /\ nonces' = nonces \cup {n} /\ ~Owes(r, "user") /\ ~Owes(r, "view")
  BY DEF NonceInsert, Doing, Owes
<1>2. UNCHANGED <<users, prefs, owner, tokens, cached, viewed, made, accepted, blurred>>
  BY DEF NonceInsert, Caches, Past
<1>3. /\ NumbersAreFresh /\ made \in 0 .. MaxRequests /\ MaxRequests \in Nat
      /\ req[r].id \in 1 .. made /\ req[r].user \in Wallets /\ req[r].kind = "nonce"
  BY <1>1, RequestKnown, AccountAssumption DEF AccountInv, NumbersAreFresh, AskerKnown, Doing, AccountTypeOK
<1>4. n \in NonceRows /\ n.id <= made /\ accepted[n] = 0 /\ n.id = req[r].id
  BY <1>3 DEF NumbersAreFresh, NonceRows
<1>5. \A q \in Requests \ {r} : req[q].kind = "nonce" => [wallet |-> req[q].user, id |-> req[q].id] # n
  BY <1>3 DEF NumbersAreFresh
<1> HIDE DEF n
<1>6. req' \in [Requests -> Asks] /\ (\A q \in Requests \ {r} : req'[q] = req[q]) /\ req'[r].kind = "none"
      /\ AskerKnown(r)' /\ StageKnown(r)' /\ HeldIsTrue(r)'
  BY <1>1, EndKnown, RequestKnown
<1>7. AccountTypeOK'
  BY <1>1, <1>2, <1>4, <1>6 DEF AccountInv, AccountTypeOK
<1>8. NumbersAreFresh'
  <2>1. \A q \in Requests : req'[q].kind # "none" => q # r /\ req'[q] = req[q]
    BY <1>6
  <2>2. /\ \A q \in Requests : req'[q].kind # "none" => req'[q].id \in 1 .. made
        /\ \A q, s \in Requests :
             q # s /\ req'[q].kind # "none" /\ req'[s].kind # "none" => req'[q].id # req'[s].id
    BY <1>3, <2>1 DEF NumbersAreFresh
  <2>3. \A i \in nonces' : i.id <= made /\ accepted[i] = 0
    BY <1>1, <1>3, <1>4 DEF NumbersAreFresh
  <2>4. \A q \in Requests : req'[q].kind = "nonce" =>
          LET i == [wallet |-> req'[q].user, id |-> req'[q].id] IN i \notin nonces' /\ accepted[i] = 0
    BY <1>1, <1>3, <1>5, <2>1 DEF NumbersAreFresh
  <2> QED BY <1>2, <1>3, <2>2, <2>3, <2>4 DEF NumbersAreFresh
<1>9. TokensAreFor'
  BY <1>2 DEF AccountInv, TokensAreFor, There
<1>10. \A i \in NonceRows : accepted'[i] <= 1
  BY <1>2 DEF AccountInv, AccountsAreTrue, OneOfEach, AccountTypeOK
<1> QED BY <1>1, <1>2, <1>6, <1>7, <1>8, <1>9, <1>10, StillStep

\* A nonce is used up as it is accepted.
LEMMA ConsumeKeeps ==
  ASSUME AccountInv, NEW r \in Requests, Consume(r)
  PROVE  AccountInv'
<1>0. PICK n : n = [wallet |-> req[r].user, id |-> req[r].arg]
  OBVIOUS
<1>1. /\ Doing(r, "signin", "go") /\ "find" \in AskStages /\ ~Owes(r, "user") /\ ~Owes(r, "view")
  BY DEF Consume, Doing, Owes, AskStages
<1>2. UNCHANGED <<users, prefs, owner, tokens, cached, viewed, made, blurred>>
  BY DEF Consume, Caches
<1>3. CASE End(r) /\ UNCHANGED <<nonces, accepted>>
  BY <1>1, <1>2, <1>3, QuietEnd
<1>4. CASE /\ n \in nonces /\ nonces' = nonces \ {n} /\ accepted' = [accepted EXCEPT ![n] = @ + 1]
           /\ Go(r, "find")
  <2>1. /\ NumbersAreFresh /\ n \in NonceRows /\ n.id <= made /\ accepted[n] = 0
        /\ accepted \in [NonceRows -> Nat] /\ nonces \subseteq NonceRows
    BY <1>4 DEF AccountInv, NumbersAreFresh, AccountTypeOK
  <2>2. /\ accepted' \in [NonceRows -> Nat] /\ accepted'[n] = 1
        /\ \A i \in NonceRows \ {n} : accepted'[i] = accepted[i]
    BY <1>4, <2>1
  <2>3. /\ req' \in [Requests -> Asks] /\ (\A q \in Requests \ {r} : req'[q] = req[q])
        /\ req'[r].kind = "signin" /\ req[r].kind = "signin" /\ req'[r].user = req[r].user
        /\ req'[r].id = req[r].id /\ req'[r].stage = "find" /\ req'[r].seen = req[r].seen
    BY <1>1, <1>4, GoKnown, RequestKnown DEF Doing
  <2>4. AskerKnown(r)'
    BY <1>1, <2>3, RequestKnown DEF AskerKnown, Doing
  <2>5. StageKnown(r)' /\ HeldIsTrue(r)'
    BY <1>1, <2>3, RequestKnown DEF StageKnown, HeldIsTrue, Doing
  <2>6. AccountTypeOK'
    BY <1>2, <1>4, <2>2, <2>3 DEF AccountInv, AccountTypeOK
  <2>7. NumbersAreFresh'
    <3>1. \A q \in Requests : req'[q].kind = req[q].kind /\ req'[q].user = req[q].user /\ req'[q].id = req[q].id
      BY <2>3
    <3>2. /\ \A q \in Requests : req'[q].kind # "none" => req'[q].id \in 1 .. made
          /\ \A q, s \in Requests :
               q # s /\ req'[q].kind # "none" /\ req'[s].kind # "none" => req'[q].id # req'[s].id
      BY <2>1, <3>1 DEF NumbersAreFresh
    <3>3. \A i \in nonces' : i.id <= made /\ accepted'[i] = 0
      BY <1>4, <2>1, <2>2 DEF NumbersAreFresh
    <3>4. \A i \in NonceRows : i.id > made => accepted'[i] = 0
      <4>1. ~(n.id > made)
        BY <2>1 DEF NonceRows, AccountInv, AccountTypeOK
      <4> QED BY <2>1, <2>2, <4>1 DEF NumbersAreFresh
    <3>5. ASSUME NEW q \in Requests, req'[q].kind = "nonce"
          PROVE  LET i == [wallet |-> req'[q].user, id |-> req'[q].id] IN i \notin nonces' /\ accepted'[i] = 0
      <4> DEFINE i == [wallet |-> req[q].user, id |-> req[q].id]
      <4>1. i \notin nonces /\ accepted[i] = 0 /\ i # n
        BY <1>4, <2>1, <3>1, <3>5 DEF NumbersAreFresh
      <4>2. i \in NonceRows
        <5>1. req[q].user \in Wallets
          BY <3>1, <3>5, RequestKnown DEF AskerKnown
        <5>2. req[q].id \in 1 .. made /\ made \in 0 .. MaxRequests /\ MaxRequests \in Nat
          BY <2>1, <3>1, <3>5, AccountAssumption DEF NumbersAreFresh, AccountInv, AccountTypeOK
        <5> QED BY <5>1, <5>2 DEF NonceRows
      <4>3. i \notin nonces' /\ accepted'[i] = 0
        BY <1>4, <2>2, <4>1, <4>2
      <4> QED BY <3>1, <4>3
    <3> QED BY <1>2, <3>2, <3>3, <3>4, <3>5 DEF NumbersAreFresh
  <2>8. TokensAreFor'
    BY <1>2 DEF AccountInv, TokensAreFor, There
  <2>9. \A i \in NonceRows : accepted'[i] <= 1
    BY <2>1, <2>2 DEF AccountInv, AccountsAreTrue, OneOfEach
  <2> QED BY <1>1, <1>2, <2>3, <2>4, <2>5, <2>6, <2>7, <2>8, <2>9, StillStep
<1> QED BY <1>0, <1>3, <1>4 DEF Consume, Spend

\* A request begins: what it is made with.
LEMMA BeginKeeps ==
  ASSUME AccountInv, NEW r \in Requests, NEW kind \in AskKinds \ {"none"}, NEW u \in Wallets \cup {Absent},
         NEW arg \in {Absent, Discord} \cup Chats \cup Wallets \cup Int \cup Links, NEW stage \in {"auth", "go"},
         Begin(r, kind, u, arg, stage),
         kind \in {"nonce", "signin"} => u \in Wallets,
         kind \in {"telegram", "profile", "discord", "view"} => There(u),
         stage = "auth" => kind \in {"token", "profile", "discord", "view"} /\ There(u),
         kind = "token" => arg = Discord \/ There(arg), kind = "telegram" => arg \in Links,
         kind = "profile" => arg \in Chats \cup {Absent}
  PROVE  AccountInv'
<1> DEFINE d == [kind |-> kind, user |-> u, stage |-> stage, arg |-> arg,
                 seen |-> Absent, prefs |-> Absent, id |-> made + 1]
<1>1. made \in 0 .. MaxRequests /\ MaxRequests \in Nat /\ made < MaxRequests /\ made' = made + 1 /\ req[r] = Free
  BY AccountAssumption DEF Begin, AccountInv, AccountTypeOK
<1>2. UNCHANGED <<users, prefs, owner, nonces, tokens, cached, viewed, accepted, blurred>>
  BY DEF Begin, Tables, Caches
<1>3. d \in Asks
  BY <1>1 DEF Asks, AskStages
<1>4. req' \in [Requests -> Asks] /\ (\A q \in Requests \ {r} : req'[q] = req[q]) /\ req'[r] = d
  BY <1>3, RequestKnown DEF Begin, AccountTypeOK
<1>5. /\ d.kind = kind /\ d.user = u /\ d.stage = stage /\ d.arg = arg /\ d.seen = Absent
      /\ d.prefs = Absent /\ d.id = made + 1
  OBVIOUS
<1> HIDE DEF d
<1>6. AskerKnown(r)'
  BY <1>2, <1>4, <1>5 DEF AskerKnown, There
<1>7. StageKnown(r)' /\ HeldIsTrue(r)'
  BY <1>4, <1>5 DEF StageKnown, HeldIsTrue
<1>8. ~Owes(r, "user") /\ ~Owes(r, "view")
  BY <1>1, AbsentApart DEF Owes
<1>9. AccountTypeOK'
  BY <1>1, <1>2, <1>4 DEF AccountInv, AccountTypeOK
<1>10. NumbersAreFresh'
  <2>1. NumbersAreFresh /\ nonces \subseteq NonceRows /\ \A n \in NonceRows : n.id \in Int
    BY DEF AccountInv, AccountTypeOK, NonceRows
  <2>2. \A q \in Requests \ {r} : req'[q].kind # "none" => req'[q].id \in 1 .. made
    BY <1>4, <2>1 DEF NumbersAreFresh
  <2>3. \A q \in Requests : req'[q].kind # "none" => req'[q].id \in 1 .. made'
    BY <1>1, <1>4, <1>5, <2>2
  <2>4. \A q, s \in Requests :
          q # s /\ req'[q].kind # "none" /\ req'[s].kind # "none" => req'[q].id # req'[s].id
    <3>1. \A q, s \in Requests \ {r} :
            q # s /\ req'[q].kind # "none" /\ req'[s].kind # "none" => req'[q].id # req'[s].id
      BY <1>4, <2>1 DEF NumbersAreFresh
    <3>2. \A q \in Requests \ {r} : req'[q].kind # "none" => req'[q].id # req'[r].id
      BY <1>1, <1>4, <1>5, <2>2
    <3> QED BY <3>1, <3>2
  <2>5. /\ \A n \in nonces : n.id <= made' /\ accepted[n] = 0
        /\ \A n \in NonceRows : n.id > made' => accepted[n] = 0
    BY <1>1, <2>1 DEF NumbersAreFresh
  <2>6. ASSUME NEW q \in Requests, req'[q].kind = "nonce"
        PROVE  LET n == [wallet |-> req'[q].user, id |-> req'[q].id] IN n \notin nonces /\ accepted[n] = 0
    <3>1. CASE q # r
      BY <1>4, <2>1, <2>6, <3>1 DEF NumbersAreFresh
    <3>2. CASE q = r
      <4> DEFINE n == [wallet |-> u, id |-> made + 1]
      <4>1. n \in NonceRows /\ n.id = made + 1
        BY <1>1, <1>4, <1>5, <2>6, <3>2 DEF NonceRows
      <4>2. n \notin nonces /\ accepted[n] = 0
        BY <1>1, <2>1, <4>1 DEF NumbersAreFresh
      <4> QED BY <1>4, <1>5, <3>2, <4>2
    <3> QED BY <3>1, <3>2
  <2> QED BY <1>2, <2>3, <2>4, <2>5, <2>6 DEF NumbersAreFresh
<1>11. TokensAreFor'
  BY <1>2 DEF AccountInv, TokensAreFor, There
<1>12. \A i \in NonceRows : accepted'[i] <= 1
  BY <1>2 DEF AccountInv, AccountsAreTrue, OneOfEach, AccountTypeOK
<1> QED BY <1>2, <1>4, <1>6, <1>7, <1>8, <1>9, <1>10, <1>11, <1>12, StillStep

LEMMA AskedKeeps ==
  ASSUME AccountInv, NEW r \in Requests, Asked(r)
  PROVE  AccountInv'
<1>1. made \in Int
  BY DEF AccountInv, AccountTypeOK
<1>2. ASSUME NEW u \in Wallets, users[u] # Absent, NEW chat \in Chats \cup {Absent}, Begin(r, "profile", u, chat, "auth")
      PROVE  AccountInv'
  BY <1>2, BeginKeeps DEF AskKinds, There
<1>3. ASSUME NEW u \in Wallets, users[u] # Absent, NEW i \in 0 .. made, Begin(r, "discord", u, i, "auth")
      PROVE  AccountInv'
  BY <1>1, <1>3, BeginKeeps DEF AskKinds, There
<1>4. ASSUME NEW u \in Wallets, users[u] # Absent, Begin(r, "view", u, Absent, "auth")
      PROVE  AccountInv'
  BY <1>4, BeginKeeps DEF AskKinds, There
<1>5. ASSUME NEW u \in Wallets, users[u] # Absent, Begin(r, "token", u, u, "auth")
      PROVE  AccountInv'
  BY <1>5, BeginKeeps DEF AskKinds, There
<1>6. ASSUME NEW u \in Wallets, Begin(r, "nonce", u, Absent, "go")
      PROVE  AccountInv'
  BY <1>6, BeginKeeps DEF AskKinds
<1>7. ASSUME NEW u \in Wallets, NEW i \in -1 .. made, Begin(r, "signin", u, i, "go")
      PROVE  AccountInv'
  BY <1>1, <1>7, BeginKeeps DEF AskKinds
<1>8. CASE Begin(r, "token", Absent, Discord, "go")
  BY <1>8, BeginKeeps DEF AskKinds
<1>9. ASSUME NEW t \in tokens, NEW chat \in Chats, t.for \in Wallets,
             Begin(r, "telegram", t.for, [token |-> t, chat |-> chat], "go")
      PROVE  AccountInv'
  <2>1. t \in TokenRows /\ There(t.for)
    BY <1>9, AccountAssumption DEF AccountInv, AccountTypeOK, TokensAreFor
  <2>2. [token |-> t, chat |-> chat] \in Links
    BY <2>1 DEF Links
  <2> QED BY <1>9, <2>1, <2>2, BeginKeeps DEF AskKinds
<1> QED BY <1>2, <1>3, <1>4, <1>5, <1>6, <1>7, <1>8, <1>9 DEF Asked

\* An entry of a cache runs out.
LEMMA CacheExpiresKeeps ==
  ASSUME AccountInv, NEW u \in Users, CacheExpires(u)
  PROVE  AccountInv'
<1>1. UNCHANGED <<users, prefs, owner, nonces, tokens, req, made, accepted, blurred>>
  BY DEF CacheExpires, Tables, Past
<1>2. /\ cached' \in [Users -> LinkRows \cup {Absent}] /\ viewed' \in [Users -> ViewRows \cup {Absent}]
      /\ \A v \in Users : cached'[v] \in {cached[v], Absent} /\ viewed'[v] \in {viewed[v], Absent}
  BY DEF CacheExpires, AccountInv, AccountTypeOK
<1>3. AccountTypeOK' /\ NumbersAreFresh' /\ TokensAreFor'
  BY <1>1, <1>2 DEF AccountInv, AccountTypeOK, NumbersAreFresh, TokensAreFor, There
<1>4. AskersKnown'
  BY <1>1 DEF AccountInv, AskersKnown, AskerKnown, StageKnown, HeldIsTrue, There, Full
<1>5. CachedIsThere'
  BY <1>1, <1>2 DEF AccountInv, CachedIsThere, Full
<1>6. NothingIsLost' /\ OneOfEach'
  BY <1>1 DEF AccountInv, AccountsAreTrue, NothingIsLost, OneOfEach
<1>7. CachesAreTrue'
  BY <1>1, <1>2 DEF AccountInv, AccountsAreTrue, CachesAreTrue, Owes
<1> QED BY <1>3, <1>4, <1>5, <1>6, <1>7 DEF AccountInv, AccountsAreTrue

LEMMA AccountInvInit == AccountInit => AccountInv
<1> SUFFICES ASSUME AccountInit PROVE AccountInv
  OBVIOUS
<1>1. \A u \in Users : /\ users[u] = CASE u \in Registered -> NewRow
                                      [] u = Placeholder -> [NewRow EXCEPT !["discord"] = Discord]
                                      [] OTHER -> Absent
                       /\ prefs[u] = NoPrefs /\ cached[u] = Absent /\ viewed[u] = Absent
  BY DEF AccountInit
<1>2. /\ NewRow \in LinkRows /\ NoPrefs \in PrefRows /\ NewRow # Absent /\ Free \in Asks
      /\ Registered \subseteq Wallets /\ Placeholder \notin Wallets /\ Placeholder \in Users
      /\ [NewRow EXCEPT !["discord"] = Discord] \in LinkRows
      /\ [NewRow EXCEPT !["discord"] = Discord] # Absent /\ MaxRequests \in Nat
  BY AbsentApart, AccountAssumption DEF LinkRows, NewRow, Channels, Users
<1>3. \A u \in Users : /\ u \in Registered => users[u] = NewRow
                       /\ u = Placeholder => users[u] = [NewRow EXCEPT !["discord"] = Discord]
                       /\ u \notin Registered \cup {Placeholder} => users[u] = Absent
  BY <1>1, <1>2
<1>4. \A r \in Requests : req[r] = Free
  BY DEF AccountInit
<1>5. AccountTypeOK
  <2>1. users \in [Users -> LinkRows \cup {Absent}]
    <3>1. DOMAIN users = Users /\ users = [u \in Users |-> users[u]]
      BY DEF AccountInit
    <3>2. \A u \in Users : users[u] \in LinkRows \cup {Absent}
      BY <1>2, <1>3
    <3> QED BY <3>1, <3>2
  <2>2. nonces \subseteq NonceRows /\ tokens \subseteq TokenRows /\ accepted \in [NonceRows -> Nat]
    <3>1. {-1, 0} \subseteq -1 .. MaxRequests
      BY <1>2
    <3>2. Registered \cup {Discord} \subseteq Wallets \cup {Discord}
      BY <1>2
    <3> QED BY <3>1, <3>2 DEF AccountInit, NonceRows, TokenRows
  <2>3. prefs \in [Users -> PrefRows] /\ owner \in [Alerts -> Users \cup {Absent}]
    BY <1>2 DEF AccountInit
  <2>4. cached \in [Users -> LinkRows \cup {Absent}] /\ viewed \in [Users -> ViewRows \cup {Absent}]
    BY DEF AccountInit
  <2>5. req \in [Requests -> Asks] /\ made \in 0 .. MaxRequests /\ blurred \subseteq {"user", "view"} \X Users
    BY <1>2 DEF AccountInit
  <2> QED BY <2>1, <2>2, <2>3, <2>4, <2>5 DEF AccountTypeOK
<1>6. AskersKnown
  BY <1>4, AbsentApart DEF AskersKnown, AskerKnown, StageKnown, HeldIsTrue, Free
<1>7. NumbersAreFresh
  <2>1. \A r \in Requests : req[r].kind = "none"
    BY <1>4, AbsentApart
  <2>2. \A n \in nonces : n.id <= made /\ n \in NonceRows
    BY <1>5 DEF AccountInit, AccountTypeOK
  <2>3. \A n \in NonceRows : accepted[n] = 0
    BY DEF AccountInit, NonceRows
  <2> QED BY <2>1, <2>2, <2>3 DEF NumbersAreFresh
<1>8. TokensAreFor
  <2>1. \A t \in tokens : t.for \in Registered \cup {Discord}
    BY DEF AccountInit
  <2>2. \A u \in Registered : There(u)
    BY <1>2, <1>3 DEF There, Users
  <2> QED BY <2>1, <2>2 DEF TokensAreFor
<1>9. CachedIsThere /\ CachesAreTrue
  BY <1>1 DEF CachedIsThere, CachesAreTrue
<1>10. NothingIsLost
  BY <1>2, <1>3, AbsentApart DEF AccountInit, NothingIsLost, Users
<1>11. OneOfEach
  <2>1. \A n \in DOMAIN accepted : accepted[n] <= 1
    BY DEF AccountInit
  <2>2. \A u \in Users : users[u] # Absent /\ u # Placeholder => users[u] = NewRow
    BY <1>3
  <2>3. \A c \in Channels : NewRow[c] = Absent
    BY DEF NewRow
  <2> QED BY <2>1, <2>2, <2>3 DEF OneOfEach
<1> QED BY <1>5, <1>6, <1>7, <1>8, <1>9, <1>10, <1>11 DEF AccountInv, AccountsAreTrue

LEMMA AccountInvStep == AccountInv /\ [AccountNext]_AccountVars => AccountInv'
<1> SUFFICES ASSUME AccountInv, [AccountNext]_AccountVars PROVE AccountInv'
  OBVIOUS
<1>1. ASSUME NEW r \in Requests, Step(r) PROVE AccountInv'
  <2>1. CASE Asked(r) \/ AuthHit(r) \/ AuthLoad(r) \/ AuthStore(r) \/ Stop(r)
    BY <2>1, AskedKeeps, AuthKeeps, AuthStoreKeeps, StopKeeps
  <2>2. CASE NonceClear(r) \/ NonceInsert(r) \/ Consume(r) \/ Find(r) \/ InsertUser(r) \/ SignedIn(r)
    BY <2>2, NonceClearKeeps, NonceInsertKeeps, ConsumeKeeps, FindKeeps, InsertUserKeeps, PutKeeps
  <2>3. CASE TokenClear(r) \/ TokenInsert(r)
    BY <2>3, TokenClearKeeps, TokenInsertKeeps
  <2>4. CASE DiscordToken(r) \/ DiscordCheck(r) \/ DiscordMove(r) \/ DiscordDelete(r) \/ DiscordForget(r)
    BY <2>4, DiscordTokenKeeps, DiscordCheckKeeps, DiscordMoveKeeps, DiscordDeleteKeeps, DiscordForgetKeeps
  <2>5. CASE DiscordWrite(r) \/ DiscordPrefer(r) \/ DiscordUnview(r) \/ DiscordUncache(r) \/ DiscordMark(r)
    BY <2>5, DiscordWriteKeeps, ChannelSwitchKeeps, DiscordUnviewKeeps, DiscordUncacheKeeps, DiscordMarkKeeps
  <2>6. CASE TelegramRead(r) \/ TelegramCommit(r) \/ TelegramUnview(r)
    BY <2>6, TelegramReadKeeps, TelegramCommitKeeps, TelegramUnviewKeeps
  <2>7. CASE ProfileWrite(r) \/ ProfilePrefer(r) \/ ProfileUnview(r) \/ ProfilePut(r)
    BY <2>7, ProfileWriteKeeps, ChannelSwitchKeeps, ProfileUnviewKeeps, PutKeeps
  <2>8. CASE ViewDefaults(r) \/ ViewAsk(r) \/ ViewRead(r) \/ ViewStore(r)
    BY <2>8, ViewDefaultsKeeps, ViewAskKeeps, ViewReadKeeps, ViewStoreKeeps
  <2> QED BY <1>1, <2>1, <2>2, <2>3, <2>4, <2>5, <2>6, <2>7, <2>8 DEF Step
<1>2. ASSUME NEW u \in Users, CacheExpires(u) PROVE AccountInv'
  BY <1>2, CacheExpiresKeeps
<1>3. CASE UNCHANGED AccountVars
  <2>1. UNCHANGED <<users, prefs, owner, nonces, tokens, cached, viewed, req, made, accepted, blurred>>
    BY <1>3 DEF AccountVars
  <2>2. AccountTypeOK' /\ NumbersAreFresh' /\ TokensAreFor'
    BY <2>1 DEF AccountInv, AccountTypeOK, NumbersAreFresh, TokensAreFor, There
  <2>3. AskersKnown'
    BY <2>1 DEF AccountInv, AskersKnown, AskerKnown, StageKnown, HeldIsTrue, There, Full
  <2>4. CachedIsThere' /\ CachesAreTrue'
    BY <2>1 DEF AccountInv, AccountsAreTrue, CachedIsThere, CachesAreTrue, Owes, Full
  <2>5. NothingIsLost' /\ OneOfEach'
    BY <2>1 DEF AccountInv, AccountsAreTrue, NothingIsLost, OneOfEach
  <2> QED BY <2>2, <2>3, <2>4, <2>5 DEF AccountInv, AccountsAreTrue
<1> QED BY <1>1, <1>2, <1>3 DEF AccountNext

\* No alert of a merged Discord account is lost, a chat or a Discord account is on one row,
\* a nonce signs in once, and a cache no request overlapped says what the rows say, however
\* many requests overlap and wherever they stop.
THEOREM TrueAccounts == AccountSpec => []AccountsAreTrue
<1>1. AccountInv => AccountsAreTrue
  BY DEF AccountInv
<1> QED BY <1>1, AccountInvInit, AccountInvStep, PTL DEF AccountSpec
=============================================================================

----------------------------- MODULE MCFrontDesk -----------------------------
(***************************************************************************)
(* Instances for TLC of what the user does: accounts, the trade ticket,    *)
(* and an order kept by the provider.  They share no state: each behaviour *)
(* is about one part, and the others rest.                                 *)
(*                                                                         *)
(*   accounts  three wallets, one chat, one Discord account, two requests  *)
(*   ticket    two forms, two wallets, three clicks and one change         *)
(*   orders    two requests of an owner at a time, one sync, three leases, *)
(*             two changes the venue makes by itself                       *)
(*   fills     one request at a time, two syncs, one lease, four changes   *)
(*             at the venue                                                *)
(***************************************************************************)
EXTENDS ProviderOrders, TradeTicket, Accounts, TLC

CONSTANTS x1, x2, y1, y2

VARIABLE part

-----------------------------------------------------------------------------
DeskVars == <<part, vars, TicketVars, AccountVars>>

\* A ticket nobody works with.
TicketRests ==
  /\ form = Blank /\ account = None /\ token = None /\ ticket = NoTicket /\ busy = None
  /\ orders = {} /\ shown = {} /\ mount = [stage |-> "done", list |-> {}, overtaken |-> FALSE]
  /\ sent = {} /\ told = {} /\ unlisted = FALSE
  /\ clicks = 0 /\ changes = 0

\* Accounts nobody uses.
AccountsRest ==
  /\ users = [u \in Users |-> IF u \in Registered \union {Placeholder} THEN NewRow ELSE Absent]
  /\ prefs = <<>> /\ owner = [a \in Alerts |-> Placeholder]
  /\ nonces = {} /\ tokens = {} /\ cached = [u \in Users |-> Absent] /\ viewed = cached
  /\ req = <<>> /\ made = 0 /\ accepted = <<>> /\ blurred = {}

DeskInit ==
  /\ part \in {"accounts", "ticket", "orders", "fills"}
  /\ Init /\ (part \notin {"orders", "fills"} => row = NoOrder)
  /\ IF part = "ticket" THEN TicketInit ELSE TicketRests
  /\ IF part = "accounts" THEN AccountInit ELSE AccountsRest

\* The venue changes the order, and not because it was asked to.
VenueActs == venue' # venue /\ call' = call /\ late' = late

\* The owner is busy: one sync at a time, and the venue acts twice.
OwnerNext ==
  /\ Next
  /\ VenueActs => venue.at < 2
  /\ ~ \A s \in Syncs : sync'[s] # Asleep

\* The venue is busy: one request at a time and one lease.
VenueNext ==
  /\ Next
  /\ row'.fact.op = "reserved" => row'.ver = 1
  /\ ~ \A u \in Procs : call'[u] # Idle

DeskNext ==
  /\ UNCHANGED part
  /\ \/ /\ \/ part = "orders" /\ OwnerNext
           \/ part = "fills" /\ VenueNext
        /\ UNCHANGED <<TicketVars, AccountVars>>
     \/ part = "ticket" /\ TicketNext /\ UNCHANGED <<vars, AccountVars>>
     \/ part = "accounts" /\ AccountNext /\ UNCHANGED <<vars, TicketVars>>

DeskSpec == DeskInit /\ [][DeskNext]_DeskVars

DeskSymmetry == Permutations(Procs) \cup Permutations(Syncs)
=============================================================================

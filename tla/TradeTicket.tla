------------------------------ MODULE TradeTicket ------------------------------
(* The trading ticket of the terminal (TradeTicket.tsx) and the wallet it      *)
(* works with (WalletContext.tsx).  A click starts a handler that runs over    *)
(* several awaits: the wallet, the provider's challenge, the server, the       *)
(* signature.  It works with the values its closure captured at the click      *)
(* while the inputs and the wallet stay live.  Only the buttons are disabled   *)
(* while a handler is busy, so there is at most one handler.                   *)
(*   The server and the venue are external: they answer, refuse, or do what    *)
(* was asked while the answer is lost.                                         *)
EXTENDS Naturals, FiniteSets

CONSTANTS
    Forms,       \* what can be asked: side, mint, amount, slippage and fees
    Blank,       \* the form whose amount is empty
    Accounts,    \* accounts the user's wallet can show
    MaxClicks,   \* bound: clicks on buttons that start a handler
    MaxChanges,  \* bound: edits of the form and switches of the wallet
    None         \* no value

VARIABLES
    form,        \* amount, side, slippage, landing mode and fees on screen
    account,     \* wallet.publicKey, or None
    token,       \* providerToken: whose it is and the click that got it
    ticket,      \* quote, submitKey, signedSwap
    busy,        \* the busy handler with what its closure captured, or None
    orders,      \* the user's orders on the server
    shown,       \* the list of orders on screen
    mount,       \* the list asked for when the page was mounted
    sent,        \* the submissions that left the page
    told,        \* orders the user was told are active
    unlisted,    \* the list asked for after the last success was not answered
    clicks, changes

TicketVars == <<form, account, token, ticket, busy, orders, shown, mount, sent, told,
          unlisted, clicks, changes>>

NoTicket == [quote |-> None, key |-> None, signed |-> None]

OpenStates == {"prepared", "open"}

\* What the ticket, the wallet and the busy handler hold.
Quotes == [id : Nat, form : Forms \cup {Blank}, taker : Accounts, late : BOOLEAN]
Signatures == [of : Nat, by : Accounts, bytes : Nat]
Tickets == [quote : Quotes \cup {None}, key : Nat \cup {None}, signed : Signatures \cup {None}]
Tokens == [of : Accounts, crossed : BOOLEAN]
Handlers ==
    [op : {"preview", "submit", "create", "cancel", "update", "sync"},
     stage : {"wallet", "ask", "auth", "verify", "prepare", "sign", "confirm", "list", "send", "answer"},
     id : Nat, form : Forms \cup {Blank}, by : Accounts \cup {None}, who : Accounts \cup {None},
     token : Tokens \cup {None}, ticket : Tickets, order : Nat \cup {None},
     sig : Accounts \cup Signatures \cup {None}, edited : BOOLEAN, switched : BOOLEAN]

\* None is a value of its own.
ASSUME TicketAssumption ==
    /\ MaxClicks \in Nat /\ MaxChanges \in Nat
    /\ None \notin Accounts \cup Nat \cup Quotes \cup Signatures \cup Tokens \cup Handlers

Order(id, owner, state) == [id |-> id, owner |-> owner, by |-> owner, state |-> state]

TicketInit ==
    /\ form \in Forms /\ account \in Accounts \cup {None}
    /\ token = None /\ ticket = NoTicket /\ busy = None
    /\ orders \in {{}} \cup {{Order(0, a, "open")} : a \in Accounts}
    /\ shown = {} /\ mount = [stage |-> "asked", list |-> {}, overtaken |-> FALSE]
    /\ sent = {} /\ told = {} /\ unlisted = FALSE /\ clicks = 0 /\ changes = 0

-------------------------------------------------------------------------------
(* What the user and the wallet do at any time, a handler busy or not.         *)

\* Dropping the effect that watches the form.
Cleared_Never == ticket
\* The quote, its key and its signature belong to one form.
Cleared == NoTicket

Edit(f) ==
    /\ changes < MaxChanges /\ f # form
    /\ form' = f /\ ticket' = Cleared /\ changes' = changes + 1
    /\ busy' = IF busy = None THEN None ELSE [busy EXCEPT !.edited = TRUE]
    /\ UNCHANGED <<account, token, orders, shown, mount, sent, told, unlisted, clicks>>

\* Keeping the provider's token when the wallet changes.
TokenFor_Kept(a) == token
\* The provider's token is dropped whenever the public key changes.
TokenFor(a) == IF a = account THEN token ELSE None

SwitchWallet(a) ==
    /\ changes < MaxChanges /\ a # account
    /\ account' = a /\ token' = TokenFor(a) /\ changes' = changes + 1
    /\ busy' = IF busy = None THEN None ELSE [busy EXCEPT !.switched = TRUE]
    /\ UNCHANGED <<form, ticket, orders, shown, mount, sent, told, unlisted, clicks>>

\* The list asked for at the mount is made by the server, and arrives later.
MountServed ==
    /\ mount.stage = "asked"
    /\ mount' = [mount EXCEPT !.stage = "served", !.list = orders]
    /\ UNCHANGED <<form, account, token, ticket, busy, orders, shown, sent, told, unlisted,
                   clicks, changes>>

MountArrives ==
    /\ mount.stage = "served"
    /\ mount' = [mount EXCEPT !.stage = "done"]
    /\ shown' = mount.list
    /\ UNCHANGED <<form, account, token, ticket, busy, orders, sent, told, unlisted, clicks, changes>>

-------------------------------------------------------------------------------
(* The clicks.                                                                 *)

Click(op, stage, order) ==
    /\ busy = None /\ clicks < MaxClicks
    /\ clicks' = clicks + 1
    /\ busy' = [op |-> op, stage |-> stage, id |-> clicks + 1, form |-> form, by |-> account,
                who |-> None, token |-> token, ticket |-> ticket, order |-> order, sig |-> None,
                edited |-> FALSE, switched |-> FALSE]
    /\ UNCHANGED <<form, account, token, ticket, orders, shown, mount, sent, told, unlisted, changes>>

\* One button: it previews, and once there is a quote it signs and submits.
PreviewSwap == ticket.quote = None /\ Click("preview", "wallet", None)
SubmitSwap == ticket.quote # None /\ ticket.key # None /\ Click("submit", "sign", None)
CreateOrder == Click("create", "wallet", None)
CancelOrder(o) == o.state = "open" /\ Click("cancel", "wallet", o.id)
UpdateOrder(o) == o.state = "open" /\ Click("update", "auth", o.id)
SyncOrders == (\E o \in shown : o.state \in OpenStates) /\ Click("sync", "auth", None)

-------------------------------------------------------------------------------
(* The steps of the busy handler.                                              *)

\* ensureWallet: the account captured at the click, or else the one the wallet
\* shows when it is connected now.
Ensured(a) ==
    IF busy.by # None
    THEN a = busy.by /\ UNCHANGED <<account, token>>
    ELSE account' = a /\ token' = TokenFor(a)

At(op, stage) == busy # None /\ busy.op \in op /\ busy.stage = stage

Goes(stage) == busy' = [busy EXCEPT !.stage = stage]

Ends == busy' = None

GetWallet(a) ==
    /\ At({"preview", "create", "cancel"}, "wallet")
    /\ Ensured(a)
    /\ busy' = [busy EXCEPT !.who = a, !.stage = IF busy.op = "preview" THEN "ask" ELSE "auth"]
    /\ UNCHANGED <<form, ticket, orders, shown, mount, sent, told, unlisted, clicks, changes>>

\* Dropping the reset of the signature when a new quote comes.
QuoteTicket_Signed == [quote |-> [id |-> busy.id, form |-> busy.form, taker |-> busy.who,
                                  late |-> busy.edited],
                       key |-> busy.id, signed |-> ticket.signed]
\* The quote that answers the request as it was captured, with a fresh key.
QuoteTicket == [quote |-> [id |-> busy.id, form |-> busy.form, taker |-> busy.who,
                           late |-> busy.edited],
                key |-> busy.id, signed |-> None]

Quoted ==
    /\ At({"preview"}, "ask") /\ busy.form # Blank
    /\ ticket' = QuoteTicket /\ Ends
    /\ UNCHANGED <<form, account, token, orders, shown, mount, sent, told, unlisted, clicks, changes>>

WorkStage == [create |-> "prepare", cancel |-> "prepare", sync |-> "ask", update |-> "ask"]

\* A token captured at the click is used as it is.
HasToken ==
    /\ At({"create", "cancel", "sync", "update"}, "auth") /\ busy.token # None
    /\ Goes(WorkStage[busy.op])
    /\ UNCHANGED <<form, account, token, ticket, orders, shown, mount, sent, told, unlisted,
                   clicks, changes>>

\* Without one the wallet signs a challenge,
Challenged(a) ==
    /\ At({"create", "cancel", "sync", "update"}, "auth") /\ busy.token = None
    /\ Ensured(a)
    /\ busy' = [busy EXCEPT !.token = [of |-> a, crossed |-> FALSE], !.stage = "verify",
                            !.switched = busy.by # None /\ busy.switched]
    /\ UNCHANGED <<form, ticket, orders, shown, mount, sent, told, unlisted, clicks, changes>>

\* and the token that answers it is kept, whatever the wallet is by now.
Verified ==
    /\ At({"create", "cancel", "sync", "update"}, "verify")
    /\ LET t == [busy.token EXCEPT !.crossed = busy.switched]
       IN token' = t /\ busy' = [busy EXCEPT !.token = t, !.stage = WorkStage[busy.op]]
    /\ UNCHANGED <<form, account, ticket, orders, shown, mount, sent, told, unlisted, clicks, changes>>

\* What a request does on the server.  The venue refuses a token of another
\* account, and a signature that is not the owner's.
Served ==
    CASE busy.op = "create" /\ busy.stage = "prepare" ->
            orders \cup {[Order(busy.id, busy.who, "prepared") EXCEPT !.by = None]}
      [] busy.op = "create" /\ busy.stage = "confirm" ->
            {IF o.id = busy.id THEN [o EXCEPT !.state = "open", !.by = busy.sig] ELSE o : o \in orders}
      [] busy.op = "cancel" /\ busy.stage = "confirm" ->
            {IF o.id = busy.order THEN [o EXCEPT !.state = "cancelled"] ELSE o : o \in orders}
      [] OTHER -> orders

Accepted ==
    /\ \A o \in orders : o.id \in {busy.id, busy.order} =>
          o.owner = busy.token.of /\ (busy.sig # None => busy.sig = o.owner)
    /\ busy.op = "create" => busy.who = busy.token.of

\* createOrder with the success told before the activation is asked for.
AfterPrepare_Told == told \cup (IF busy.op = "create" THEN {busy.id} ELSE {})
AfterPrepare == told

Prepared ==
    /\ At({"create", "cancel"}, "prepare") /\ Accepted
    /\ orders' = Served /\ Goes("sign") /\ told' = AfterPrepare
    /\ UNCHANGED <<form, account, token, ticket, shown, mount, sent, unlisted, clicks, changes>>

SignOrder(a) ==
    /\ At({"create", "cancel"}, "sign")
    /\ Ensured(a)
    /\ busy' = [busy EXCEPT !.sig = a, !.stage = "confirm"]
    /\ UNCHANGED <<form, ticket, orders, shown, mount, sent, told, unlisted, clicks, changes>>

\* Activating or cancelling without asking for the list again.
AfterConfirm_End == Ends
AfterConfirm == Goes("list")

Confirmed ==
    /\ At({"create", "cancel"}, "confirm") /\ Accepted
    /\ orders' = Served /\ AfterConfirm
    /\ told' = IF busy.op = "create" THEN told \cup {busy.id} ELSE told
    /\ UNCHANGED <<form, account, token, ticket, shown, mount, sent, unlisted, clicks, changes>>

Updated ==
    /\ At({"update"}, "ask") /\ Accepted
    /\ Goes("list")
    /\ UNCHANGED <<form, account, token, ticket, orders, shown, mount, sent, told, unlisted,
                   clicks, changes>>

\* The list as the server has it replaces the one on screen.  refreshOrders
\* swallows a failure.
Listed ==
    /\ \/ At({"create", "cancel", "update"}, "list")
       \/ At({"sync"}, "ask")
    /\ shown' = orders /\ unlisted' = FALSE /\ Ends
    /\ mount' = [mount EXCEPT !.overtaken = mount.stage = "served"]
    /\ UNCHANGED <<form, account, token, ticket, orders, sent, told, clicks, changes>>

NotListed ==
    /\ At({"create", "cancel", "update"}, "list")
    /\ unlisted' = TRUE /\ Ends
    /\ UNCHANGED <<form, account, token, ticket, orders, shown, mount, sent, told, clicks, changes>>

\* Signing again for every attempt.
NeedsSignature_Always == TRUE
\* A signature that is kept is sent again as it is.
NeedsSignature == busy.ticket.signed = None

SignSwap(a) ==
    /\ At({"submit"}, "sign") /\ NeedsSignature
    /\ Ensured(a)
    /\ LET s == [of |-> busy.ticket.quote.id, by |-> a, bytes |-> busy.id]
       IN /\ busy' = [busy EXCEPT !.sig = s, !.stage = "send"]
          /\ ticket' = [ticket EXCEPT !.signed = s]
    /\ UNCHANGED <<form, orders, shown, mount, sent, told, unlisted, clicks, changes>>

KeepSignature ==
    /\ At({"submit"}, "sign") /\ ~NeedsSignature
    /\ busy' = [busy EXCEPT !.sig = busy.ticket.signed, !.stage = "send"]
    /\ ticket' = [ticket EXCEPT !.signed = busy.ticket.signed]
    /\ UNCHANGED <<form, account, token, orders, shown, mount, sent, told, unlisted, clicks, changes>>

SendSwap ==
    /\ At({"submit"}, "send")
    /\ sent' = sent \cup {[quote |-> busy.ticket.quote.id, key |-> busy.ticket.key, sig |-> busy.sig]}
    /\ Goes("answer")
    /\ UNCHANGED <<form, account, token, ticket, orders, shown, mount, told, unlisted, clicks, changes>>

\* A confirmed swap also empties the amount, and so the form is another one.
SwapAnswered(confirmed) ==
    /\ At({"submit"}, "answer")
    /\ form' = IF confirmed THEN Blank ELSE form
    /\ ticket' = NoTicket /\ Ends
    /\ UNCHANGED <<account, token, orders, shown, mount, sent, told, unlisted, clicks, changes>>

\* A request, a wallet or a check fails and the handler ends: before the quote
\* is signed also because it expired.  An expired token is dropped, except by
\* cancelOrder.
Fails(expired) ==
    /\ busy # None /\ busy.stage # "list"
    /\ expired => busy.stage \in {"prepare", "ask", "confirm"} /\ busy.op # "preview"
    /\ Ends
    /\ token' = IF expired /\ busy.op # "cancel" THEN None ELSE token
    /\ UNCHANGED <<form, account, ticket, orders, shown, mount, sent, told, unlisted, clicks, changes>>

\* The server did what was asked; the page never hears it.
Lost ==
    /\ At({"create", "cancel"}, "prepare") \/ At({"create", "cancel"}, "confirm")
    /\ Accepted
    /\ orders' = Served /\ Ends
    /\ UNCHANGED <<form, account, token, ticket, shown, mount, sent, told, unlisted, clicks, changes>>

TicketNext ==
    \/ \E f \in Forms : Edit(f)
    \/ \E a \in Accounts \cup {None} : SwitchWallet(a)
    \/ MountServed \/ MountArrives
    \/ PreviewSwap \/ SubmitSwap \/ CreateOrder \/ SyncOrders
    \/ \E o \in shown : CancelOrder(o) \/ UpdateOrder(o)
    \/ \E a \in Accounts : GetWallet(a) \/ Challenged(a) \/ SignOrder(a) \/ SignSwap(a)
    \/ Quoted \/ HasToken \/ Verified \/ Prepared \/ Confirmed \/ Updated \/ Listed \/ NotListed
    \/ KeepSignature \/ SendSwap
    \/ \E b \in BOOLEAN : SwapAnswered(b) \/ Fails(b)
    \/ Lost

TicketSpec == TicketInit /\ [][TicketNext]_TicketVars

-------------------------------------------------------------------------------
(* Properties.                                                                 *)

\* Whatever fails and is tried again, a quote leaves the page under one key and
\* as one set of signed bytes, and those bytes are the quote's own
\* (submitSwap, TradeTicket.tsx:463-490: the key and the signature are kept).
OneSubmission ==
    \A s, t \in sent : /\ s.sig.of = s.quote
                       /\ s.quote = t.quote => s = t

\* What the ticket keeps is about the quote on screen, and the quote is about
\* the form on screen unless the form was edited while the quote was fetched.
TicketIsOne ==
    ticket.quote # None =>
        /\ ticket.key = ticket.quote.id
        /\ ticket.signed # None => ticket.signed.of = ticket.quote.id
        /\ ~ticket.quote.late => ticket.quote.form = form

\* The token kept for the provider is the connected account's, unless the wallet
\* was switched while the token was fetched (TradeTicket.tsx:304, 415).
TokenIsOwners == (token # None /\ ~token.crossed) => token.of = account

\* With no handler busy the orders the user was told are active exist, and are
\* on screen unless the list could not be fetched or an older one, asked for
\* at the mount, arrived after it.
ToldIsShown ==
    /\ told \subseteq {o.id : o \in {p \in orders : p.state # "prepared"}}
    /\ (busy = None /\ ~unlisted /\ ~mount.overtaken) => told \subseteq {o.id : o \in shown}

TicketIsTrue == OneSubmission /\ TicketIsOne /\ TokenIsOwners /\ ToldIsShown
===============================================================================

------------------------------- MODULE WebSession ------------------------------
(* Who is signed in, in the web client: the state of each page                 *)
(* (AuthContext.tsx), the token its requests carry and the interceptor that    *)
(* ends a session the server refuses (api.ts), what is kept in localStorage,   *)
(* which all tabs share, and the page that links Discord                       *)
(* (link-discord/page.tsx).  Requests are not aborted: an answer is applied to *)
(* the page as it is when it arrives.                                          *)
(*   The nonce and the signature of a sign-in are one request with it here     *)
(* (Accounts has the server's side).                                           *)
EXTENDS Naturals, FiniteSets

CONSTANTS
    Tabs, Users,
    MaxRequests, \* bound: requests ever made
    MaxReloads,  \* bound: pages reloaded by hand
    None

VARIABLES
    page,     \* of a tab: stage, token, user, api (apiService's token)
    stored,   \* auth_token, auth_user, has_signed_out
    reqs,     \* requests in flight
    made,     \* requests ever made
    rev,      \* of a user, the revision of the profile on the server
    expired,  \* tokens the server refuses
    reloads,
    crossed,  \* of a tab and of the store: an answer of another session was applied
    behind,   \* of a tab: an answer that was overtaken, or a refresh that was lost
    told,     \* of a tab: revision the page was told it has linked
    resting   \* tabs loaded after a sign-out, with no sign-in since

vars == <<page, stored, reqs, made, rev, expired, reloads, crossed, behind, told, resting>>

Profile(u) == [name |-> u, rev |-> rev[u]]
NoPage == [stage |-> "loading", token |-> None, user |-> None, api |-> None]
NoStore == [token |-> None, user |-> None, out |-> FALSE]

Init ==
    /\ page = [t \in Tabs |-> NoPage] /\ stored = NoStore
    /\ reqs = {} /\ made = 0 /\ rev = [u \in Users |-> 0] /\ expired = {} /\ reloads = 0
    /\ crossed = [t \in Tabs \cup {"store"} |-> FALSE]
    /\ behind = [t \in Tabs |-> FALSE] /\ told = [t \in Tabs |-> 0] /\ resting = {}

SignedIn(t) == page[t].user # None /\ page[t].token # None

Asked(t, kind, token, u) ==
    [id |-> made + 1, tab |-> t, kind |-> kind, token |-> token, user |-> u, stage |-> "asked",
     answer |-> None]

-------------------------------------------------------------------------------
(* Pages.                                                                      *)

\* A page resumes the stored session unless the user has signed out.
Resumes == ~stored.out /\ stored.token # None /\ stored.user # None

\* A page that resumes asks for the profile again.
Load(t) ==
    /\ page[t].stage = "loading"
    /\ Resumes => made < MaxRequests
    /\ page' = [page EXCEPT ![t] =
          IF Resumes THEN [stage |-> "here", token |-> stored.token, user |-> stored.user,
                           api |-> stored.token]
          ELSE [NoPage EXCEPT !.stage = "here"]]
    /\ reqs' = IF Resumes THEN reqs \cup {Asked(t, "me", stored.token, None)} ELSE reqs
    /\ made' = IF Resumes THEN made + 1 ELSE made
    /\ crossed' = [crossed EXCEPT ![t] = crossed["store"]]
    /\ behind' = [behind EXCEPT ![t] = FALSE] /\ told' = [told EXCEPT ![t] = 0]
    /\ resting' = IF stored.out THEN resting \cup {t} ELSE resting \ {t}
    /\ UNCHANGED <<stored, rev, expired, reloads>>

\* By the user, or by the interceptor's redirect; requests die with the page.
Unload(t) ==
    /\ \/ page[t].stage = "leaving" /\ UNCHANGED reloads
       \/ page[t].stage = "here" /\ reloads < MaxReloads /\ reloads' = reloads + 1
    /\ page' = [page EXCEPT ![t] = NoPage]
    /\ reqs' = {r \in reqs : r.tab # t}
    /\ resting' = resting \ {t}
    /\ UNCHANGED <<stored, made, rev, expired, crossed, behind, told>>

\* Signing out without forgetting the session in the store.
StoredOut_Kept == [stored EXCEPT !.user = None]
StoredOut == [token |-> None, user |-> None, out |-> TRUE]

SignOut(t) ==
    /\ page[t].stage = "here" /\ SignedIn(t)
    /\ page' = [page EXCEPT ![t].token = None, ![t].user = None, ![t].api = None]
    /\ stored' = StoredOut
    /\ crossed' = [crossed EXCEPT !["store"] = FALSE]
    /\ UNCHANGED <<reqs, made, rev, expired, reloads, behind, told, resting>>

-------------------------------------------------------------------------------
(* Requests.                                                                   *)

Request(t, kind, u) ==
    /\ page[t].stage = "here" /\ made < MaxRequests
    /\ made' = made + 1
    /\ reqs' = reqs \cup {Asked(t, kind, page[t].api, u)}
    /\ UNCHANGED <<page, stored, rev, expired, reloads, crossed, behind, told, resting>>

\* The buttons that sign in are there while the page is signed out.
SignIn(t, u) ==
    /\ ~SignedIn(t) /\ ~ \E r \in reqs : r.tab = t /\ r.kind = "signin"
    /\ Request(t, "signin", u)

Link(t) ==
    /\ SignedIn(t) /\ ~ \E r \in reqs : r.tab = t /\ r.kind = "link"
    /\ Request(t, "link", None)

Other(t) == SignedIn(t) /\ Request(t, "other", None)

Expire(k) ==
    /\ expired' = expired \cup {k}
    /\ UNCHANGED <<page, stored, reqs, made, rev, reloads, crossed, behind, told, resting>>

\* The server answers: a new session, the profile, or that it refuses.
Served(r) ==
    LET u == IF r.kind = "signin" THEN r.user ELSE r.token.user
        linked == [rev EXCEPT ![u] = @ + 1]
    IN IF r.kind # "signin" /\ (r.token = None \/ r.token \in expired)
       THEN [answer |-> [ok |-> FALSE, token |-> None, user |-> None], rev |-> rev]
       ELSE IF r.kind = "link"
       THEN [answer |-> [ok |-> TRUE, token |-> None, user |-> [name |-> u, rev |-> linked[u]]],
             rev |-> linked]
       ELSE [answer |-> [ok |-> TRUE, token |-> IF r.kind = "signin" THEN [id |-> r.id, user |-> u] ELSE None,
                         user |-> Profile(u)],
             rev |-> rev]

Serve(r) ==
    /\ r.stage = "asked"
    /\ reqs' = (reqs \ {r}) \cup {[r EXCEPT !.stage = "served", !.answer = Served(r).answer]}
    /\ rev' = Served(r).rev
    /\ UNCHANGED <<page, stored, made, expired, reloads, crossed, behind, told, resting>>

\* Timed out or unreachable: the page keeps what it has.
Lost(r) ==
    /\ reqs' = reqs \ {r}
    /\ behind' = IF r.kind = "me" THEN [behind EXCEPT ![r.tab] = TRUE] ELSE behind
    /\ UNCHANGED <<page, stored, made, rev, expired, reloads, crossed, told, resting>>

Arrives(r) == r.stage = "served" /\ page[r.tab].stage # "loading"

\* Any request the server refuses ends the session, whose ever it was.
Refused(r) ==
    /\ Arrives(r) /\ ~r.answer.ok
    /\ reqs' = reqs \ {r}
    /\ page' = [page EXCEPT ![r.tab].api = None, ![r.tab].stage = "leaving"]
    /\ stored' = [stored EXCEPT !.token = None, !.user = None]
    /\ crossed' = [crossed EXCEPT !["store"] = FALSE]
    /\ UNCHANGED <<made, rev, expired, reloads, behind, told, resting>>

\* signIn that leaves the token of the requests as it was.
PageIn_OldToken(t, a) == [page[t] EXCEPT !.token = a.token, !.user = a.user]
PageIn(t, a) == [page[t] EXCEPT !.token = a.token, !.user = a.user, !.api = a.token]

SignedInNow(r) ==
    /\ Arrives(r) /\ r.kind = "signin"
    /\ reqs' = reqs \ {r}
    /\ page' = [page EXCEPT ![r.tab] = PageIn(r.tab, r.answer)]
    /\ stored' = [token |-> r.answer.token, user |-> r.answer.user, out |-> FALSE]
    /\ crossed' = [crossed EXCEPT ![r.tab] = FALSE, !["store"] = FALSE]
    /\ behind' = [behind EXCEPT ![r.tab] = \E q \in reqs : q.tab = r.tab /\ q.kind = "me"]
    /\ told' = [told EXCEPT ![r.tab] = 0]
    /\ resting' = {}
    /\ UNCHANGED <<made, rev, expired, reloads>>

ProfileArrives(r) ==
    /\ Arrives(r) /\ r.kind = "me" /\ r.answer.ok
    /\ reqs' = reqs \ {r}
    /\ page' = [page EXCEPT ![r.tab].user = r.answer.user]
    /\ stored' = [stored EXCEPT !.user = r.answer.user]
    /\ crossed' = [crossed EXCEPT ![r.tab] = @ \/ r.token # page[r.tab].token,
                                  !["store"] = r.token # stored.token]
    /\ behind' = [behind EXCEPT ![r.tab] = @ \/ r.answer.user.rev < told[r.tab]
                                             \/ \E q \in reqs : q.tab = r.tab /\ q.id > r.id]
    /\ UNCHANGED <<made, rev, expired, reloads, told, resting>>

\* Saying that Discord is linked without asking for the profile.
AfterLink_Rest(t) == {}
AfterLink(t) == {Asked(t, "me", page[t].api, None)}

LinkArrives(r) ==
    /\ Arrives(r) /\ r.kind = "link" /\ r.answer.ok /\ made < MaxRequests
    /\ reqs' = (reqs \ {r}) \cup AfterLink(r.tab)
    /\ made' = made + 1
    /\ told' = [told EXCEPT ![r.tab] = IF page[r.tab].token = r.token THEN r.answer.user.rev ELSE @]
    /\ UNCHANGED <<page, stored, rev, expired, reloads, crossed, behind, resting>>

\* What the page does nothing with.
Ignored(r) ==
    /\ Arrives(r) /\ r.kind = "other" /\ r.answer.ok
    /\ reqs' = reqs \ {r}
    /\ UNCHANGED <<page, stored, made, rev, expired, reloads, crossed, behind, told, resting>>

Tokens == {stored.token} \cup {page[t].token : t \in Tabs}

Next ==
    \/ \E t \in Tabs : Load(t) \/ Unload(t) \/ SignOut(t) \/ Link(t) \/ Other(t)
    \/ \E t \in Tabs, u \in Users : SignIn(t, u)
    \/ \E k \in Tokens \ ({None} \cup expired) : Expire(k)
    \/ \E r \in reqs : \/ Serve(r) \/ Lost(r) \/ Refused(r) \/ SignedInNow(r)
                       \/ ProfileArrives(r) \/ LinkArrives(r) \/ Ignored(r)

Spec == Init /\ [][Next]_vars

-------------------------------------------------------------------------------
(* Properties.                                                                 *)

\* A page sends the token it shows, and shows the user of that token unless the
\* answer to a request of another session was applied to it
\* (AuthContext.tsx:44-46, 139-141, 160-183; api.ts:465-472).
PageIsOne ==
    \A t \in Tabs :
        /\ page[t].stage = "here" => page[t].api = page[t].token
        /\ SignedIn(t) /\ ~crossed[t] => page[t].user.name = page[t].token.user

\* The store holds a user with its token, and the user's unless another tab's
\* answer was written over it.
StoreIsOne ==
    stored.token # None =>
        /\ ~stored.out /\ stored.user # None
        /\ ~crossed["store"] => stored.user.name = stored.token.user

\* A tab loaded after a sign-out stays signed out until somebody signs in,
\* whatever the other tabs still hold and whichever answers come late.
SignedOutStays == \A t \in resting : ~SignedIn(t)

\* Once its requests are over, a page that was told Discord is linked shows the
\* profile it is linked in, unless an older answer came last or the newest was
\* lost (link-discord/page.tsx:57-58).
LinkIsShown ==
    \A t \in Tabs :
        SignedIn(t) /\ page[t].stage = "here" /\ ~behind[t] /\ ~crossed[t]
            /\ (\A r \in reqs : r.tab = t => r.kind # "me") =>
            page[t].user.rev >= told[t]

SessionIsTrue == PageIsOne /\ StoreIsOne /\ SignedOutStays /\ LinkIsShown
===============================================================================

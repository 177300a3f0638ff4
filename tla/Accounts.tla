-------------------------------- MODULE Accounts --------------------------------
(***************************************************************************)
(* Accounts (routes/auth.ts, routes/profile.ts, middleware/auth.ts,        *)
(* authUserService.ts, authSecurity.ts, NotificationPreferenceService.ts   *)
(* and the link commands of the Telegram and Discord bots): sign-in with a *)
(* nonce, the links of an account to a Telegram chat and to a Discord      *)
(* account, and the two caches over the rows.                              *)
(*                                                                         *)
(* A request is a sequence of queries, each one a step here, and any of    *)
(* them may be the last: the process dies or the query fails. A token or a *)
(* nonce is known by the number of the request that made it, 0 or -1 if it *)
(* was there before (two requests that overlap leave two nonces); it may   *)
(* have lapsed whenever it is looked at. A Discord account met before its  *)
(* wallet has a row of its own, the placeholder, which owns alerts and for   *)
(* which nobody has a session.                                             *)
(***************************************************************************)
EXTENDS Integers, FiniteSets

CONSTANTS
  Requests,     \* the requests that may be under way at once
  Wallets,      \* the wallets
  Registered,   \* those that have an account at the start
  Placeholder,  \* the row of a Discord account that has no wallet yet
  Discord,      \* that Discord account
  Chats,        \* Telegram chats
  Alerts,       \* the placeholder's alerts
  MaxRequests,  \* bound on the requests made
  Absent        \* nothing there

Channels == {"chat", "discord"}

\* A wallet, a placeholder and a chat are different things, and Absent is none of them
\* and no row.
ASSUME AccountAssumption ==
  /\ MaxRequests \in Nat
  /\ Registered \subseteq Wallets
  /\ Placeholder \notin Wallets /\ Discord \notin Wallets
  /\ Absent \notin Wallets \union {Placeholder, Discord} /\ Absent \notin Chats /\ Absent \notin BOOLEAN
  /\ Absent \notin [Channels -> Chats \union {Discord, Absent}]
  /\ Absent \notin [Channels -> BOOLEAN \union {Absent}]

VARIABLES
  users,    \* users: what each row links on a channel, or Absent
  prefs,    \* user_notification_preferences: whether each channel is on, or Absent
  owner,    \* token_alerts: the user of each alert, or Absent once it is deleted
  nonces,   \* auth_nonces not used: [wallet, id]
  tokens,   \* link tokens not used: [for, id], for a user (Telegram) or for Discord
  cached,   \* auth:user: the row as it was, or Absent
  viewed,   \* notification_pref: [chat, discord], or Absent
  req,      \* what each request is doing
  made,     \* how many requests have been made
  accepted, \* history: how often each nonce was accepted
  blurred   \* history: the caches that may be stale, <<"user" or "view", user>>

AccountVars == <<users, prefs, owner, nonces, tokens, cached, viewed, req, made, accepted, blurred>>
Tables == <<users, prefs, owner, nonces, tokens>>
Caches == <<cached, viewed>>
Past == <<made, accepted>>

Users == Wallets \union {Placeholder}
NewRow == [c \in Channels |-> Absent]
NoPrefs == [c \in Channels |-> Absent]
Free == [kind |-> "none", user |-> Absent, stage |-> "none", arg |-> Absent, seen |-> Absent,
         prefs |-> Absent, id |-> 0]

AccountInit ==
  /\ users = [u \in Users |->
              CASE u \in Registered -> NewRow
                [] u = Placeholder -> [NewRow EXCEPT !["discord"] = Discord]
                [] OTHER -> Absent]
  /\ prefs = [u \in Users |-> NoPrefs]
  /\ owner = [a \in Alerts |-> Placeholder]
  /\ nonces = [wallet : Wallets, id : {-1, 0}]
  /\ tokens = [for : Registered \union {Discord}, id : {0}]
  /\ cached = [u \in Users |-> Absent] /\ viewed = [u \in Users |-> Absent]
  /\ req = [r \in Requests |-> Free] /\ made = 0
  /\ accepted = [n \in [wallet : Wallets, id : -1 .. MaxRequests] |-> 0] /\ blurred = {}

(***************************************************************************)
(* Steps of a request.                                                     *)
(***************************************************************************)
Doing(r, kind, stage) == req[r].kind = kind /\ req[r].stage = stage
Go(r, stage) == req' = [req EXCEPT ![r].stage = stage]
End(r) == req' = [req EXCEPT ![r] = Free]

\* Other requests that have read what a cache is for and not yet stored it.
Holding(r, cache, u) ==
  \E q \in Requests \ {r} :
    /\ req[q].user = u
    /\ IF cache = "user"
       THEN req[q].stage = "loaded" \/ (req[q].kind \in {"signin", "profile"} /\ req[q].seen # Absent)
       ELSE req[q].kind = "view" /\ req[q].stage \in {"read", "store"}

\* A change of an account, made before the caches hear of it.
Changing(r, u) ==
  blurred' = blurred \union {<<c, u>> : c \in {k \in {"user", "view"} : Holding(r, k, u)}}

\* The stages at which a request has changed an account and not yet told a cache.
Owes(q, cache) ==
  \/ req[q].kind = "discord" /\ req[q].stage \in {"prefer", "unview"}
  \/ req[q].kind = "discord" /\ req[q].stage = "uncache" /\ cache = "user"
  \/ req[q].kind = "profile" /\ req[q].stage \in {"prefer", "unview"}
  \/ req[q].kind = "profile" /\ req[q].stage = "put" /\ cache = "user"
  \/ req[q].kind = "telegram" /\ req[q].stage = "unview" /\ cache = "view"

\* UNIQUE (telegram_chat_id), UNIQUE (discord_user_id)
Clashes(u, field, value) ==
  value # Absent /\ \E v \in Users \ {u} : users[v] # Absent /\ users[v][field] = value

\* A value is stored in the cache of accounts, or it is dropped; Redis may not answer.
Store(u, value) ==
  \/ cached' = [cached EXCEPT ![u] = value] /\ UNCHANGED blurred
  \/ blurred' = blurred \union {<<"user", u>>} /\ UNCHANGED cached

Unview(u) ==
  \/ viewed' = [viewed EXCEPT ![u] = Absent] /\ UNCHANGED blurred
  \/ blurred' = blurred \union {<<"view", u>>} /\ UNCHANGED viewed

(***************************************************************************)
(* Requests begin. Every one made for a user looks the user up first.      *)
(***************************************************************************)
Begin(r, kind, u, arg, stage) ==
  /\ req[r] = Free /\ made < MaxRequests
  /\ made' = made + 1
  /\ req' = [req EXCEPT ![r] = [kind |-> kind, user |-> u, stage |-> stage, arg |-> arg,
                                seen |-> Absent, prefs |-> Absent, id |-> made + 1]]
  /\ UNCHANGED <<Tables, Caches, accepted, blurred>>

AuthHit(r) ==
  /\ req[r].stage = "auth" /\ cached[req[r].user] # Absent
  /\ Go(r, "go")
  /\ UNCHANGED <<Tables, Caches, Past, blurred>>

AuthLoad(r) ==
  /\ req[r].stage = "auth"
  /\ req' = [req EXCEPT ![r].stage = "loaded", ![r].seen = users[req[r].user]]
  /\ UNCHANGED <<Tables, Caches, Past, blurred>>

AuthStore(r) ==
  /\ req[r].stage = "loaded"
  /\ req' = [req EXCEPT ![r].stage = "go", ![r].seen = Absent]
  /\ Store(req[r].user, req[r].seen)
  /\ UNCHANGED <<Tables, viewed, Past>>

\* The process dies, or the database does not answer.
Stop(r) ==
  /\ req[r] # Free
  /\ blurred' = blurred \union {<<c, req[r].user>> : c \in {k \in {"user", "view"} : Owes(r, k)}}
  /\ End(r)
  /\ UNCHANGED <<Tables, Caches, Past>>

CacheExpires(u) ==
  /\ \/ cached[u] # Absent /\ cached' = [cached EXCEPT ![u] = Absent] /\ UNCHANGED viewed
     \/ viewed[u] # Absent /\ viewed' = [viewed EXCEPT ![u] = Absent] /\ UNCHANGED cached
  /\ UNCHANGED <<Tables, req, Past, blurred>>

(***************************************************************************)
(* Sign-in.                                                                *)
(***************************************************************************)
\* createAuthNonce: those of before are used up, then the new one is there.
NonceClear(r) ==
  /\ Doing(r, "nonce", "go")
  /\ nonces' = {n \in nonces : n.wallet # req[r].user}
  /\ Go(r, "insert")
  /\ UNCHANGED <<users, prefs, owner, tokens, Caches, Past, blurred>>

NonceInsert(r) ==
  /\ Doing(r, "nonce", "insert")
  /\ nonces' = nonces \union {[wallet |-> req[r].user, id |-> req[r].id]}
  /\ End(r)
  /\ UNCHANGED <<users, prefs, owner, tokens, Caches, Past, blurred>>

\* Mutant: a nonce that is looked at is not used up.
Spend_Kept(n) == nonces

Spend(n) == nonces \ {n}

Consume(r) ==
  LET n == [wallet |-> req[r].user, id |-> req[r].arg] IN
  /\ Doing(r, "signin", "go")
  /\ \/ /\ n \in nonces /\ nonces' = Spend(n)
        /\ accepted' = [accepted EXCEPT ![n] = @ + 1]
        /\ Go(r, "find")
     \/ End(r) /\ UNCHANGED <<nonces, accepted>>
  /\ UNCHANGED <<users, prefs, owner, tokens, Caches, made, blurred>>

Find(r) ==
  /\ Doing(r, "signin", "find")
  /\ req' = [req EXCEPT ![r].stage = IF users[req[r].user] = Absent THEN "insert" ELSE "put",
                        ![r].seen = users[req[r].user]]
  /\ UNCHANGED <<Tables, Caches, Past, blurred>>

\* UNIQUE (wallet_address): the second of two first sign-ins fails.
InsertUser(r) ==
  LET u == req[r].user IN
  /\ Doing(r, "signin", "insert")
  /\ IF users[u] = Absent
     THEN /\ users' = [users EXCEPT ![u] = NewRow]
          /\ req' = [req EXCEPT ![r].stage = "put", ![r].seen = NewRow]
     ELSE End(r) /\ UNCHANGED users
  /\ UNCHANGED <<prefs, owner, nonces, tokens, Caches, Past, blurred>>

SignedIn(r) ==
  /\ Doing(r, "signin", "put")
  /\ Store(req[r].user, req[r].seen) /\ End(r)
  /\ UNCHANGED <<Tables, viewed, Past>>

(***************************************************************************)
(* Link tokens: those of before are deleted, then the new one is there. The*)
(* Discord bot makes none for an account that has a wallet.                *)
(***************************************************************************)
Invited(d) == \E u \in Wallets : users[u] # Absent /\ users[u]["discord"] = d

TokenClear(r) ==
  /\ Doing(r, "token", "go")
  /\ IF req[r].arg = Discord /\ Invited(Discord)
     THEN End(r) /\ UNCHANGED tokens
     ELSE tokens' = {t \in tokens : t.for # req[r].arg} /\ Go(r, "insert")
  /\ UNCHANGED <<users, prefs, owner, nonces, Caches, Past, blurred>>

TokenInsert(r) ==
  /\ Doing(r, "token", "insert")
  /\ tokens' = tokens \union {[for |-> req[r].arg, id |-> req[r].id]}
  /\ End(r)
  /\ UNCHANGED <<users, prefs, owner, nonces, Caches, Past, blurred>>

(***************************************************************************)
(* POST /auth/discord/link-with-token                                      *)
(***************************************************************************)
Token(r) == [for |-> Discord, id |-> req[r].arg]

DiscordToken(r) ==
  /\ Doing(r, "discord", "go")
  /\ IF Token(r) \in tokens THEN Go(r, "check") \/ End(r) ELSE End(r)
  /\ UNCHANGED <<Tables, Caches, Past, blurred>>

\* Mutant: a Discord account that another wallet has is linked all the same.
Merged_Any(u) == TRUE

\* Whether the account found can be merged: it has no wallet of its own.
Merged(u) == u = Placeholder

DiscordCheck(r) ==
  LET there == {u \in Users : users[u] # Absent /\ users[u]["discord"] = Discord} IN
  /\ Doing(r, "discord", "check")
  /\ \/ there = {} /\ Go(r, "write")
     \/ \E u \in there \ {req[r].user} :
          IF Merged(u) THEN req' = [req EXCEPT ![r].stage = "move", ![r].seen = u] ELSE End(r)
     \/ req[r].user \in there /\ Go(r, "mark")
  /\ UNCHANGED <<Tables, Caches, Past, blurred>>

DiscordMove(r) ==
  /\ Doing(r, "discord", "move")
  /\ owner' = [a \in Alerts |-> IF owner[a] = req[r].seen THEN req[r].user ELSE owner[a]]
  /\ Go(r, "delete")
  /\ UNCHANGED <<users, prefs, nonces, tokens, Caches, Past, blurred>>

\* What the row owns is deleted with it.
DiscordDelete(r) ==
  LET u == req[r].seen IN
  /\ Doing(r, "discord", "delete")
  /\ users' = [users EXCEPT ![u] = Absent]
  /\ prefs' = [prefs EXCEPT ![u] = NoPrefs]
  /\ owner' = [a \in Alerts |-> IF owner[a] = u THEN Absent ELSE owner[a]]
  /\ req' = [req EXCEPT ![r].stage = "forget"]
  /\ UNCHANGED <<nonces, tokens, Caches, Past, blurred>>

DiscordForget(r) ==
  /\ Doing(r, "discord", "forget")
  /\ Store(req[r].seen, Absent)
  /\ req' = [req EXCEPT ![r].stage = "write", ![r].seen = Absent]
  /\ UNCHANGED <<Tables, viewed, Past>>

DiscordWrite(r) ==
  LET u == req[r].user IN
  /\ Doing(r, "discord", "write")
  /\ IF Clashes(u, "discord", Discord)
     THEN End(r) /\ UNCHANGED <<users, blurred>>
     ELSE users' = [users EXCEPT ![u]["discord"] = Discord] /\ Changing(r, u) /\ Go(r, "prefer")
  /\ UNCHANGED <<prefs, owner, nonces, tokens, Caches, Past>>

DiscordPrefer(r) ==
  LET u == req[r].user IN
  /\ Doing(r, "discord", "prefer")
  /\ prefs' = [prefs EXCEPT ![u]["discord"] = TRUE]
  /\ Changing(r, u) /\ Go(r, "unview")
  /\ UNCHANGED <<users, owner, nonces, tokens, Caches, Past>>

DiscordUnview(r) ==
  /\ Doing(r, "discord", "unview")
  /\ Unview(req[r].user) /\ Go(r, "uncache")
  /\ UNCHANGED <<Tables, cached, Past>>

\* Mutant: the account is not taken out of the cache.
Uncached_Left(u) == cached[u]

Uncached(u) == Absent

DiscordUncache(r) ==
  /\ Doing(r, "discord", "uncache")
  /\ Store(req[r].user, Uncached(req[r].user)) /\ Go(r, "mark")
  /\ UNCHANGED <<Tables, viewed, Past>>

DiscordMark(r) ==
  /\ Doing(r, "discord", "mark")
  /\ tokens' = tokens \ {Token(r)}
  /\ End(r)
  /\ UNCHANGED <<users, prefs, owner, nonces, Caches, Past, blurred>>

(***************************************************************************)
(* The Telegram bot: /start with a token. One transaction, which locks the *)
(* token and not the user: what it read may be old when it commits.        *)
(***************************************************************************)
TelegramRead(r) ==
  LET t == req[r].arg.token
      u == t.for
      chat == req[r].arg.chat
  IN /\ Doing(r, "telegram", "go")
     /\ \A q \in Requests \ {r} : ~(Doing(q, "telegram", "commit") /\ req[q].arg.token = t)
     /\ IF t \in tokens /\ users[u]["chat"] \in {Absent, chat} /\ ~Clashes(u, "chat", chat)
        THEN Go(r, "commit") \/ End(r) ELSE End(r)
     /\ UNCHANGED <<Tables, Caches, Past, blurred>>

TelegramCommit(r) ==
  LET u == req[r].user
      chat == req[r].arg.chat
  IN /\ Doing(r, "telegram", "commit")
     /\ IF Clashes(u, "chat", chat)
        THEN End(r) /\ UNCHANGED <<users, prefs, tokens, blurred>>
        ELSE /\ users' = [users EXCEPT ![u]["chat"] = chat]
             /\ prefs' = [prefs EXCEPT ![u]["chat"] = TRUE]
             /\ tokens' = tokens \ {req[r].arg.token}
             /\ blurred' = blurred \union {<<"user", u>>}
                             \union (IF Holding(r, "view", u) THEN {<<"view", u>>} ELSE {})
             /\ Go(r, "unview")
     /\ UNCHANGED <<owner, nonces, Caches, Past>>

TelegramUnview(r) ==
  /\ Doing(r, "telegram", "unview")
  /\ Unview(req[r].user) /\ End(r)
  /\ UNCHANGED <<Tables, cached, Past>>

(***************************************************************************)
(* PUT /profile                                                            *)
(***************************************************************************)
ProfileWrite(r) ==
  LET u == req[r].user
      next == [users[u] EXCEPT !["chat"] = req[r].arg]
  IN /\ Doing(r, "profile", "go")
     /\ IF Clashes(u, "chat", req[r].arg)
        THEN End(r) /\ UNCHANGED <<users, blurred>>
        ELSE /\ users' = [users EXCEPT ![u] = next]
             /\ req' = [req EXCEPT ![r].stage = "prefer", ![r].seen = next]
             /\ Changing(r, u)
     /\ UNCHANGED <<prefs, owner, nonces, tokens, Caches, Past>>

ProfilePrefer(r) ==
  LET u == req[r].user IN
  /\ Doing(r, "profile", "prefer")
  /\ prefs' = [prefs EXCEPT ![u]["chat"] = (req[r].arg # Absent)]
  /\ Changing(r, u) /\ Go(r, "unview")
  /\ UNCHANGED <<users, owner, nonces, tokens, Caches, Past>>

ProfileUnview(r) ==
  /\ Doing(r, "profile", "unview")
  /\ Unview(req[r].user) /\ Go(r, "put")
  /\ UNCHANGED <<Tables, cached, Past>>

ProfilePut(r) ==
  /\ Doing(r, "profile", "put")
  /\ Store(req[r].user, req[r].seen) /\ End(r)
  /\ UNCHANGED <<Tables, viewed, Past>>

(***************************************************************************)
(* getPreferences: the defaults are there, then the cache is asked, then   *)
(* the two tables are read, each on a connection of its own.               *)
(***************************************************************************)
Defaults(u) == [c \in Channels |-> IF prefs[u][c] = Absent THEN TRUE ELSE prefs[u][c]]

ViewDefaults(r) ==
  LET u == req[r].user IN
  /\ Doing(r, "view", "go")
  /\ prefs' = [prefs EXCEPT ![u] = Defaults(u)]
  /\ req' = [req EXCEPT ![r].stage = "ask"]
  /\ UNCHANGED <<users, owner, nonces, tokens, Caches, Past, blurred>>

ViewAsk(r) ==
  /\ Doing(r, "view", "ask")
  /\ IF viewed[req[r].user] # Absent THEN End(r)
     ELSE Go(r, "read")
  /\ UNCHANGED <<Tables, Caches, Past, blurred>>

ViewRead(r) ==
  LET u == req[r].user IN
  /\ Doing(r, "view", "read")
  /\ \/ req[r].prefs = Absent /\ req' = [req EXCEPT ![r].prefs = prefs[u],
                                        ![r].stage = IF req[r].seen # Absent THEN "store" ELSE "read"]
     \/ req[r].seen = Absent /\ req' = [req EXCEPT ![r].seen = users[u],
                                       ![r].stage = IF req[r].prefs # Absent THEN "store" ELSE "read"]
  /\ UNCHANGED <<Tables, Caches, Past, blurred>>

\* Whether each channel is linked, and whether it is on.
View(p, x) ==
  [c \in Channels |-> [linked |-> x[c] # Absent, on |-> p[c] = TRUE /\ x[c] # Absent]]

ViewStore(r) ==
  /\ Doing(r, "view", "store")
  /\ \/ viewed' = [viewed EXCEPT ![req[r].user] = View(req[r].prefs, req[r].seen)]
     \/ UNCHANGED viewed
  /\ End(r)
  /\ UNCHANGED <<Tables, cached, Past, blurred>>

(***************************************************************************)
(* Who asks for what.                                                      *)
(***************************************************************************)
Asked(r) ==
  \/ \E u \in {w \in Wallets : users[w] # Absent} :
       \/ \E chat \in Chats \union {Absent} : Begin(r, "profile", u, chat, "auth")
       \/ \E i \in 0 .. made : Begin(r, "discord", u, i, "auth")
       \/ Begin(r, "view", u, Absent, "auth")
       \/ Begin(r, "token", u, u, "auth")
  \/ \E u \in Wallets :
       \/ Begin(r, "nonce", u, Absent, "go")
       \/ \E i \in -1 .. made : Begin(r, "signin", u, i, "go")
  \/ Begin(r, "token", Absent, Discord, "go")
  \/ \E t \in tokens, chat \in Chats :
       t.for \in Wallets /\ Begin(r, "telegram", t.for, [token |-> t, chat |-> chat], "go")

Step(r) ==
  \/ Asked(r) \/ AuthHit(r) \/ AuthLoad(r) \/ AuthStore(r) \/ Stop(r)
  \/ NonceClear(r) \/ NonceInsert(r) \/ Consume(r) \/ Find(r) \/ InsertUser(r) \/ SignedIn(r)
  \/ TokenClear(r) \/ TokenInsert(r)
  \/ DiscordToken(r) \/ DiscordCheck(r) \/ DiscordMove(r) \/ DiscordDelete(r)
  \/ DiscordForget(r) \/ DiscordWrite(r) \/ DiscordPrefer(r) \/ DiscordUnview(r)
  \/ DiscordUncache(r) \/ DiscordMark(r)
  \/ TelegramRead(r) \/ TelegramCommit(r) \/ TelegramUnview(r)
  \/ ProfileWrite(r) \/ ProfilePrefer(r) \/ ProfileUnview(r) \/ ProfilePut(r)
  \/ ViewDefaults(r) \/ ViewAsk(r) \/ ViewRead(r) \/ ViewStore(r)

AccountNext == (\E r \in Requests : Step(r)) \/ (\E u \in Users : CacheExpires(u))

AccountSpec == AccountInit /\ [][AccountNext]_AccountVars

(***************************************************************************)
(* Properties.                                                             *)
(***************************************************************************)
\* No alert is lost when the row of a Discord account is merged into a wallet's, however
\* many requests merge it and wherever they stop, and only such a row is ever deleted,
\* also when two wallets link one Discord account at once (routes/auth.ts:91-149).
NothingIsLost ==
  /\ \A a \in Alerts : owner[a] # Absent /\ users[owner[a]] # Absent
  /\ \A w \in Registered : users[w] # Absent

\* A chat or a Discord account is on one row, and a nonce signs in once.
OneOfEach ==
  /\ \A u \in Users, c \in Channels : users[u] # Absent /\ users[u][c] # Absent =>
       \A v \in Users \ {u} : users[v] # Absent => users[v][c] # users[u][c]
  /\ \A i \in DOMAIN accepted : accepted[i] <= 1

\* A cache that no request overlapped says what the rows say: it is stale only while the
\* request that changed them is about to tell it, if Redis or the process failed at
\* that moment, if a reader had the old row in hand, or after a Telegram link, which
\* tells the cache of preferences only.
CachesAreTrue ==
  \A u \in Users :
    LET telling(c) == \E q \in Requests : req[q].user = u /\ Owes(q, c) IN
    /\ cached[u] # Absent /\ <<"user", u>> \notin blurred /\ ~telling("user") => cached[u] = users[u]
    /\ viewed[u] # Absent /\ <<"view", u>> \notin blurred /\ ~telling("view") =>
         viewed[u] = View(prefs[u], users[u])

AccountsAreTrue == NothingIsLost /\ OneOfEach /\ CachesAreTrue
=============================================================================

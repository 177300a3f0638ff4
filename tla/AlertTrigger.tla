---------------------------- MODULE AlertTrigger ----------------------------
(***************************************************************************)
(* How a price alert fires.  A row of token_alerts is edited over HTTP,    *)
(* indexed by a matcher in memory, matched with ticks, and fired by a      *)
(* writer, which checks the candidate against the row once more.           *)
(*                                                                         *)
(*   - the row's generation grows with every edit of the definition and    *)
(*     every re-arming; the candidate carries the one it was matched under;*)
(*   - a handler tells the matcher about an edit after its own commit, and *)
(*     a firing does through the outbox; either may be lost;               *)
(*   - the Rust matcher publishes candidates for a worker and reloads its  *)
(*     index from time to time; the Node matcher fires by itself and does  *)
(*     not;                                                                *)
(*   - an account that was only a placeholder is merged into another, with *)
(*     its alerts.                                                         *)
(*                                                                         *)
(* One alert of one token is modelled.  A tick is the set of definitions   *)
(* it satisfies with eligible quality.  Duplicates of a candidate differ   *)
(* in their number.                                                        *)
(***************************************************************************)
EXTENDS Integers, Sequences, FiniteSets

CONSTANTS
  Defs,        \* definitions an alert may have: threshold and condition
  Hits,        \* the ticks, in stream order: the definitions each satisfies
  Handlers,    \* API requests in flight
  MaxGen,      \* bound: generations
  MaxSent      \* bound: candidates published

ASSUME AlertAssumption ==
  /\ MaxGen \in Nat \ {0} /\ MaxSent \in Nat
  /\ Hits \in Seq(SUBSET Defs) \ {<<>>} /\ "none" \notin Defs

VARIABLES
  engine,      \* which matcher is deployed: "rust" or "node"
  alert,       \* the row, or what is left of it
  defs,        \* history: the definition of each generation so far
  account,     \* the placeholder account: "old", "moved" (its alerts), "gone"
  monitored,   \* does monitored_tokens have the token?
  requests,    \* handlers that have changed the row and have yet to say so
  owed,        \* index updates of firings in the outbox
  unread,      \* is there an index update the matcher has not read?
  matcher,     \* the matcher process
  next,        \* the first tick nobody has read
  pending,     \* ticks read by a consumer that died or failed
  candidates,  \* published, and not yet handled
  sent,        \* how many were published
  events       \* alert_events

AlertVars == <<engine, alert, defs, account, monitored, requests, owed, unread,
               matcher, next, pending, candidates, sent, events>>

Gens == 1 .. MaxGen
TickNumbers == 1 .. Len(Hits)
Users == {"old", "main"}
NoDef == "none"

\* What the matcher knows of an alert.
Entries == [gen : Gens, def : Defs, user : Users]
NotIndexed == [gen |-> 0, def |-> NoDef, user |-> "main"]
Index == Entries \cup {NotIndexed}

Rows == [exists : BOOLEAN, active : BOOLEAN, triggered : BOOLEAN, gen : Gens,
         def : Defs \cup {NoDef}, user : Users]
Jobs == [at : {"none", "taken", "matched", "sent"}, tick : TickNumbers, hit : Index]
Matchers == [up : BOOLEAN, index : Index, load : {"idle", "token", "swap"},
             found : Index, follows : BOOLEAN, job : Jobs]
Candidates == [no : 1 .. MaxSent, gen : Gens, def : Defs, user : Users, tick : TickNumbers]
Events == [gen : Gens, def : Defs, user : Users, owner : Users, tick : TickNumbers]

Armed == alert.exists /\ alert.active /\ ~alert.triggered

\* What a query for active alerts returns.
Loaded == IF Armed THEN [gen |-> alert.gen, def |-> alert.def, user |-> alert.user]
          ELSE NotIndexed

\* A shard is loaded with the tokens that are monitored.
LoadedShard == IF monitored THEN Loaded ELSE NotIndexed

NoJob == [at |-> "none", tick |-> 1, hit |-> NotIndexed]
MatcherDown ==
  [up |-> FALSE, index |-> NotIndexed, load |-> "idle", found |-> NotIndexed,
   follows |-> FALSE, job |-> NoJob]

AlertInit ==
  /\ engine \in {"rust", "node"}
  /\ alert = [exists |-> FALSE, active |-> FALSE, triggered |-> FALSE, gen |-> 1,
              def |-> NoDef, user |-> "old"]
  /\ defs = [g \in Gens |-> NoDef]
  /\ account = "old" /\ monitored = FALSE
  /\ requests = [h \in Handlers |-> "idle"]
  /\ owed = 0 /\ unread = FALSE
  /\ matcher = MatcherDown /\ next = 1 /\ pending = {}
  /\ candidates = {} /\ sent = 0 /\ events = {}

(***************************************************************************)
(* The API.                                                                *)
(***************************************************************************)
\* POST /alerts; the alert of a user that may be a placeholder.
CreateAlert(h, d, u) ==
  /\ requests[h] = "idle" /\ ~alert.exists /\ alert.def = NoDef
  /\ u = "old" => account = "old"
  /\ alert' = [exists |-> TRUE, active |-> TRUE, triggered |-> FALSE, gen |-> 1,
               def |-> d, user |-> u]
  /\ defs' = [defs EXCEPT ![1] = d]
  /\ requests' = [requests EXCEPT ![h] = "sync"]
  /\ UNCHANGED <<engine, account, monitored, owed, unread, matcher, next, pending,
                 candidates, sent, events>>

\* Fault: re-arming keeps the generation.
Fences_Edits(change, d) == d # NoDef

\* Is the change of the definition or the activation fenced by a new generation?
Fences(change, d) == d # NoDef \/ change = "on"

\* PUT /alerts/:id, with a new definition (or none) and isActive (or not).
UpdateAlert(h, d, change) ==
  LET gen == IF Fences(change, d) THEN alert.gen + 1 ELSE alert.gen
      def == IF d = NoDef THEN alert.def ELSE d
  IN /\ requests[h] = "idle" /\ alert.exists /\ gen <= MaxGen
     /\ d # NoDef \/ change # "keep"
     /\ alert' = [alert EXCEPT
          !.gen = gen, !.def = def,
          !.active = IF change = "keep" THEN @ ELSE change = "on",
          !.triggered = IF change = "on" THEN FALSE ELSE @]
     /\ defs' = [defs EXCEPT ![gen] = def]
     /\ requests' = [requests EXCEPT ![h] = "sync"]
     /\ UNCHANGED <<engine, account, monitored, owed, unread, matcher, next, pending,
                    candidates, sent, events>>

\* DELETE /alerts/:id; its events go with it.
DeleteAlert(h) ==
  /\ requests[h] = "idle" /\ alert.exists
  /\ alert' = [alert EXCEPT !.exists = FALSE]
  /\ events' = {}
  /\ requests' = [requests EXCEPT ![h] = "sync"]
  /\ UNCHANGED <<engine, defs, account, monitored, owed, unread, matcher, next,
                 pending, candidates, sent>>

\* An update on the stream: the matcher sees it, unless it was between two reads
\* and has no position in the stream yet.
Posted ==
  \/ unread' = TRUE
  \/ ~matcher.follows /\ engine = "rust" /\ UNCHANGED unread

\* syncToken: the count and the status it stores are read by nobody here.
SyncToken(h) ==
  /\ requests[h] = "sync"
  /\ monitored' = TRUE
  /\ requests' = [requests EXCEPT ![h] = "emit"]
  /\ UNCHANGED <<engine, alert, defs, account, owed, unread, matcher, next, pending,
                 candidates, sent, events>>

EmitIndexUpdate(h) ==
  /\ requests[h] = "emit"
  /\ Posted
  /\ requests' = [requests EXCEPT ![h] = "idle"]
  /\ UNCHANGED <<engine, alert, defs, account, monitored, owed, matcher, next, pending,
                 candidates, sent, events>>

\* An error of either is only logged, and the process may die before them.
ForgetUpdate(h) ==
  /\ requests[h] # "idle"
  /\ requests' = [requests EXCEPT ![h] = "idle"]
  /\ UNCHANGED <<engine, alert, defs, account, monitored, owed, unread, matcher, next,
                 pending, candidates, sent, events>>

\* A placeholder account is merged: first its alerts move, with neither a new
\* generation nor an index update, then it is deleted, and its events with it.
MergeAccount ==
  /\ account = "old"
  /\ account' = "moved"
  /\ alert' = [alert EXCEPT !.user = "main"]
  /\ UNCHANGED <<engine, defs, monitored, requests, owed, unread, matcher, next,
                 pending, candidates, sent, events>>

DeleteAccount ==
  /\ account = "moved"
  /\ account' = "gone"
  /\ events' = {e \in events : e.user # "old"}
  /\ UNCHANGED <<engine, alert, defs, monitored, requests, owed, unread, matcher, next,
                 pending, candidates, sent>>

(***************************************************************************)
(* The writer.                                                             *)
(***************************************************************************)
\* Fault: only the generation is checked.
Holds_Fired(c) == alert.exists /\ alert.gen = c.gen

\* The row the candidate was matched with is still there, and armed.
Holds(c) == Armed /\ alert.gen = c.gen

\* The row agrees with the candidate in all it carries.
Agrees(c) == alert.def = c.def /\ alert.user = c.user

\* The transaction of writeCandidate: the alert fires, or the candidate is
\* stale, or an error leaves everything as it was.
Fire(c) ==
  /\ Holds(c) /\ Agrees(c)
  /\ alert' = [alert EXCEPT !.active = FALSE, !.triggered = TRUE]
  /\ events' = events \cup
       {[gen |-> c.gen, def |-> c.def, user |-> c.user, owner |-> alert.user, tick |-> c.tick]}
  /\ owed' = owed + 1

NotFired == UNCHANGED <<alert, events, owed>>

\* The worker handles a candidate.  One whose handling fails stays pending, and
\* the worker reads only what is new.
WriteCandidate(c) ==
  /\ c \in candidates
  /\ candidates' = candidates \ {c}
  /\ Fire(c) \/ NotFired
  /\ UNCHANGED <<engine, defs, account, monitored, requests, unread, matcher, next,
                 pending, sent>>

\* The outbox publishes an index update, or runs out of attempts.
PublishOwed ==
  /\ owed > 0
  /\ owed' = owed - 1
  /\ Posted \/ UNCHANGED unread
  /\ UNCHANGED <<engine, alert, defs, account, monitored, requests, matcher, next,
                 pending, candidates, sent, events>>

(***************************************************************************)
(* The matcher: its index.                                                 *)
(***************************************************************************)
\* The index is loaded; the Node matcher reads the updates from the first one.
StartMatcher ==
  /\ ~matcher.up
  /\ matcher' = [MatcherDown EXCEPT
       !.up = TRUE, !.index = IF engine = "rust" THEN LoadedShard ELSE Loaded]
  /\ unread' = (engine = "node")
  /\ UNCHANGED <<engine, alert, defs, account, monitored, requests, owed, next, pending,
                 candidates, sent, events>>

\* A tick that was being handled stays pending.
StopMatcher ==
  /\ matcher.up
  /\ matcher' = MatcherDown
  /\ pending' = IF matcher.job.at = "none" THEN pending ELSE pending \cup {matcher.job.tick}
  /\ UNCHANGED <<engine, alert, defs, account, monitored, requests, owed, unread, next,
                 candidates, sent, events>>

ReadUpdates ==
  /\ matcher.up /\ matcher.load = "idle" /\ unread
  /\ unread' = FALSE
  /\ matcher' = [matcher EXCEPT !.load = "token", !.follows = TRUE]
  /\ UNCHANGED <<engine, alert, defs, account, monitored, requests, owed, next, pending,
                 candidates, sent, events>>

\* The alerts of the token are loaded; an error is logged or dead-lettered.
LoadToken ==
  /\ matcher.up /\ matcher.load = "token"
  /\ matcher' \in {[matcher EXCEPT !.load = "swap", !.found = Loaded],
                   [matcher EXCEPT !.load = "idle"]}
  /\ UNCHANGED <<engine, alert, defs, account, monitored, requests, owed, unread, next,
                 pending, candidates, sent, events>>

\* Every resync_secs the Rust matcher loads its whole shard.
Resync ==
  /\ engine = "rust" /\ matcher.up /\ matcher.load = "idle"
  /\ matcher' = [matcher EXCEPT !.load = "swap", !.found = LoadedShard]
  /\ UNCHANGED <<engine, alert, defs, account, monitored, requests, owed, unread, next,
                 pending, candidates, sent, events>>

\* Fault: a token without alerts stays in the index.
SwapIndex_KeepsToken ==
  /\ matcher.up /\ matcher.load = "swap"
  /\ matcher' = [matcher EXCEPT !.load = "idle", !.found = NotIndexed,
       !.index = IF matcher.found = NotIndexed THEN @ ELSE matcher.found]
  /\ UNCHANGED <<engine, alert, defs, account, monitored, requests, owed, unread, next,
                 pending, candidates, sent, events>>

\* What was loaded becomes the index.
SwapIndex ==
  /\ matcher.up /\ matcher.load = "swap"
  /\ matcher' = [matcher EXCEPT !.load = "idle", !.index = matcher.found,
                                !.found = NotIndexed]
  /\ UNCHANGED <<engine, alert, defs, account, monitored, requests, owed, unread, next,
                 pending, candidates, sent, events>>

(***************************************************************************)
(* The matcher: its ticks.                                                 *)
(***************************************************************************)
TakeTick ==
  /\ matcher.up /\ matcher.job.at = "none" /\ next \in TickNumbers
  /\ matcher' = [matcher EXCEPT !.job = [NoJob EXCEPT !.at = "taken", !.tick = next]]
  /\ next' = next + 1
  /\ UNCHANGED <<engine, alert, defs, account, monitored, requests, owed, unread, pending,
                 candidates, sent, events>>

\* The Rust matcher claims what other consumers left pending.
ReclaimTick(t) ==
  /\ engine = "rust" /\ matcher.up /\ matcher.job.at = "none" /\ t \in pending
  /\ matcher' = [matcher EXCEPT !.job = [NoJob EXCEPT !.at = "taken", !.tick = t]]
  /\ pending' = pending \ {t}
  /\ UNCHANGED <<engine, alert, defs, account, monitored, requests, owed, unread, next,
                 candidates, sent, events>>

\* The tick is matched with the index of this moment.
MatchTick ==
  LET hit == IF matcher.index # NotIndexed /\ matcher.index.def \in Hits[matcher.job.tick]
             THEN matcher.index ELSE NotIndexed
  IN /\ matcher.up /\ matcher.job.at = "taken"
     /\ matcher' = [matcher EXCEPT !.job.at = "matched", !.job.hit = hit]
     /\ UNCHANGED <<engine, alert, defs, account, monitored, requests, owed, unread, next,
                    pending, candidates, sent, events>>

\* The candidate of the job under way.
CandidateOf(job, no) ==
  [no |-> no, gen |-> job.hit.gen, def |-> job.hit.def, user |-> job.hit.user,
   tick |-> job.tick]

\* Rust: the candidate is published; only then is the tick acknowledged.
PublishCandidate ==
  LET job == matcher.job IN
  /\ engine = "rust" /\ matcher.up /\ job.at = "matched" /\ job.hit # NotIndexed
  /\ sent < MaxSent
  /\ sent' = sent + 1
  /\ candidates' = candidates \cup {CandidateOf(job, sent + 1)}
  /\ matcher' = [matcher EXCEPT !.job.at = "sent"]
  /\ UNCHANGED <<engine, alert, defs, account, monitored, requests, owed, unread, next,
                 pending, events>>

\* Node: the matcher is the writer.  A tick whose handling fails stays pending.
FireMatch ==
  LET job == matcher.job IN
  /\ engine = "node" /\ matcher.up /\ job.at = "matched" /\ job.hit # NotIndexed
  /\ \/ /\ \/ Fire(CandidateOf(job, 1))
           \/ ~Holds(CandidateOf(job, 1)) /\ NotFired
        /\ matcher' = [matcher EXCEPT !.job.at = "sent"]
        /\ UNCHANGED pending
     \/ /\ NotFired
        /\ matcher' = [matcher EXCEPT !.job = NoJob]
        /\ pending' = pending \cup {job.tick}
  /\ UNCHANGED <<engine, defs, account, monitored, requests, unread, next, candidates, sent>>

AckTick ==
  LET job == matcher.job IN
  /\ matcher.up
  /\ job.at = "sent" \/ (job.at = "matched" /\ job.hit = NotIndexed)
  /\ matcher' = [matcher EXCEPT !.job = NoJob]
  /\ UNCHANGED <<engine, alert, defs, account, monitored, requests, owed, unread, next,
                 pending, candidates, sent, events>>

ApiStep ==
  \/ \E h \in Handlers :
       \/ \E d \in Defs, u \in Users : CreateAlert(h, d, u)
       \/ \E d \in Defs \cup {NoDef}, change \in {"keep", "on", "off"} :
            UpdateAlert(h, d, change)
       \/ DeleteAlert(h) \/ SyncToken(h) \/ EmitIndexUpdate(h) \/ ForgetUpdate(h)
  \/ MergeAccount \/ DeleteAccount

MatcherStep ==
  \/ StartMatcher \/ StopMatcher
  \/ ReadUpdates \/ LoadToken \/ Resync \/ SwapIndex
  \/ TakeTick \/ MatchTick \/ PublishCandidate \/ FireMatch \/ AckTick
  \/ \E t \in pending : ReclaimTick(t)

AlertNext ==
  \/ ApiStep \/ MatcherStep \/ PublishOwed
  \/ \E c \in candidates : WriteCandidate(c)

AlertSpec == AlertInit /\ [][AlertNext]_AlertVars

\* A matcher is started again, and the Rust one's resync succeeds now and then.
\* Nothing is assumed of handlers, of the outbox or of index updates.
MatcherFairness ==
  /\ WF_AlertVars(StartMatcher) /\ WF_AlertVars(SwapIndex)
  /\ WF_AlertVars(LoadToken) /\ SF_AlertVars(Resync)

(***************************************************************************)
(* Properties.                                                             *)
(***************************************************************************)
\* The row and those who edit it.
RowTypes ==
  /\ engine \in {"rust", "node"} /\ account \in {"old", "moved", "gone"}
  /\ alert \in Rows /\ defs \in [Gens -> Defs \cup {NoDef}]
  /\ monitored \in BOOLEAN /\ requests \in [Handlers -> {"idle", "sync", "emit"}]

\* What flows between them and the matcher.
FlowTypes ==
  /\ unread \in BOOLEAN /\ owed \in Nat
  /\ next \in Nat \ {0} /\ pending \subseteq TickNumbers
  /\ sent \in 0 .. MaxSent /\ candidates \subseteq Candidates /\ events \subseteq Events

\* Every variable has its type.
AlertTypeOK == RowTypes /\ matcher \in Matchers /\ FlowTypes

\* An alert fires at most once for each generation, and as its owner defined it
\* then, whatever was edited, re-armed, merged, redelivered or published twice
\* between the match and the write: the event has the definition of its
\* generation and the row's owner, for a tick that satisfies it, and a row that
\* is armed has not fired in its generation.
FiresOnceAsDefined ==
  /\ \A e \in events :
       /\ e.def = defs[e.gen] /\ e.user = e.owner /\ e.def \in Hits[e.tick]
       /\ e.gen = alert.gen => ~Armed
  /\ \A e, f \in events : e.gen = f.gen => e = f

\* With the Rust matcher an index update that was lost is made up for: when the
\* row comes to rest the index comes to hold what the row says, whatever updates
\* came through (unless the handler that created the alert died before the token
\* was monitored: then no shard loads it).
IndexFollows ==
  engine = "rust" => <>[](matcher.up => matcher.index \in {Loaded, LoadedShard})
=============================================================================

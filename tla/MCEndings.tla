------------------------------ MODULE MCEndings ------------------------------
(***************************************************************************)
(* What must come to an end: instances of EventOutbox, MarketMetrics,      *)
(* AlertTrigger and SwapExecution that are small enough for liveness.      *)
(* They share no state: each behaviour is about one part, and the others   *)
(* rest.                                                                   *)
(*                                                                         *)
(*   outbox    one event, three publishers, three attempts; the marker     *)
(*             expires twice                                               *)
(*   metrics   one trade and one worker, which dies now and then           *)
(*   alerts    the alert, its index updates and the matcher's index        *)
(*   swap      one swap, a client, a recovery worker and the reconciler    *)
(***************************************************************************)
EXTENDS EventOutbox, TLC

CONSTANT NoRow   \* see SwapExecution

VARIABLES
  part,
  clock, intake, trades, unacked, tries, buried, rollup, metricEvents,
  token, states, ticks, boot, proc,
  engine, alert, defs, account, monitored, requests, owed, unread,
  matcher, next, pending, candidates, sent, events,
  quote, exec, blob, evidence, swapProc, batch, swapSent, chain, erred

Metrics == INSTANCE MarketMetrics WITH
  At <- 1 :> 2, Slot <- 1 :> 1,
  Windows <- "short" :> [span |-> 1, width |-> 1] @@ "day" :> [span |-> 2, width |-> 2],
  Ahead <- 0, Retention <- 1, Cutoff <- 2, Procs <- {"m1"}, MaxTries <- 2, LastTime <- 4

Alerts == INSTANCE AlertTrigger WITH
  Defs <- {"lo"}, Hits <- <<{}>>, Handlers <- {"h1"}, MaxGen <- 2, MaxSent <- 0

Swap == INSTANCE SwapExecution WITH
  Keys <- {"k1"}, Quotes <- {"q1"}, Sponsored <- {}, Clients <- {"c1"}, Workers <- {"w1"},
  Batches <- {"b1"}, MaxBroadcasts <- 2, Reorgs <- FALSE, SlowHolders <- FALSE,
  proc <- swapProc, sent <- swapSent

MetricVars == <<clock, intake, trades, unacked, tries, buried, rollup, metricEvents,
                token, states, ticks, boot, proc>>
AlertVars == <<engine, alert, defs, account, monitored, requests, owed, unread,
               matcher, next, pending, candidates, sent, events>>
SwapVars == <<quote, exec, blob, evidence, swapProc, batch, swapSent, chain, erred>>
EndVars == <<part, vars, MetricVars, AlertVars, SwapVars>>

EndInit ==
  /\ part \in {"outbox", "metrics", "alerts", "swap"}
  /\ Init /\ Metrics!MetricInit /\ Alerts!AlertInit /\ Swap!Init
  /\ part # "metrics" => trades = {}
  /\ part # "alerts" => engine = "rust"

\* The edits, the merge and the matcher's index; no ticks.
IndexNext ==
  \/ Alerts!ApiStep \/ Alerts!StartMatcher \/ Alerts!StopMatcher \/ Alerts!ReadUpdates
  \/ Alerts!LoadToken \/ Alerts!Resync \/ Alerts!SwapIndex

EndNext ==
  /\ UNCHANGED part
  /\ \/ part = "outbox" /\ Next /\ UNCHANGED <<MetricVars, AlertVars, SwapVars>>
     \/ part = "metrics" /\ Metrics!MetricNext /\ UNCHANGED <<vars, AlertVars, SwapVars>>
     \/ part = "alerts" /\ IndexNext /\ UNCHANGED <<vars, MetricVars, SwapVars>>
     \/ part = "swap" /\ Swap!Next /\ UNCHANGED <<vars, MetricVars, AlertVars>>

\* The fairness of the outbox (EventOutbox!FairSpec).
OutboxFair ==
  \A k \in Keys :
    /\ WF_vars(part = "outbox" /\ LeaseExpires(k))
    /\ \A p \in Publishers : WF_vars(part = "outbox" /\ TaskStep(p, k))

\* A worker gets on, its deliveries fail and it dies only so often, and its lease on
\* the replay lapses when it is dead.
MetricsFair ==
  /\ <>[][~Metrics!Mishap("m1")]_MetricVars
  /\ WF_MetricVars(part = "metrics" /\ Metrics!WorkerStep("m1"))
  /\ WF_MetricVars(part = "metrics" /\ Metrics!ExpireBoot)

\* AlertTrigger!MatcherFairness
MatcherFair ==
  /\ WF_AlertVars(part = "alerts" /\ Alerts!StartMatcher)
  /\ WF_AlertVars(part = "alerts" /\ Alerts!SwapIndex)
  /\ WF_AlertVars(part = "alerts" /\ Alerts!LoadToken)

\* SwapExecution!Fairness
SwapFair ==
  /\ WF_SwapVars(part = "swap" /\ Swap!LeaseExpires("k1"))
  /\ \A p \in {"c1", "w1"} :
       WF_SwapVars(part = "swap" /\ (Swap!RunClaimed(p) \/ Swap!MarkRecovery(p)))
  /\ WF_SwapVars(part = "swap" /\ Swap!BatchStatuses("b1"))
  /\ WF_SwapVars(part = "swap" /\ Swap!RowTask("b1", "k1"))
  /\ SF_SwapVars(part = "swap" /\ Swap!TellsTruth("b1", "k1"))
  /\ SF_SwapVars(part = "swap" /\ Swap!RowSettle("b1", "k1"))

\* The claims of the outbox and of the reconciler and the resync of the matcher are
\* taken if they are possible again and again; as a behaviour stays in its part, one
\* formula says it of each.
ClaimsFair ==
  SF_EndVars(
    /\ UNCHANGED part
    /\ \/ /\ part = "outbox" /\ \E p \in Publishers, K \in SUBSET Keys : K # {} /\ Claim(p, K)
          /\ UNCHANGED <<MetricVars, AlertVars, SwapVars>>
       \/ /\ part = "alerts" /\ Alerts!Resync
          /\ UNCHANGED <<vars, MetricVars, SwapVars>>
       \/ /\ part = "swap" /\ Swap!BatchClaim("b1", {"k1"})
          /\ UNCHANGED <<vars, MetricVars, AlertVars>>)

EndSpec ==
  /\ EndInit /\ [][EndNext]_EndVars
  /\ OutboxFair /\ MetricsFair /\ MatcherFair /\ SwapFair /\ ClaimsFair

\* What was committed is delivered (marketMetricService.ts).
CommittedIsDelivered == part = "metrics" => Metrics!CommittedIsDelivered

\* The index follows the row (alert_matcher.rs).
IndexFollows == part = "alerts" => Alerts!IndexFollows

\* A swap that is final is reported final (executionReconciler.ts).
FinalIsReported == part = "swap" => Swap!FinalIsReported
=============================================================================

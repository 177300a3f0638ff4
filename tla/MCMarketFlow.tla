---------------------------- MODULE MCMarketFlow ----------------------------
(***************************************************************************)
(* Instances of MarketMetrics, CandleProjection and AlertTrigger for TLC.  *)
(* They meet at streams only, and each is given what a stream may do to    *)
(* it, so they share no state: each behaviour is about one part, and the   *)
(* others rest.                                                            *)
(*                                                                         *)
(*   metrics   two trades and two workers, one of which dies; the other    *)
(*             may be slow for ever                                        *)
(*   candles   three trades in batches of two, two workers                 *)
(*   alerts    the alert with edits between two definitions and a merge of *)
(*             accounts, the matcher and the writer, one tick for one      *)
(*             candidate                                                   *)
(*   twice     the alert of one user and definition, edited, paused and    *)
(*             re-armed, with two ticks and two candidates                 *)
(***************************************************************************)
EXTENDS MarketMetrics, CandleProjection, AlertTrigger, TLC

CONSTANT Mortal

VARIABLE part

TwoAt == 1 :> 2 @@ 2 :> 3
TwoSlots == 1 :> 1 @@ 2 :> 1
ShortAndDay ==
  "short" :> [span |-> 1, width |-> 1] @@ "day" :> [span |-> 2, width |-> 2]

\* Two trades of one moment, whose keys are not in the order of the chain.
ThreeSeen == <<5, 5, 4>>
ThreePositions == <<3, 2, 1>>

TwoTicks == <<{"lo"}, {"lo"}>>

FlowVars == <<part, MetricVars, CandleVars, AlertVars>>

FlowInit ==
  /\ part \in {"metrics", "candles", "alerts", "twice"}
  /\ MetricInit /\ CandleInit /\ AlertInit
  /\ part # "metrics" => trades = {}
  /\ part \notin {"alerts", "twice"} => engine = "rust"

MortalNext ==
  /\ MetricNext
  /\ \A p \in Procs \ {Mortal} : proc[p].phase # "down" => proc'[p].phase # "down"

\* Only the first tick is read, and one candidate published.
OnceNext == AlertNext /\ next' <= 2 /\ sent' <= 1

\* The alert is the main account's from the start and keeps its definition.
TwiceNext ==
  /\ AlertNext
  /\ account' = account /\ (alert'.exists => alert'.user = "main" /\ alert'.def = "lo")

FlowNext ==
  /\ UNCHANGED part
  /\ \/ /\ part = "metrics" /\ MortalNext
        /\ UNCHANGED <<CandleVars, AlertVars>>
     \/ /\ part = "candles" /\ CandleNext
        /\ UNCHANGED <<MetricVars, AlertVars>>
     \/ /\ \/ part = "alerts" /\ OnceNext
           \/ part = "twice" /\ TwiceNext
        /\ UNCHANGED <<MetricVars, CandleVars>>

FlowSpec == FlowInit /\ [][FlowNext]_FlowVars
=============================================================================

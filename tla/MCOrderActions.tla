--------------------------- MODULE MCOrderActions ---------------------------
(***************************************************************************)
(* The duties that end by a deadline or a lease, for TLC, under fairness.  *)
(* The parts share no state: each behaviour is about one, and the other    *)
(* rests.                                                                  *)
(*                                                                         *)
(*   gate      one signed action and two gates that may be run for it      *)
(*   notice    one delivery, one worker, one attempt, one rate limit       *)
(***************************************************************************)
EXTENDS OrderActions, TLC

CONSTANTS a1, o1

VARIABLES part, alertEvent, delivery, journal, job, dead, worker, received, nonce

OneSigned == a1 :> "signed"
OneOrder == a1 :> o1
NoParent == a1 :> NoAction

Notice == INSTANCE NotificationDelivery WITH
  Deliveries <- {"d1"}, Workers <- {"n1"}, MaxAttempts <- 1, MaxDefers <- 1, MaxForgets <- 0,
  event <- alertEvent

NoticeVars == <<alertEvent, delivery, journal, job, dead, worker, received, nonce>>
DutyVars == <<part, vars, NoticeVars>>

DutyInit ==
  /\ part \in {"gate", "notice"}
  /\ Init /\ Notice!Init
  /\ part # "notice" => delivery["d1"].channel = "telegram"

DutyNext ==
  /\ UNCHANGED part
  /\ \/ part = "gate" /\ Next /\ UNCHANGED NoticeVars
     \/ part = "notice" /\ Notice!Next /\ UNCHANGED vars
     \/ part = "notice" /\ UNCHANGED <<vars, NoticeVars>>   \* it may be at its end

\* OrderActions!Fairness
GateFair ==
  /\ \A a \in Actions :
       WF_vars(part = "gate" /\ DeadlinePasses(a)) /\ WF_vars(part = "gate" /\ RecoverEgress(a))
  /\ \A g \in Gates :
       WF_vars(
         /\ part = "gate"
         /\ GateStart(g) \/ GateTooLate(g) \/ GateNoBudget(g) \/ GateCall(g) \/ GateFinish(g))

\* NotificationDelivery!FairSpec
NoticeFair ==
  /\ <>[][~Notice!Crash("n1")]_NoticeVars
  /\ WF_NoticeVars(part = "notice" /\ Notice!WorkerStep("n1"))
  /\ WF_NoticeVars(part = "notice" /\ Notice!LeaseExpires("d1"))
  /\ WF_NoticeVars(part = "notice" /\ Notice!RetryFallsDue("d1"))
  /\ WF_NoticeVars(part = "notice" /\ Notice!Sweep("d1"))
  /\ \A s \in Notice!Seqs :
       /\ WF_NoticeVars(
            /\ part = "notice" /\ job["d1"][s].state = "queued"
            /\ Notice!Publish("d1", s) \/ Notice!GiveUp("d1", s))
       /\ SF_NoticeVars(part = "notice" /\ Notice!Read("n1", "d1", s))

DutySpec == DutyInit /\ [][DutyNext]_DutyVars /\ GateFair /\ NoticeFair

\* A notification is delivered or given up (notificationRepository.ts).
DeliveryEnds == part = "notice" => Notice!DeliveryEnds
=============================================================================

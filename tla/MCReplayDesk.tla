---------------------------- MODULE MCReplayDesk ----------------------------
(***************************************************************************)
(* Instances of ReplayRun and ReplayFeed for TLC.  The feed is checked     *)
(* against what ReplaySource promises, and the owner is shown to keep that *)
(* promise, so the two share no state: each behaviour is about one part,   *)
(* and the others rest.                                                    *)
(*                                                                         *)
(*   run    the owner, with a paper order                                  *)
(*   calm   the owner without paper orders, under fairness                 *)
(*   feed   the feed and a client of the trades, for whom no paper moves   *)
(*   poll   the feed alone, under fairness                                 *)
(***************************************************************************)
EXTENDS ReplayRun, ReplayFeed

VARIABLE part

\* Two trades; the first fills half of an order, the second could fill it whole.
TwoTrades == <<[at |-> 1, input |-> 1], [at |-> 2, input |-> 2]>>

DeskVars == <<part, owner, sessions, replays, shown, source, feed, link>>

DeskInit == part \in {"run", "calm", "feed", "poll"} /\ RunInit /\ FeedInit

DeskNext ==
  /\ UNCHANGED part
  /\ \/ /\ \/ part = "run" /\ RunNext
           \/ part = "calm" /\ ControlNext
        /\ UNCHANGED FeedVars
     \/ /\ \/ part = "feed" /\ FeedNext /\ source'.fact = 0
           \/ part = "poll" /\ PollNext
        /\ UNCHANGED RunVars

DeskSpec ==
  /\ DeskInit /\ [][DeskNext]_DeskVars
  /\ WF_DeskVars(part = "calm" /\ Progress /\ UNCHANGED <<part, FeedVars>>)
  /\ WF_DeskVars(part = "poll" /\ FeedStep /\ UNCHANGED <<part, RunVars>>)

\* An owner at rest is one cut of the run, which a session could save (runtime.ts).
RestIsSavable == RunTypeOK /\ RestIsOneSavableCut

\* A client is seeded with what the owner was, the frames kept for it stay within the
\* bounds of the queue and the journal, and a gap in them is announced (replayFeed.ts,
\* frameQueue.ts).
FeedIsWhole == FeedTypeOK /\ SeedIsPossible /\ NoUnannouncedGap

\* A mutation of the owner that began ends: a pause ends the play it waits for, a
\* seek arrives or fails, a save is answered (runtime.ts, replayApi.ts).
CalmMutationsEnd == part = "calm" => MutationsEnd

\* The feed does not stay behind an owner that can be read (replayFeed.ts).
PollCatchesUp == part = "poll" => FeedCatchesUp
=============================================================================

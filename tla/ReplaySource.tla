---------------------------- MODULE ReplaySource ----------------------------
(***************************************************************************)
(* What the owner of a historical replay promises to those who read it.    *)
(*                                                                         *)
(* A reader is served a revision: the epoch, the cursor on the tape and    *)
(* the number of paper facts.  While a mutation is active nothing is       *)
(* served.  Within one life of the owner a revision is never served again  *)
(* once another was: trades only move the cursor forward, paper actions    *)
(* only add facts, and moving back starts a new epoch.  That is why a      *)
(* command or a page request that names its revision cannot be taken for   *)
(* one about a later state.  A restarted owner promises nothing about the  *)
(* revisions served before.                                                *)
(***************************************************************************)
EXTENDS Integers

CONSTANTS
  Total,     \* trades on the tape
  MaxEpoch,  \* bound: the largest epoch
  MaxFact    \* bound: the largest number of paper facts

ASSUME SourceAssumption == Total \in Nat /\ MaxEpoch \in Nat \ {0} /\ MaxFact \in Nat

VARIABLE
  source     \* the revision served last, and its phase: is it served still,
             \*   hidden by a mutation, or is the owner down?

Phases == {"served", "hidden", "down"}
Revisions == [phase : Phases, epoch : 1..MaxEpoch, cursor : 0..Total, fact : 0..MaxFact]

Unserved == [phase |-> "down", epoch |-> 1, cursor |-> 0, fact |-> 0]

SourceInit == source = Unserved

\* The next trade of the tape, with the paper facts it makes.
Advance ==
  /\ source.phase = "served" /\ source.cursor < Total
  /\ \E f \in source.fact .. MaxFact :
       source' = [source EXCEPT !.cursor = @ + 1, !.fact = f]

\* A paper order is placed or cancelled.
PaperMoves ==
  /\ source.phase = "served" /\ source.fact < MaxFact
  /\ source' = [source EXCEPT !.fact = @ + 1]

\* A mutation begins.
Hide == source.phase = "served" /\ source' = [source EXCEPT !.phase = "hidden"]

\* The mutation ends and has not moved the replay.
Show == source.phase = "hidden" /\ source' = [source EXCEPT !.phase = "served"]

\* A seek ends: a new epoch with an empty paper timeline.  One that failed half
\* way has stopped the replay and left the old paper facts.
Move ==
  /\ source.phase = "hidden"
  /\ \E e \in source.epoch + 1 .. MaxEpoch, c \in 0 .. Total, f \in {0, source.fact} :
       source' = [phase |-> "served", epoch |-> e, cursor |-> c, fact |-> f]

\* The owner dies.
Die == source.phase # "down" /\ source' = Unserved

\* The owner is started again, on what was last saved.
Reopen ==
  /\ source.phase = "down"
  /\ \E e \in 1 .. MaxEpoch, c \in 0 .. Total, f \in 0 .. MaxFact :
       source' = [phase |-> "served", epoch |-> e, cursor |-> c, fact |-> f]

SourceNext ==
  Advance \/ PaperMoves \/ Hide \/ Show \/ Move \/ Die \/ Reopen

SourceSpec == SourceInit /\ [][SourceNext]_source
=============================================================================

---------------------------- MODULE MCOrderPairs ----------------------------
(***************************************************************************)
(* Two pairs of actions, for TLC.  Each behaviour is about one order:      *)
(*                                                                         *)
(*   o1   a signed action and a write beside it; two gates at once         *)
(*   o2   a look at the chain and a write that depends on what it finds;   *)
(*        one gate at a time                                               *)
(***************************************************************************)
EXTENDS OrderActions, TLC

CONSTANTS a1, a2, a3, a4, o1, o2

VARIABLE about   \* the order

TwoOrders == a1 :> o1 @@ a2 :> o1 @@ a3 :> o2 @@ a4 :> o2
FourKinds == a1 :> "signed" @@ a2 :> "write" @@ a3 :> "chain_sync" @@ a4 :> "write"
OneChild == a1 :> NoAction @@ a2 :> NoAction @@ a3 :> NoAction @@ a4 :> a3

PairVars == <<about, vars>>

PairInit == about \in Orders /\ Init

MayRun(g) == about = o2 => \A h \in Gates \ {g} : gate[h] = IdleGate

PairNext ==
  /\ UNCHANGED about
  /\ \/ \E a \in Actions : Of[a] = about /\ StoreStep(a)
     \/ \E g \in Gates : GateStep(g) /\ MayRun(g)
     \/ World
  /\ \A o \in Orders \ {about} : order'[o] = order[o]

PairSpec == PairInit /\ [][PairNext]_PairVars

GateSymmetry == Permutations(Gates)
=============================================================================

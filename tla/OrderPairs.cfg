\* Two orders of two actions, two gates, one epoch.
CONSTANTS
  a1 = a1  a2 = a2  a3 = a3  a4 = a4  o1 = o1  o2 = o2
  NoAction = NoAction
  Actions = {a1, a2, a3, a4}
  Orders = {o1, o2}
  Of <- TwoOrders
  Kind <- FourKinds
  Parent <- OneChild
  Gates = {g1, g2}
  MaxEpoch = 1
SPECIFICATION PairSpec
SYMMETRY GateSymmetry
INVARIANTS DivergenceBlocks ChildNeedsSuccess
PROPERTIES NoOvertaking

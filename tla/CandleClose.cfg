\* Three trades of one moment whose keys are not in the order of the chain.
CONSTANTS
  At <- TwoAt
  Slot <- TwoSlots
  Windows <- ShortAndDay
  Ahead = 0
  Retention = 1
  Cutoff = 2
  Procs = {p1, p2}
  Mortal = p1
  Nobody = Nobody
  MaxTries = 1
  LastTime = 4
  SeenAt <- ThreeSeen
  ChainPos <- ThreePositions
  Projectors = {c1, c2}
  BatchSize = 2
  Defs = {"lo", "hi"}
  Hits <- TwoTicks
  Handlers = {h1}
  MaxGen = 2
  MaxSent = 2
SPECIFICATION FlowSpec
INVARIANT CloseIsCanonical
CHECK_DEADLOCK FALSE

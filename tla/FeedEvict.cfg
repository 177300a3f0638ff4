\* A queue of one frame: what becomes of the snapshot a subscription
\* starts again from.
CONSTANTS
  Tape <- TwoTrades
  OrderIds = {a}
  Input = 2
  Latency = 0
  Lookahead = 2
  EpochBound = 2
  SaveBound = 2
  Total = 3
  MaxEpoch = 2
  MaxFact = 1
  Streams = {"trade"}
  Window = 2
  PageSize = 2
  QueueFrames = 1
SPECIFICATION DeskSpec
INVARIANTS TradesFollowSnapshot
CHECK_DEADLOCK FALSE

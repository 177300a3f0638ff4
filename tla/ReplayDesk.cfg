\* The owner: two trades, one order, two epochs, two sessions saved.  The feed:
\* three trades, two epochs, a journal of two frames, a queue of one.
CONSTANTS
  Tape <- TwoTrades
  OrderIds = {a}
  Input = 2
  Latency = 0
  Lookahead = 2
  EpochBound = 2
  SaveBound = 2
  Total = 3
  MaxEpoch = 2
  MaxFact = 1
  Streams = {"trade"}
  Window = 2
  PageSize = 2
  QueueFrames = 1
SPECIFICATION DeskSpec
INVARIANTS RestIsSavable SessionsAreOneHistory FeedIsWhole
PROPERTIES RunKeepsPromise CalmMutationsEnd PollCatchesUp
CHECK_DEADLOCK FALSE

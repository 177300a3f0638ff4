\* Metrics: two trades a unit apart, a day of two units, four moments.  Candles:
\* three trades in one bucket.  Alerts: two definitions, two generations, two ticks and
\* candidates, of which the part with two definitions takes one.
CONSTANTS
  At <- TwoAt
  Slot <- TwoSlots
  Windows <- ShortAndDay
  Ahead = 0
  Retention = 1
  Cutoff = 2
  Procs = {p1, p2}
  Mortal = p1
  Nobody = Nobody
  MaxTries = 1
  LastTime = 4
  SeenAt <- ThreeSeen
  ChainPos <- ThreePositions
  Projectors = {c1, c2}
  BatchSize = 2
  Defs = {"lo", "hi"}
  Hits <- TwoTicks
  Handlers = {h1}
  MaxGen = 2
  MaxSent = 2
SPECIFICATION FlowSpec
INVARIANTS RollupIsTrades MetricEventsAreTrue CandlesAreTrades FiresOnceAsDefined
CHECK_DEADLOCK FALSE

CONSTANTS
  Keys = {k1}
  Quotes = {q1}
  Sponsored = {}
  Clients = {c1}
  Workers = {w1}
  Batches = {b1}
  MaxBroadcasts = 2
  Reorgs = TRUE
  SlowHolders = TRUE
  NoRow = NoRow
  Nobody = Nobody
SPECIFICATION Spec
CHECK_DEADLOCK FALSE
INVARIANTS ReportsAreTrue
PROPERTIES NeverTakenBack KeepsPromise

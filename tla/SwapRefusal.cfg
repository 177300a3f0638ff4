CONSTANTS
  Keys = {k1}
  Quotes = {q1}
  Sponsored = {q1}
  Clients = {c1}
  Workers = {w1}
  Batches = {b1}
  MaxBroadcasts = 2
  Reorgs = FALSE
  SlowHolders = TRUE
  NoRow = NoRow
  Nobody = Nobody
SPECIFICATION Spec
CHECK_DEADLOCK FALSE
INVARIANT FailedHasNotLanded

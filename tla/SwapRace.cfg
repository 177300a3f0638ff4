CONSTANTS
  Keys = {k1, k2}
  Quotes = {q1}
  Sponsored = {q1}
  Clients = {c1, c2}
  Workers = {}
  Batches = {b1, b2}
  MaxBroadcasts = 1
  Reorgs = FALSE
  SlowHolders = TRUE
  NoRow = NoRow
  Nobody = Nobody  Off = Off  None = None
SPECIFICATION RaceSpec
CHECK_DEADLOCK FALSE
SYMMETRY RaceSymmetry
INVARIANTS QuoteSpentOnce NothingSentIsLost PagesAreTrue

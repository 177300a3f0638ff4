\* One event and three publishers; the other parts are given their values by the
\* module.
CONSTANTS
  Keys = {k1}
  Publishers = {p1, p2, p3}
  MaxAttempts = 3
  MaxForgets = 2
  Nobody = Nobody
  NoRow = NoRow
SPECIFICATION EndSpec
INVARIANTS StreamIsTrue
PROPERTIES EventsSettle CommittedIsDelivered IndexFollows FinalIsReported
CHECK_DEADLOCK FALSE

\* One delivery on either channel, two workers, two attempts; the other parts are
\* given their values by the module.
CONSTANTS
  Deliveries = {d1}
  Workers = {x1, x2}
  MaxAttempts = 2
  MaxDefers = 0
  MaxForgets = 1
  TxIds = {x1, x2}
  Amount <- VaultAmounts
  ReversalOf <- VaultReversals
  Claimed <- VaultClaims
  Movements = {"e1", "e2"}
  MaxCommits = 3
  Procs = {x1, x2}
  Plans <- SchemaPlans
  Nobody = Nobody
  Off = Off  x1 = x1  x2 = x2
  Unpriced = Unpriced  Nothing = Nothing  Spoilt = Spoilt  None = None
SPECIFICATION OfficeSpec
SYMMETRY OfficeSymmetry
INVARIANTS AtMostOnce DeliveryIsTrue AttemptsAreTrue LedgerIsTrue TapeIsTrue CorpusIsTrue RecoveryIsTrue
PROPERTIES FinalStays
CHECK_DEADLOCK FALSE

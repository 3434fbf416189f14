SPECIFICATION Spec
CONSTANTS
  Accounts <- MCAccounts
  ForexAccounts <- MCForexAccounts
  Symbols <- MCSymbols
  Requests <- RaceRequests
  Policy <- MCPolicy
  StartingCash <- MCStartingCash
  Sessions = {s1, s2}
  MaxSubmissions = 3
  MaxFailures = 1
INVARIANTS
  OrderTradeAgreement
  KeyMeansApplied
  OneReturnPerKey
  PortfolioStateSane
  StrandedOrdersAreFailures
PROPERTIES
  ImplementsLifecycle
CHECK_DEADLOCK FALSE

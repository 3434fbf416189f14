SPECIFICATION Spec
CONSTANTS
  Accounts <- MCAccounts
  ForexAccounts <- MCForexAccounts
  Symbols <- MCSymbols
  Requests <- AuditRequests
  Policy <- MCPolicy
  StartingCash <- MCStartingCash
  Sessions = {s1}
  MaxSubmissions = 4
  MaxFailures = 1
  MarketPrices = {0, 5}
VIEW WithoutBestEffort
INVARIANTS
  TypeOK
  LedgersMatchTrades
  UnrecordedTradesAreFailures
  GatesAndStopsHold
  ReconciliationIsExact
  ReportsAddUp
CHECK_DEADLOCK FALSE

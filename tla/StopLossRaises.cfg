SPECIFICATION Spec
CONSTANTS
  Accounts <- MCAccounts
  ForexAccounts <- MCForexAccounts
  Symbols <- MCSymbols
  Requests <- ForexRequests
  Policy <- MCPolicy
  StartingCash <- MCStartingCash
  Sessions = {s1}
  MaxSubmissions = 2
  MaxFailures = 0
INVARIANT
  StopLossNeverRaises
CHECK_DEADLOCK FALSE

SPECIFICATION Spec
CONSTANTS
  Ticks = {t1, t2}
  DayLength = 2
  MaxTime = 2
  TradingDates = {0}
  CoveredDates = {0}
  PreMarketOpen = 0
  Session1Open = 1
  Session1Close = 1
  Session2Open = 1
  Session2Close = 1
  RetryBase = 1
  RetryMax = 1
  FreshnessWindow = 1
  MinInterval = 2
  EvidenceConfigured = FALSE
  MaxExponent = 0
  AttemptCap = 2
  MaxFailures = 1
  MaxCrashes = 0
INVARIANTS
  RecapOncePerDay
SYMMETRY Symmetry
CHECK_DEADLOCK FALSE

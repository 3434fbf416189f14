SPECIFICATION FairSpec
CONSTANTS
  Ticks = {t1}
  DayLength = 5
  MaxTime = 9
  TradingDates = {1}
  CoveredDates = {1}
  PreMarketOpen = 0
  Session1Open = 0
  Session1Close = 1
  Session2Open = 1
  Session2Close = 1
  RetryBase = 1
  RetryMax = 2
  FreshnessWindow = 1
  MinInterval = 2
  EvidenceConfigured = FALSE
  MaxExponent = 1
  AttemptCap = 3
  MaxFailures = 2
  MaxCrashes = 1
INVARIANTS
  
  RetriesAreSpaced
  DeliveredSoundly
PROPERTIES
  DaysAreReviewed
CHECK_DEADLOCK FALSE

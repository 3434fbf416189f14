SPECIFICATION FairSpec
CONSTANTS
  Pollers = {p1}
  Kind <- EveryKind
  BatchSize = 2
  MaxFailures = 2
  MaxCrashes = 1
INVARIANTS
  PollSound
PROPERTIES
  EveryUpdateHandled
CHECK_DEADLOCK FALSE

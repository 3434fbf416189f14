SPECIFICATION Spec
CONSTANTS
  MaxActors = 3
  MaxCalls = 2
  MaxEffort = 5
  MaxDepth = 1
  MaxEvents = 6
INVARIANTS
  LogSound
  EffectsApproved
  UndisturbedCalls
  SkipsAreQueued
CHECK_DEADLOCK FALSE

SPECIFICATION Spec
CONSTANTS
  MaxActors = 1
  MaxCalls = 2
  MaxEffort = 4
  MaxDepth = 0
  MaxEvents = 9
INVARIANTS
  SharedCalls
CHECK_DEADLOCK FALSE

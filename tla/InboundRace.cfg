SPECIFICATION Spec
CONSTANTS
  Pollers = {p1, p2}
  Kind <- ThreeKinds
  BatchSize = 2
  MaxFailures = 1
  MaxCrashes = 1
PROPERTIES
  ImplementsInbox
CHECK_DEADLOCK FALSE

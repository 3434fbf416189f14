SPECIFICATION Spec
CONSTANTS
  Approvers = {p1, p2}
  Briefs = {b1}
  ActionableBriefs = {b1}
  MaxCalls = 2
  MaxRaises = 0
  MaxLinkFailures = 0
INVARIANT
  NeverASecondOrder
CHECK_DEADLOCK FALSE

SPECIFICATION DeskSpec
CONSTANTS
  Clerks = {p1, p2}
  Approvers = {p1, p2}
  Briefs = {b1, b2, b3}
  ActionableBriefs = {b1, b2}
  MaxCalls = 4
  MaxRaises = 1
  MaxLinkFailures = 1
  Plans = {"low", "high"}
  RiskAmount <- DeskRisk
  AnyLimits <- DeskLimits
  MaxEntries = 3
  MaxOutcomes = 2
  MaxSaves = 2
  MaxJournalCalls = 6
  LastDay = 1
  Reviewers = {p1, p2}
  Verdicts = {"CONTINUE"}
  MaxRows = 3
  MaxReviewed = 2
  MaxFeedback = 1
  MaxFailures = 1
  Installers = {p1, p2}
  Versions = {1, 2, 3}
  Statements <- DeskStatements
  MigrationPlans <- DeskPlans
  InitPlan <- DeskInitPlan
  MaxCommands = 3
  MaxFaults = 1
  MaxDeaths = 1
  Watchers = {p1, p2}
  Symbols = {"AAA", "BBB"}
  InitialList <- DeskList
  Entries <- DeskEntries
  MaxScans = 2
  MaxAsks = 2
  MaxUpsets = 1
SYMMETRY Interchangeable
INVARIANTS
  DeskTablesOK
  BriefOrdersSound
  TradesPerDay
  ExtraWindowsAreRaces
  FinalNeedsEvidence
  SchemaIsWhole
  ScansSound
  BriefsSound
PROPERTIES
  AcceptedWithinLimits
  OnlyPeopleDecide
CHECK_DEADLOCK FALSE

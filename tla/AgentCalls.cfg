SPECIFICATION WorkSpec
CONSTANTS
  a1 = a1
  a2 = a2
  Agents <- Two
  AgentLists <- Lists
  Names = {"job_scheduled", "job_started"}
  Iterations = 1
  MaxJobs = 2
  MaxHandlers = 2
  MaxCalls = 6
  MaxDepth = 8
  Keys <- MetadataKeys
  Services <- ServiceNames
  Required <- RequiredInputs
  Produced <- ProducedOutputs
  Rank <- NameRank
  Goals <- SomeGoals
  Remembered = {0, 43, 68}
  MaxCycles = 3
  MaxCommands = 3
  Capitals = {0, 8}
INVARIANTS
  AgentsSound
  ServedOnce
  PlanIsClosure
  PlanAgreesWithPipeline
  SessionSound
  DecisionSound
PROPERTIES
  EndedStaysEnded
CHECK_DEADLOCK FALSE

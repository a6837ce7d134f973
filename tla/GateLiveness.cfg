SPECIFICATION FairSpec
CONSTANTS
  i1 = i1
  Incidents = {i1}
  Triages = {t1, t2}
  IncidentOf <- MCIncidentOf
  Recommended = {"RESTART AGENT", "DB MIGRATION", "RESTART SERVICE"}
  RecoveryModes = {"Advisory", "HITL", "Autonomous"}
  ThrottleLimit = 1
  PortalWrites = {"RESOLVED", "IN_PROGRESS"}
  Client = FALSE
  HistoryColumns = TRUE
  Faults = {"worker", "breaker", "analysis"}
  MaxFaults = 2
  None = None
INVARIANTS
  AwaitingHasRequest
PROPERTIES
  AnalysisEnds
CHECK_DEADLOCK FALSE

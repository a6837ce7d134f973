SPECIFICATION Spec
CONSTANTS
  i1 = i1
  Incidents = {i1}
  Triages = {t1, t2, t3}
  IncidentOf <- MCIncidentOf
  Recommended = {"RESTART AGENT", "DB MIGRATION"}
  RecoveryModes = {"Advisory", "HITL", "Autonomous"}
  ThrottleLimit = 1
  PortalWrites = {"RESOLVED"}
  Client = TRUE
  HistoryColumns = TRUE
  Faults = {"database", "publish", "worker", "breaker", "analysis"}
  MaxFaults = 1
  None = None
INVARIANTS
  TypeOK
  NoLockLeak
  LockProtects
  ExecutedWasSent
SYMMETRY TriageSymmetry
CHECK_DEADLOCK FALSE

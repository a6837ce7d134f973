CONSTANTS
  c1 = c1
  c2 = c2
  i1 = i1
  i2 = i2
  None = None
  Commands = {c1}
  Incidents = {i1}
  IncidentOf <- OneIncident
  CacheLimit = 1
  Faults = {"portal", "redis", "target", "slow", "network", "token", "agent", "disk", "database", "nats"}
  MaxFaults = 2
SPECIFICATION Spec
INVARIANTS
  TypeOK
  ExecutedOnceUnlessOverlapping
  SuccessMeansExecuted
PROPERTIES
  QueueDrains
CHECK_DEADLOCK FALSE

SPECIFICATION FairSpec
CONSTANTS
  r1 = r1
  i1 = i1
  Requests = {r1}
  Incidents = {i1}
  IncidentOf <- MCIncidentOf
  Handlers = {h1}
  Workers = {w1}
  MaxLogs = 2
  RetryLimit = 2
  PortalWrites = {}
  HistoryColumns = TRUE
  Faults = {"publish", "database", "loss", "portal", "worker", "breaker"}
  MaxFaults = 1
  None = None
PROPERTIES
  EveryDecisionTaken
CHECK_DEADLOCK FALSE

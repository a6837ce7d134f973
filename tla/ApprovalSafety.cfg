SPECIFICATION Spec
CONSTANTS
  r1 = r1
  i1 = i1
  Requests = {r1}
  Incidents = {i1}
  IncidentOf <- MCIncidentOf
  Handlers = {h1, h2}
  Workers = {w1}
  MaxLogs = 2
  RetryLimit = 2
  PortalWrites = {"RESOLVED"}
  HistoryColumns = TRUE
  Faults = {"publish", "database", "loss", "portal", "worker", "breaker"}
  MaxFaults = 2
  None = None
SYMMETRY HandlerSymmetry
INVARIANTS
  TypeOK
  ExecutedOnce
  OneAnswerPerRequest
  DecisionAccountedFor
  OutboxHonest
PROPERTIES
  ImplementsContract

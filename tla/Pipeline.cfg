CONSTANTS
  w1 = w1
  w2 = w2
  e1 = e1
  e2 = e2
  None = None
  Workers = {w1, w2}
  Events = {e1}
  MaxAttempts = 2
  FailureThreshold = 2
  MaxTokens = 6
  MaxDeliveries = 3
  Faults = {"baseline", "database", "retryable", "fatal", "recovery", "worker"}
  MaxFaults = 3
SPECIFICATION Spec
INVARIANTS
  TypeOK
  TakenOnceUnlessRaced
  NeverSilent
PROPERTIES
  Fenced
  RunEnds
CHECK_DEADLOCK FALSE

SPECIFICATION Spec
CONSTANTS
  s1 = s1
  s2 = s2
  r1 = r1
  Sends = {s1, s2}
  Retries = {r1}
  Messages <- MCMessages
  Loads <- MCCriticalLoads
  SiteOf <- MCSiteOf
  MaxDeliver = 2
  QueueSize = 2
  FastTracked <- MCFastTracked
  Faults = {"redis", "nats", "ingestor", "database", "ack", "analysis", "supervisor", "slow"}
  MaxFaults = 2
  MaxWindows = 0
  None = None
INVARIANTS
  TypeOK
  OnePerWindow
  ItemTakenOnce
  SuppressedHasTwin
  AnalysedOnce
  GoneWasHandled
CHECK_DEADLOCK FALSE

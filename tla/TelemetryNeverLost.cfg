SPECIFICATION Spec
CONSTANTS
  s1 = s1
  s2 = s2
  r1 = r1
  Sends = {s1, s2}
  Retries = {r1}
  Messages <- MCMessages
  Loads <- MCCriticalLoads
  SiteOf <- MCSiteOf
  MaxDeliver = 2
  QueueSize = 2
  FastTracked <- MCFastTracked
  Faults = {}
  MaxFaults = 0
  MaxWindows = 0
  None = None
INVARIANTS
  NeverLost
CHECK_DEADLOCK FALSE

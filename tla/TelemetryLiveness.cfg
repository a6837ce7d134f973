SPECIFICATION FairSpec
CONSTANTS
  s1 = s1
  s2 = s2
  r1 = r1
  Sends = {s1, s2}
  Retries = {r1}
  Messages <- MCMessages
  Loads <- MCLoads
  SiteOf <- MCSiteOf
  MaxDeliver = 2
  QueueSize = 2
  FastTracked <- MCFastTracked
  Faults = {}
  MaxFaults = 0
  MaxWindows = 1
  None = None
PROPERTIES
  CriticalIsHandled
  RetriesAreHandled
CHECK_DEADLOCK FALSE

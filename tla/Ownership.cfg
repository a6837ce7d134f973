SPECIFICATION FairSpec
CONSTANTS
  i1 = i1
  o1 = o1
  o3 = o3
  Incidents = {i1}
  Operators = {o1, o3}
  Role <- MCRole
  Orders <- MCOrders
  MaxOrders = 1
  ScanLimit = 200
  Faults = {"bot", "statement", "scan", "loss"}
  MaxFaults = 2
  None = None
INVARIANTS
  TypeOK
  AssignmentFollowsOwner
PROPERTIES
  OverdueStaysEscalated
  EveryOrderHandled
CHECK_DEADLOCK FALSE

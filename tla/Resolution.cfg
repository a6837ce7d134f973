CONSTANTS
  None = None
  HistoryColumns = TRUE
  Verifications = 1
  MaxWatches = 1
  MaxRequests = 2
  MaxTicks = 3
SPECIFICATION Spec
INVARIANTS
  TypeOK
  ResolvedOnGrounds
  CreditIsEarned
PROPERTIES
  AnnouncedIsResolved
  ObservationEnds
CHECK_DEADLOCK FALSE

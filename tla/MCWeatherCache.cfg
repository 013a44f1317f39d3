SPECIFICATION FairSpec
CONSTANTS
  Threads = {t1, t2}
  Positions = {2, 3}
  Cells = {0, 1}
  Width = 4
  TTL = 2
  Attempts = 2
  MaxClock = 3
  None = None
  Raised = Raised
INVARIANTS
  TypeOK
  ServedFresh
  ServedNearby
PROPERTIES
  LookupReturns

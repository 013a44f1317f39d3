SPECIFICATION Spec
CONSTANTS
  Workers = {w1, w2}
  Aircraft = {a1}
  NoFlight = NoFlight
  NoWorker = NoWorker
  Prefetch = 2
  ConnectAttempts = 2
  MaxMessages = 2
  MaxFaults = 1
  Faults = {"dberror", "dblost"}
INVARIANTS
  FailureCostsOneMessage

SPECIFICATION MCSpec
CONSTANTS
  Workers = {w1, w2}
  Aircraft = {a1}
  NoFlight = NoFlight
  NoWorker = NoWorker
  Prefetch = 2
  ConnectAttempts = 2
  MaxMessages = 3
  MaxFaults = 3
  Faults = {"crash", "stop", "mqlost", "startfail", "enrich", "dberror", "dblost"}
INVARIANTS
  TypeOK
  MessagesConserved
  WindowAccounted
  OneOwner
  AckedWasStored
  DuplicatesNeedFaults
  ServedMeansNothingDropped
PROPERTIES
  ImplementsQueue
  EveryMessageStored
  DrainEnds

SPECIFICATION FairSpec
CONSTANTS
  Workers = {w1}
  Aircraft = {a1}
  NoFlight = NoFlight
  NoWorker = NoWorker
  Prefetch = 1
  ConnectAttempts = 2
  MaxMessages = 2
  MaxFaults = 1
  Faults = {"dblost"}
PROPERTIES
  BrokenTurnsUnhealthy

SPECIFICATION Spec
CONSTANTS
  Lives = {2, 5}
  Default = 6
  Buffer = 3
  Latency = 2
  MaxClock = 15
  NoToken = NoToken
  Absent = Absent
INVARIANTS
  TypeOK
  TokenOutlivesRequest

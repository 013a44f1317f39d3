SPECIFICATION Spec
CONSTANTS
  Lives = {5}
  Default = 5
  Buffer = 2
  Latency = 1
  MaxClock = 12
  NoToken = NoToken
  Absent = Absent
INVARIANTS
  TokensValid

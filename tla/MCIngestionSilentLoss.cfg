SPECIFICATION Spec
CONSTANTS
  Aircraft = {a1}
  NoMessage = NoMessage
  PollAttempts = 1
  ConnectAttempts = 1
  MaxMessages = 1
  MaxFaults = 1
  Faults = {"link"}
INVARIANTS
  SentIsQueued

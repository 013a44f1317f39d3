SPECIFICATION FairSpec
CONSTANTS
  Aircraft = {a1, a2}
  NoMessage = NoMessage
  PollAttempts = 2
  ConnectAttempts = 2
  MaxMessages = 3
  MaxFaults = 3
  Faults = {"link", "late", "channel", "refused", "broken", "rejected", "crash"}
INVARIANTS
  TypeOK
  SendsOnCurrent
  SingleFaultSurvived
  TwoCopiesAtMost
  LostOnlyUnnoticed
  ForgottenNeedFaults
  BeatsAfterWholeCycle
  OnlySignalStops
PROPERTIES
  ShutdownEnds

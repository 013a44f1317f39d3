SPECIFICATION FairSpec
CONSTANTS
  Aircraft = {a1}
  NoFlight = NoFlight
  Missing = Missing
  Stamps <- MCStamps
  Fix <- MCFix
  HoldingRadius = 15
  HoldingStddev = 60
  HoldingPoints = 4
  Primary = "gemini"
  MaxAge = 1
  Lookback = 3
  MaxTime = 3
  MaxMessages = 2
  MaxRows = 2
INVARIANTS
  TypeOK
  SnapshotCovered
  OutageSurvived
  QuotaGuarded
PROPERTIES
  GhostsVanish

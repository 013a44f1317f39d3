SPECIFICATION MCSpec
CONSTANTS
  Aircraft = {a1, a2}
  Stamps <- MCStamps
  NoFlight = NoFlight
  Workers = {w1, w2}
  NoWorker = NoWorker
  MaxRows = 1
INVARIANTS
  TypeOK
  OneTransaction
  OwnWritesOnly
  SnapshotFromHistory
PROPERTIES
  ImplementsStore

SPECIFICATION FairSpec
CONSTANTS
  Peers <- ThreePeers
  Concurrency = 2
  Measurements <- MCMeasurements
  MinSpeed = 2
  MaxPing = 0
  SortBy = "ping"
  Torn = Torn
  MaxFaults = 1
CHECK_DEADLOCK FALSE
INVARIANTS
  BoundedConcurrency
  NothingAfterReturn
  CheckpointHoldsResults
  RankedAsAsked
  NothingMeasuredAfterCancel
PROPERTIES
  WorkersAreTests
  RunReturns

SPECIFICATION FairSpec
CONSTANTS
  p1 = p1
  q1 = q1
  Clients <- OnePage
  Peers <- OnePeer
  Buffer = 2
  MaxRuns = 1
  MaxPuts = 1
  MaxBreaks = 1
CHECK_DEADLOCK FALSE
INVARIANTS
  TypeOK
  NothingFollowsTheEnd
PROPERTIES
  RunsEndWhateverClientsDo
  StreamsEnd
  PagesSettle

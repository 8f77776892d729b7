SPECIFICATION FairSpec
CONSTANTS
  w1 = w1
  w2 = w2
  A = A
  B = B
  Deleter = Deleter
  Nobody = Nobody
  NoPlan = NoPlan
  Writers <- OneWriter
  Plans <- MCPlans
  Configs <- OnOff
  HistoryLimit = 1
  Earlier = 0
  MaxPuts = 1
  MaxDeletes = 0
  MaxCancels = 1
  MaxManual = 1
  MaxTicks = 1
  MaxFaults = 1
CHECK_DEADLOCK FALSE
INVARIANTS
  OneRunAtATime
  CancelledOnlyOnRequest
PROPERTIES
  LoopsAreJobSlots
  ShutdownUnwinds
  RunsEnd

SPECIFICATION FairSpec
CONSTANTS
  w1 = w1
  w2 = w2
  A = A
  B = B
  Deleter = Deleter
  Nobody = Nobody
  NoPlan = NoPlan
  Writers <- OneWriter
  Plans <- MCPlans
  Configs <- OnOff
  HistoryLimit = 2
  Earlier = 0
  MaxPuts = 1
  MaxDeletes = 0
  MaxCancels = 0
  MaxManual = 0
  MaxTicks = 1
  MaxFaults = 0
CHECK_DEADLOCK FALSE
PROPERTY PutReturns

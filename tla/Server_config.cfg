SPECIFICATION Spec
CONSTANTS
  w1 = w1
  w2 = w2
  A = A
  B = B
  Deleter = Deleter
  Nobody = Nobody
  NoPlan = NoPlan
  Writers <- TwoWriters
  Plans <- MCPlans
  Configs <- AllConfigs
  HistoryLimit = 2
  Earlier = 1
  MaxPuts = 2
  MaxDeletes = 1
  MaxCancels = 0
  MaxManual = 0
  MaxTicks = 2
  MaxFaults = 1
CHECK_DEADLOCK FALSE
SYMMETRY Symmetry
INVARIANTS
  FileMatchesProcess
  ScheduleFollowsConfig
  EveryRunIsRecordedOnce
  JobOutlivesItsRun

SPECIFICATION Spec
CONSTANTS
  c1 = c1
  c2 = c2
  Loop = Loop
  Callers <- MCCallers
  Specs <- MixedSpecs
  Ops = {"SetSpec", "Stop", "RunOnce", "Cancel"}
  Window = 4
  MaxTime = 3
  MaxCalls = 2
CHECK_DEADLOCK FALSE
SYMMETRY Symmetry
INVARIANTS
  OneJobAtATime
  WakeChannelsCloseOnce
  ParkedLoopCanBeWoken
  AdvertisedTickFitsSpec
  StopWaitsForLoop
  EveryTickCountsOnce
PROPERTIES
  PlannedTickStays
  NoJobAfterStop
  ImplementsJobSlot

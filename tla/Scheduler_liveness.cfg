SPECIFICATION FairSpec
CONSTANTS
  c1 = c1
  c2 = c2
  Loop = Loop
  Callers <- MCCallers
  Specs <- LastingSpecs
  Ops = {"SetSpec", "Stop", "RunOnce"}
  Window = 4
  MaxTime = 3
  MaxCalls = 1
CHECK_DEADLOCK FALSE
PROPERTIES
  StopReturns
  AdvertisedTickIsServed

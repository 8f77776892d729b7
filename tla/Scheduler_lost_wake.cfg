SPECIFICATION Spec
CONSTANTS
  c1 = c1
  c2 = c2
  Loop = Loop
  Callers <- OneCaller
  Specs <- IntervalSpecs
  Ops = {"SetSpec"}
  Window = 4
  MaxTime = 3
  MaxCalls = 1
CHECK_DEADLOCK FALSE
INVARIANT ArmedForAdvertisedTick

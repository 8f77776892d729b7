SPECIFICATION Spec
CONSTANTS
  c1 = c1
  r1 = r1
  r2 = r2
  r3 = r3
  h1 = h1
  Missing = Missing
  Empty = Empty
  Garbage = Garbage
  Torn = Torn
  Defaults = Defaults
  Bad = Bad
  Configs <- MCConfigs
  Ids <- MCIds
  Histories <- MCHistories
  Readers <- MCReaders
  Limit = 2
  MaxOps = 2
  MaxFaults = 1
  MaxCrashes = 1
SYMMETRY Symmetry
CHECK_DEADLOCK FALSE
INVARIANTS
  FilesAreWhole
  TempsOnlyFromCrashes
PROPERTIES
  ImplementsAtomicFiles

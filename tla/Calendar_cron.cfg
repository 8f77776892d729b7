SPECIFICATION Spec
CONSTANTS
  Hours = 3
  Minutes = 2
  BaseYear = 2094
  LastYear = 2117
  BaseWeekday = 5
  Window = 1464
  Forward <- MCForward
  Back <- MCBack
  Word = 5000
  Expressions <- MCExpressions
  Starts <- MCStarts
  MaxFirings = 3
CHECK_DEADLOCK FALSE
INVARIANTS
  FiringsAreTheCalendars

SPECIFICATION Spec
CONSTANTS
  ByteMod = 4
  DivPeriod = 3
  Periods <- MCPeriods
  TmaValues = {0, 2, 3}
  MaxBlock = 4
  Deadlines = {1, 3, 6}
  LongestDeadline = 6
  RateChange = FALSE
INVARIANTS
  TypeOK
  TimerOnTime
  SleepBound
PROPERTY
  Wakes

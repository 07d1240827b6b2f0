SPECIFICATION TimerSpec
CONSTANTS
  Second = 3
  MillisMod = 16
  T1 = 7
  Gaps <- MCGaps
  Horizon = 60
INVARIANTS
  NeverLate
  Counted
PROPERTIES
  NotTooEarly

\* Three cycles to a tick, looks every one or two cycles, and three ticks: with
\* a period of one tick, three periods.
CONSTANTS
  CyclesPerTick = 3
  TickInterval = 2
  Alarms = {2}
  Reloads = {0, 1}
  StopVals = {1}
  MaxCycles = 10
SPECIFICATION TimerSpec
CHECK_DEADLOCK FALSE
INVARIANTS
  RtcOK
  NoPeriodSkipped
PROPERTIES
  RtcMonotone
  StopTimerNeverEarly

CONSTANTS
  Nanos = 12
  MaxWord = 31
  MaxFreq = 30
SPECIFICATION ClockSpec
INVARIANTS DeadlineExact ResolutionNearest
PROPERTY NowMonotone
CHECK_DEADLOCK FALSE

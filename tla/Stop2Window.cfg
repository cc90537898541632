SPECIFICATION Spec
CONSTANTS
  Wrap = 34
  LPWrap = 20
  TickUs = 2
  MIN_US = 24
  RAISE_US = 2
  WakeUs = 10
  MAX_TICKS = 9
  WINDOW_TICKS = 5
  WINDOW_MIN_TICKS = 4
  WriteTicks = {1, 4}
  WakeTicks = {0, 3}
  EventTimes = {28}
  Arrivals = {26, 39}
INVARIANTS WindowSleepEnds

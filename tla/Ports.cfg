SPECIFICATION PortsSpec
VIEW View
SYMMETRY Interchangeable
CONSTANTS
  Raw = 32
  Turn = 8
  Periods = {3, 7}
  Event = {e1, e2}
  Delays = {0, 6}
  NbNode = 2
  WakeUs = 3
  LockUs = 1
  MaxLatency = 1
  NULL = NULL
  Node = {n1, n2, n3}
  Sender = {s1, s2}
  Urgent = {s2}
  MaxSize = 2
  CountLimit = 4
  Depth = 2
  Threshold = 1
  MaxReceived = 1
  Wrap = 34
  LPWrap = 18
  TickUs = 2
  MIN_US = 24
  RAISE_US = 2
  StopWakeUs = 10
  MAX_TICKS = 9
  WINDOW_TICKS = 5
  WINDOW_MIN_TICKS = 4
  WriteTicks = {1, 4}
  WakeTicks = {0, 3}
  EventTimes = {28}
  Arrivals = {26, 39}
INVARIANTS ClockCounts ArrivalSeen EventCovered
           NothingStuck ArrivalAhead
PROPERTIES AlarmsMeetRunningClock WholeBuffers ClockKept

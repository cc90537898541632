\* The operations of a run are bounded: then the system stops.
CHECK_DEADLOCK FALSE
SPECIFICATION QueuesSpec
VIEW View
SYMMETRY Interchangeable
CONSTANTS
  MaxLevel = 2
  QueueLength = 2
  MaxIndex = 6
  StartIndex = 5
  MaxCalls = 3
  Items = {a, b, c}
  NULL = NULL
  SIGNAL = SIGNAL
  UNREAD = UNREAD
INVARIANTS DescriptorsSound
PROPERTIES AtomicQueue AtomicCoreQueue

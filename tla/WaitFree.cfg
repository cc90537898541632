\* A writer that writes no more and a reader asleep, or the operations of a
\* run all done: the system may stop.
CHECK_DEADLOCK FALSE
SPECIFICATION WaitFreeSpec
CONSTANTS
  Slot <- MCSlot
  BufferSize = 2
  MaxWritten = 5
  MaxLevel = 2
  QueueLength = 1
  MaxIndex = 5
  StartIndex = 4
  MaxCalls = 3
  Items = {a}
  NULL = NULL
  SIGNAL = SIGNAL
  UNREAD = UNREAD
INVARIANTS NoSharedSlot HeldIntact
PROPERTIES ReadOnceAdvances AtomicRegister AtomicRegister3 WrittenIsRead3 OperationEnds

SPECIFICATION Spec
VIEW LiveState
CONSTANTS
  Periodic <- MCLowPeriodic
  Synchronous <- MCLowSynchronous
  Policies <- MCSimulates
  Period <- MCLowPeriod
  Deadline <- MCLowPeriod
  WCET <- MCLowWCET
  WorkLoad <- MCLowWorkLoad
  AperiodicUtilization = 42
  ShiftTimeLimit = 8
  MaxSpeed = 2
  Ratio <- MCRatio
  MinimalProcessorSpeed = 0
INVARIANTS SameOrder

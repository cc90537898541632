SPECIFICATION VariantsSpec
VIEW View
CONSTRAINT NoneLate
CONSTANTS
  Block = {b1, b2}
  Timings <- MCTimings
  ShiftTimeLimit = 3
  None = None
  MaxLatency = 1
  MaxLateness = 1
  Periodic = {1, 2}
  Synchronous = {3}
  Policies <- MCPolicies
  Period <- MCPeriod
  Deadline <- MCPeriod
  WCET <- MCWCET
  WorkLoad <- MCWorkLoad
  AperiodicUtilization = 64
  MaxSpeed = 2
  Ratio <- MCRatio
  MinimalProcessorSpeed = 0
INVARIANTS DeadlinesMet WorkCounted SimulationCovers
           BlocksKept ArrivalsTrue RequestsAwaited

SPECIFICATION SoftSpec
VIEW View
CONSTANTS
  p1 = p1  p2 = p2  p3 = p3  s1 = s1  Idle = Idle  Null = Null  QHead = QHead
  Periodic = {p1, p2}
  Synchronous = {s1}
  Created <- MCTwo
  Modes = {"EDF", "DM"}
  ShiftTimeLimit = 6
  PeriodHigh <- MCNoTurn
  PeriodLow <- MCThirds
  Deadline <- MCThirds
  WCET <- MCWCET
  M <- MCM12
  K <- MCK3
  StartInstance <- MCFirst
  WorkLoad <- MCWorkLoad
  AperiodicUtilization = 64
  KernelCosts = {TRUE}
  MaxLatency = 1
  MaxLateness = 0
  OverrunStops = FALSE
CONSTRAINT NoStaleStart
INVARIANTS QueueKept ContextsKept TimeRead FirmGuaranteed AdmittedInTime

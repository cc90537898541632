SPECIFICATION HardSpec
VIEW View
CONSTANTS
  p1 = p1  s1 = s1  s2 = s2  e1 = e1  Idle = Idle  None = None
  Periodic = {p1}
  Synchronous = {s1}
  Event = {e1}
  Created <- MCTwoTasks
  EventOf <- MCEventOf
  Mode = "EDF"
  ShiftTimeLimit = 4
  PeriodHigh <- MCOneTurn
  PeriodLow <- MCHalfTurn
  Deadline <- MCDeadline3
  WorkLoad <- MCWorkLoad2
  Signallers = {p1}
  MaxLatency = 1
  MaxLateness = 3
  OverrunStops = FALSE
INVARIANTS TypeOK ArrivalTimesAgree DeadlinesAgree Punctual
           MostUrgentRuns ContextsMatch OnePlace TimesFit MostUrgentUnderDM
PROPERTIES PeriodKept

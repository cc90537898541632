SPECIFICATION Spec
CONSTANTS
  p1 = p1  s1 = s1  s2 = s2  e1 = e1  Idle = Idle  None = None
  Periodic = {p1}
  Synchronous = {s1}
  Event = {e1}
  Created <- MCTwoTasks
  EventOf <- MCEventOf
  Mode = "EDF"
  ShiftTimeLimit = 4
  PeriodHigh <- MCOneTurn
  PeriodLow <- MCHalfTurn
  Deadline <- MCDeadline3
  WorkLoad <- MCWorkLoad2
  Signallers = {p1}
  MaxLatency = 2
  MaxLateness = 3
  OverrunStops = FALSE
PROPERTIES WorkLoadGranted

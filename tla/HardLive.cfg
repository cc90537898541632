SPECIFICATION LiveSpec
CONSTANTS
  p1 = p1  s1 = s1  s2 = s2  e1 = e1  Idle = Idle  None = None
  Periodic = {p1}
  Synchronous = {s1}
  Event = {e1}
  Created <- MCTwoTasks
  EventOf <- MCEventOf
  Mode = "EDF"
  ShiftTimeLimit = 2
  PeriodHigh <- MCOneTurn
  PeriodLow <- MCNoRest
  Deadline <- MCDeadline1
  WorkLoad <- MCWorkLoad1
  Signallers = {p1}
  MaxLatency = 1
  MaxLateness = 1
  OverrunStops = FALSE
  Block = {b1}
PROPERTIES Served

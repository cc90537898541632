------------------------------- MODULE MCPorts -------------------------------
(***************************************************************************)
(* Parts of the ports for model checking, each alone: sys says which.      *)
(* PicoTimer is the timer, the timer events and the gated sleep of the     *)
(* RP2040, PicoUART its UART, Stop2 the timer events and the idle task of  *)
(* the STM32U5.                                                            *)
(***************************************************************************)
EXTENDS PicoTimer, TLC

CONSTANTS
  NULL, Node, Sender, Urgent, MaxSize, CountLimit, Depth, Threshold, MaxReceived,
  Wrap, LPWrap, TickUs, MIN_US, RAISE_US, StopWakeUs, MAX_TICKS, WINDOW_TICKS,
  WINDOW_MIN_TICKS, WriteTicks, WakeTicks, Arrivals, EventTimes

VARIABLES
  sys,
  level, txRaised, txEnabled, rx, rxRaised, pend, free, fifo, current, index, left,
  hpc, causes, spc, held, size, line,
  cnt, cen, ccr, compared, wrapped, event, eventFlag, lp, phase, lpCompare, lpFlag,
  received, pc, next, now, limit, sleepTarget, start, sleepAlarm, until, woken, whole,
  windowOpen, windowEnd, windowArmed, wait, seen, spent, still, lost, missed

UART == INSTANCE PicoUART
Stop == INSTANCE Stop2 WITH
  WakeUs <- StopWakeUs, comparator <- compared, overflow <- wrapped,
  target <- sleepTarget, alarm <- sleepAlarm

ASSUME UART!UARTAssumption /\ Stop!Stop2Assumption

uartVars == <<level, txRaised, txEnabled, rx, rxRaised, pend, free, fifo, current, index,
              left, hpc, causes, spc, held, size, line>>
stopVars ==
  <<cnt, cen, ccr, compared, wrapped, event, eventFlag, lp, phase, lpCompare, lpFlag,
    received, pc, next, now, limit, sleepTarget, start, sleepAlarm, until, woken, whole,
    windowOpen, windowEnd, windowArmed, wait, seen, spent, still, lost, missed>>

PortsInit == /\ sys \in {"timer", "uart", "stop"}
             /\ Init /\ UART!Init /\ Stop!Init

PortsNext ==
  /\ sys' = sys
  /\ \/ sys = "timer" /\ Next /\ UNCHANGED <<uartVars, stopVars>>
     \/ sys = "uart" /\ UART!Next /\ UNCHANGED <<picoVars, stopVars>>
     \/ sys = "stop" /\ Stop!Next /\ UNCHANGED <<picoVars, uartVars>>

PortsSpec == PortsInit /\ [][PortsNext]_<<sys, picoVars, uartVars, stopVars>>

(* The UART's nodes are alike.                                             *)
Interchangeable == Permutations(Node)
-----------------------------------------------------------------------------
(***************************************************************************)
(* What tells two states apart: of the part that runs, its variables but   *)
(* for locals whose life is over; and of a clock, how far off it is from   *)
(* the times that are kept, for none of its values is special.             *)
(***************************************************************************)
Off(x) == (x - raw) % Raw
Armed(n, time) == IF n \in armed THEN <<Off(time[n])>> ELSE <<>>

TimerView ==
  <<Off(origin) % Turn, [n \in 0 .. 3 |-> Armed(n, alarm)],
    [n \in 0 .. 2 |-> Armed(n, alarmTime)],
    armed, nvic, pll, flags, kpc,
    IF kpc = "check" THEN Off(alarmTime[0]) ELSE 0,
    IF kpc = "arm" THEN Off(kraw) ELSE 0, IF kpc = "serve" THEN ktime ELSE 0,
    target, togo, [i \in DOMAIN queue |-> <<queue[i].event, Off(queue[i].time)>>],
    epc, tpc, IF tpc = "plan" THEN Off(snow) ELSE 0, busyFor>>

LPOff(x) == (x - lp) % LPWrap
At(x, set) == IF pc \in set THEN x ELSE 0
Alarmed == {"writeAlarm", "stopEdge", "stop", "hse"}
Woken == {"hse", "writeSlow", "checkSlow", "slow", "raise"}
Stopped == {"stop", "restart", "startEdge"} \cup Woken
Stopping == {"alarm", "writeAlarm", "stopEdge"} \cup Stopped
FlagDead ==
  /\ ~windowArmed
  /\ pc \in {"idle", "arm", "armed", "sleep", "alarm", "hse", "raise", "restart", "startEdge"}
MissedLives == windowArmed /\ ~lpFlag /\ LPOff(lpCompare) \notin 1 .. WINDOW_TICKS

StopView ==
  <<cnt, cen, ccr, compared, wrapped, event, eventFlag, phase, received, pc, wait, spent,
    LPOff(lpCompare), ~FlagDead /\ lpFlag,
    At(next, {"arm", "armed"}), At(now, {"alarm"} \cup Stopped),
    At(limit, Stopping), At(sleepTarget, Stopping),
    At(LPOff(start), Stopped), At(LPOff(sleepAlarm), Alarmed),
    At(LPOff(until), {"writeSlow", "checkSlow"}),
    pc \in Woken /\ woken, pc \in Alarmed /\ whole,
    windowOpen, windowArmed, MissedLives /\ missed, IF windowOpen THEN LPOff(windowEnd) ELSE 0,
    At(LPOff(seen), {"stopEdge", "startEdge"}), At(still, Stopped)>>

View == <<sys, IF sys = "timer" THEN TimerView
               ELSE IF sys = "uart" THEN uartVars ELSE StopView>>
-----------------------------------------------------------------------------
(* RP2040, Escapement_UART.c: the line carries whole buffers, one after    *)
(* the other.                                                              *)
WholeBuffers == UART!WholeBuffers

(* RP2040, Escapement_UART.c: what is queued for the port is sent, and no  *)
(* node is lost or given to two; every variable has its type.              *)
NothingStuck == sys = "uart" => UART!TypeOK /\ UART!NothingStuck /\ UART!NodesKept

(* STM32U5, Escapement_Stop2.c: no arrival or event is slept past          *)
(* unnoticed, and LPTIM1 ends every sleep it is to end, but for the window *)
(* of WindowSleepEnds; every variable has its type.                        *)
ArrivalAhead == sys = "stop" => Stop!TypeOK /\ Stop!ArrivalAhead /\ Stop!CompareAhead

(* STM32U5, Escapement_Stop2.c: the kernel's clock loses no time asleep.   *)
ClockKept == Stop!ClockKept
=============================================================================

------------------------------ MODULE PicoTimer ------------------------------
(***************************************************************************)
(* The timer of an RP2040 under the kernel, the timer events and the sleep *)
(* of the idle task.  One counter runs freely; an alarm fires when the     *)
(* counter equals it, never on a time already past.  The kernel takes      *)
(* alarm 0 for the next arrival and alarm 1 for the end of a turn, the     *)
(* timer events take alarm 2, the idle task alarm 3 to end a sleep for     *)
(* which the PLL is stopped.                                               *)
(*                                                                         *)
(* A step is the code between two accesses to the counter or the alarms;   *)
(* ticks and, unless masked, interrupts come in between.  The scheduler    *)
(* above _OSSetTimer is the loop that serves one task's arrivals.          *)
(***************************************************************************)
EXTENDS Integers, Sequences

CONSTANTS
  Raw,          \* the counter's values, 2^32
  Turn,         \* 2^30, TIME_MASK + 1
  Periods,      \* what the kernel may add to an arrival time
  Event, Delays,  \* of the timer events
  NbNode,       \* nodes of the event manager
  WakeUs,       \* WAKE_US
  LockUs,       \* ticks PLL_SYS takes to lock
  MaxLatency    \* bound: ticks from an interrupt to the end of what it asked for

ASSUME PicoAssumption ==
  /\ Turn \in Nat \ {0} /\ Raw \in {k * Turn : k \in 4 .. 8}
  /\ Periods \subseteq 1 .. Raw \div 2 - Turn - 1
  /\ Delays \subseteq 0 .. Raw \div 2 - MaxLatency - 1
  /\ NbNode \in Nat \ {0}
  /\ MaxLatency \in Nat /\ LockUs \in Nat /\ WakeUs \in Nat /\ LockUs + MaxLatency < WakeUs
  /\ 3 * MaxLatency + LockUs < Turn

VARIABLES
  \* The hardware.
  raw,          \* TIMER_TIMERAWL
  alarm, armed, \* ALARMn, TIMER_ARMED
  nvic,         \* the alarms whose interrupt is pending
  pll,          \* PLL_SYS runs
  \* The kernel's timer.
  origin, alarmTime, overflow, comparator,
  softPending, kpc, kraw, ktime, target,
  \* The timer events: the queue, and where the handler is.
  queue, epc,
  \* Thread level: the idle task, or a task that calls.
  tpc, snow,
  \* History: ticks until the arrival; ticks the current work takes.
  togo, busyFor

hardware == <<alarm, armed, nvic>>
flags == <<overflow, comparator, softPending>>
kernel == <<kpc, kraw, ktime, target, togo>>
events == <<queue, epc>>
thread == <<tpc, snow, pll>>
picoVars == <<raw, hardware, origin, alarmTime, flags, kernel, events, thread, busyFor>>

STOP_MIN_US == 2 * WakeUs

\* (INT32)(a - b)
Signed(a, b) == LET d == (a - b) % Raw IN IF d >= Raw \div 2 THEN d - Raw ELSE d

\* _OSGetActualTime, at the counter's value r.
ActualTime(r) == (r - origin) % Turn

\* ArmOverflowAlarm: the next boundary of a turn.
OverflowAlarm(r, o) == (r + Turn - ((r - o) % Turn)) % Raw

Init ==
  /\ raw = Raw - 2 /\ alarm = [n \in 0 .. 3 |-> 0] /\ armed = {} /\ nvic = {}
  /\ pll = TRUE
  /\ origin = 0 /\ alarmTime = [n \in 0 .. 2 |-> 0]
  /\ overflow = FALSE /\ comparator = FALSE /\ softPending = FALSE
  /\ kpc = "out" /\ kraw = 0 /\ ktime = 0 /\ target \in {0} \cup Periods
  /\ queue = <<>> /\ epc = "out" /\ tpc = "boot" /\ snow = 0
  /\ togo = target /\ busyFor = 0

(***************************************************************************)
(* Levels.                                                                 *)
(***************************************************************************)
Booting == tpc \in {"boot", "origin"}
Masked == tpc # "idle" \/ epc \in {"arm", "check"}
Requested == nvic \cap {0, 1, 2} # {}
KernelRuns == ~Masked /\ epc = "out" /\ ~Requested
ThreadRuns == epc = "out" /\ ~Requested /\ kpc = "out" /\ ~softPending

Asleep == tpc \in {"short", "stop", "rest"}
Busy == \/ nvic # {}
        \/ epc # "out" \/ kpc # "out" \/ softPending
        \/ ~Asleep /\ tpc # "idle"

Fires == {n \in armed : alarm[n] = (raw + 1) % Raw}

Tick ==
  /\ Busy => busyFor < IF tpc = "raise" THEN LockUs ELSE MaxLatency
  /\ raw' = (raw + 1) % Raw
  /\ armed' = armed \ Fires /\ nvic' = nvic \cup Fires
  /\ busyFor' = IF Busy THEN busyFor + 1 ELSE 0
  /\ togo' = IF Booting THEN togo ELSE togo - 1
  /\ UNCHANGED <<alarm, origin, alarmTime, flags, kpc, kraw, ktime, target,
                 events, thread>>

(***************************************************************************)
(* The kernel's timer.                                                     *)
(***************************************************************************)

\* _OSStartTimer, called by the idle task, masked: the origin, then the
\* alarm at the end of the turn, and a comparator interrupt forced.
StartTimer ==
  /\ tpc = "boot"
  /\ origin' = raw
  /\ tpc' = "origin"
  /\ UNCHANGED <<raw, hardware, alarmTime, flags, kernel, events, snow, pll, busyFor>>

\* Mutant of ArmOverflowAlarm: a turn from now.
ArmOverflowFromNow ==
  /\ alarmTime' = [alarmTime EXCEPT ![1] = (raw + Turn) % Raw]
  /\ alarm' = [alarm EXCEPT ![1] = alarmTime'[1]]

ArmOverflowAlarm ==
  /\ alarmTime' = [alarmTime EXCEPT ![1] = OverflowAlarm(raw, origin)]
  /\ alarm' = [alarm EXCEPT ![1] = alarmTime'[1]]

StartAlarms ==
  /\ tpc = "origin"
  /\ ArmOverflowAlarm
  /\ armed' = armed \cup {1} /\ nvic' = nvic \cup {0}
  /\ togo' = target - ActualTime(raw)
  /\ tpc' = "idle"
  /\ UNCHANGED <<raw, origin, flags, kpc, kraw, ktime, target, events, snow, pll,
                 busyFor>>

\* An alarm's handler may come in during that of the timer events.
Alarm0Handler ==
  /\ 0 \in nvic /\ ~Masked
  /\ nvic' = nvic \ {0}
  /\ comparator' = TRUE /\ softPending' = TRUE
  /\ UNCHANGED <<raw, alarm, armed, origin, alarmTime, overflow, kernel, events,
                 thread, busyFor>>

Alarm1Handler ==
  /\ 1 \in nvic /\ ~Masked
  /\ nvic' = nvic \ {1}
  /\ ArmOverflowAlarm /\ armed' = armed \cup {1}
  /\ overflow' = TRUE /\ softPending' = TRUE
  /\ UNCHANGED <<raw, origin, comparator, kernel, events, thread, busyFor>>

Kernel(from) == kpc = from /\ KernelRuns

EnterScheduler ==
  /\ Kernel("out") /\ softPending /\ softPending' = FALSE
  /\ kpc' = "overflow"
  /\ UNCHANGED <<raw, hardware, origin, alarmTime, overflow, comparator, kraw,
                 ktime, target, togo, events, thread, busyFor>>

\* _OSTimerIsOverflow, and the arrival moved back by a turn.
TimerIsOverflow ==
  /\ Kernel("overflow")
  /\ overflow' = FALSE
  /\ target' = IF overflow THEN target - Turn ELSE target
  /\ kpc' = "time"
  /\ UNCHANGED <<raw, hardware, origin, alarmTime, comparator, softPending, kraw,
                 ktime, togo, events, thread, busyFor>>

GetActualTime ==
  /\ Kernel("time")
  /\ comparator' = FALSE /\ ktime' = ActualTime(raw)
  /\ kpc' = "serve"
  /\ UNCHANGED <<raw, hardware, origin, alarmTime, overflow, softPending, kraw,
                 target, togo, events, thread, busyFor>>

ServeArrival(p) ==
  /\ Kernel("serve") /\ target <= ktime
  /\ target' = target + p /\ togo' = togo + p
  /\ UNCHANGED <<raw, hardware, origin, alarmTime, flags, kpc, kraw, ktime, events,
                 thread, busyFor>>

\* An arrival in a later turn is armed for an event-driven task only.
NextArrival ==
  /\ Kernel("serve") /\ target > ktime
  /\ kpc' \in {"set"} \cup {k \in {"clear"} : target >= Turn}
  /\ UNCHANGED <<raw, hardware, origin, alarmTime, flags, kraw, ktime, target, togo,
                 events, thread, busyFor>>

\* _OSSetTimer: the counter is read, the alarm armed, the counter read again.
ReadCounter ==
  /\ Kernel("set")
  /\ kraw' = raw
  /\ kpc' = IF target > ActualTime(raw) THEN "arm" ELSE "disarm"
  /\ UNCHANGED <<raw, hardware, origin, alarmTime, flags, ktime, target, togo,
                 events, thread, busyFor>>

ArmAlarm0 ==
  /\ Kernel("arm")
  /\ alarmTime' = [alarmTime EXCEPT ![0] = (kraw + target - ActualTime(kraw)) % Raw]
  /\ alarm' = [alarm EXCEPT ![0] = alarmTime'[0]]
  /\ armed' = armed \cup {0}
  /\ kpc' = "check"
  /\ UNCHANGED <<raw, nvic, origin, flags, kraw, ktime, target, togo, events, thread,
                 busyFor>>

\* Mutant of StillAhead: the counter is not read again.
AheadWhenRead == TRUE

StillAhead == Signed(alarmTime[0], raw) > 0

CheckAlarm0 ==
  /\ Kernel("check")
  /\ kpc' = IF StillAhead THEN "clear" ELSE "disarm"
  /\ UNCHANGED <<raw, hardware, origin, alarmTime, flags, kraw, ktime, target, togo,
                 events, thread, busyFor>>

\* FALSE returned: the scheduler reads the time again.  The NVIC may hold
\* the interrupt already.
DisarmAlarm0 ==
  /\ Kernel("disarm")
  /\ armed' = armed \ {0} /\ nvic' \in {nvic, nvic \ {0}}
  /\ kpc' = "time"
  /\ UNCHANGED <<raw, alarm, origin, alarmTime, flags, kraw, ktime, target, togo,
                 events, thread, busyFor>>

ClearSoftTimer ==
  /\ Kernel("clear") /\ softPending' = FALSE /\ kpc' = "flags"
  /\ UNCHANGED <<raw, hardware, origin, alarmTime, overflow, comparator, kraw, ktime,
                 target, togo, events, thread, busyFor>>

TestFlags ==
  /\ Kernel("flags") /\ kpc' = IF overflow \/ comparator THEN "overflow" ELSE "out"
  /\ UNCHANGED <<raw, hardware, origin, alarmTime, flags, kraw, ktime, target, togo,
                 events, thread, busyFor>>

(***************************************************************************)
(* The timer events.                                                       *)
(***************************************************************************)

Due(node) == Signed(node.time, raw) <= 0

\* OSScheduleTimerEvent, masked: behind the events due at the same time.
ScheduleTimerEvent(e, d) ==
  LET node == [event |-> e, time |-> (raw + d) % Raw]
      n == CHOOSE i \in 0 .. Len(queue) :
             /\ i = Len(queue) \/ Signed(queue[i + 1].time, node.time) > 0
             /\ \A j \in 1 .. i : Signed(queue[j].time, node.time) <= 0
  IN  /\ tpc = "idle" /\ ThreadRuns /\ Len(queue) < NbNode
      /\ queue' = SubSeq(queue, 1, n) \o <<node>> \o SubSeq(queue, n + 1, Len(queue))
      /\ tpc' = IF n = 0 THEN "arm" ELSE "idle"
      /\ UNCHANGED <<raw, hardware, origin, alarmTime, flags, kernel, epc, snow, pll,
                     busyFor>>

\* OSUnScheduleTimerEvent: the first occurrence of the event; the alarm stays.
UnScheduleTimerEvent(e) ==
  /\ tpc = "idle" /\ ThreadRuns
  /\ \E i \in DOMAIN queue :
       /\ queue[i].event = e /\ \A j \in 1 .. i - 1 : queue[j].event # e
       /\ queue' = SubSeq(queue, 1, i - 1) \o SubSeq(queue, i + 1, Len(queue))
  /\ UNCHANGED <<raw, hardware, origin, alarmTime, flags, kernel, epc, thread, busyFor>>

\* ArmAlarm, called masked by a task (tpc) or by the handler (epc).
ArmsAt(step) == tpc = step \/ epc = step
ArmsNext(step) == IF epc = "out" THEN tpc' = step /\ UNCHANGED epc
                                 ELSE epc' = step /\ UNCHANGED tpc

ArmHead ==
  /\ ArmsAt("arm")
  /\ alarmTime' = [alarmTime EXCEPT ![2] = queue[1].time]
  /\ alarm' = [alarm EXCEPT ![2] = queue[1].time] /\ armed' = armed \cup {2}
  /\ ArmsNext("check")
  /\ UNCHANGED <<raw, nvic, origin, flags, kernel, queue, snow, pll, busyFor>>

\* Mutant of ForceIfDue: nothing is looked at again.
NeverForce == UNCHANGED <<armed, nvic>>

\* An event due by now is handed to the handler, its alarm disarmed.
ForceIfDue ==
  IF Due(queue[1]) THEN armed' = armed \ {2} /\ nvic' = nvic \cup {2}
  ELSE UNCHANGED <<armed, nvic>>

CheckHead ==
  /\ ArmsAt("check")
  /\ ForceIfDue
  /\ IF epc = "out" THEN tpc' = "idle" /\ UNCHANGED epc
                    ELSE epc' = "out" /\ UNCHANGED tpc
  /\ UNCHANGED <<raw, alarm, origin, alarmTime, flags, kernel, queue, snow, pll, busyFor>>

TimerIntHandler ==
  /\ 2 \in nvic /\ ~Masked /\ epc = "out"
  /\ nvic' = nvic \ {2} /\ epc' = "test"
  /\ UNCHANGED <<raw, alarm, armed, origin, alarmTime, flags, kernel, queue, thread,
                 busyFor>>

\* One round of its loop: an event due is signalled; else the head is armed.
TestHead ==
  /\ epc = "test"
  /\ IF queue # <<>> /\ Due(queue[1])
     THEN queue' = Tail(queue) /\ UNCHANGED epc
     ELSE epc' = (IF queue = <<>> THEN "out" ELSE "arm") /\ UNCHANGED queue
  /\ UNCHANGED <<raw, hardware, origin, alarmTime, flags, kernel, thread, busyFor>>

(***************************************************************************)
(* GatedSleep: one sleep of the idle task, masked.                         *)
(***************************************************************************)

\* Mutant of FirstAlarm: the alarm of the timer events is forgotten.
FirstOfKernel ==
  LET left == {Signed(alarmTime[n], snow) : n \in armed \cap {0, 1}}
  IN  CHOOSE x \in left \cup {Raw \div 2 - 1} : \A y \in left : x <= y

FirstAlarm ==
  LET left == {Signed(alarmTime[n], snow) : n \in armed \cap {0, 1, 2}}
  IN  CHOOSE x \in left \cup {Raw \div 2 - 1} : \A y \in left : x <= y

GatedSleep ==
  /\ tpc = "idle" /\ ThreadRuns
  /\ snow' = raw /\ tpc' = "plan"
  /\ UNCHANGED <<raw, hardware, origin, alarmTime, flags, kernel, events, pll, busyFor>>

\* The sleep is short, or PLL_SYS stops for it and alarm 3 ends it early.
PlanSleep ==
  /\ tpc = "plan"
  /\ IF FirstAlarm < STOP_MIN_US
     THEN tpc' = "short" /\ UNCHANGED <<hardware, pll>>
     ELSE /\ alarm' = [alarm EXCEPT ![3] = (snow + FirstAlarm - WakeUs) % Raw]
          /\ armed' = armed \cup {3} /\ nvic' = nvic \ {3}
          /\ tpc' = "stop" /\ pll' = FALSE
  /\ UNCHANGED <<raw, origin, alarmTime, flags, kernel, events, snow, busyFor>>

\* An alarm's interrupt ends the WFI, or that of another device.
WakeUp ==
  /\ \/ tpc \in {"short", "rest"} /\ tpc' = "idle"
     \/ tpc = "stop" /\ tpc' = "raise"
  /\ busyFor' = 0
  /\ UNCHANGED <<raw, hardware, origin, alarmTime, flags, kernel, events, snow, pll>>

\* PLL_SYS is locked; the rest up to the alarm is slept with it running.
RaiseSystemClock ==
  /\ tpc = "raise" /\ tpc' = "rest"
  /\ pll' = TRUE
  /\ armed' = armed \ {3} /\ nvic' = nvic \ {3} /\ busyFor' = 0
  /\ UNCHANGED <<raw, alarm, origin, alarmTime, flags, kernel, events, snow>>

Next ==
  \/ Tick \/ StartTimer \/ StartAlarms \/ Alarm0Handler \/ Alarm1Handler
  \/ EnterScheduler \/ TimerIsOverflow \/ GetActualTime
  \/ \E p \in Periods : ServeArrival(p)
  \/ NextArrival \/ ReadCounter \/ ArmAlarm0 \/ CheckAlarm0 \/ DisarmAlarm0
  \/ ClearSoftTimer \/ TestFlags
  \/ \E e \in Event : UnScheduleTimerEvent(e)
                      \/ \E d \in Delays : ScheduleTimerEvent(e, d)
  \/ ArmHead \/ CheckHead \/ TimerIntHandler \/ TestHead
  \/ GatedSleep \/ PlanSleep \/ WakeUp \/ RaiseSystemClock

Spec == Init /\ [][Next]_picoVars
-----------------------------------------------------------------------------
\* Every variable has its type.
TypeOK ==
  /\ raw \in 0 .. Raw - 1 /\ origin \in 0 .. Raw - 1 /\ kraw \in 0 .. Raw - 1
  /\ snow \in 0 .. Raw - 1 /\ ktime \in 0 .. Turn - 1
  /\ alarm \in [0 .. 3 -> 0 .. Raw - 1] /\ alarmTime \in [0 .. 2 -> 0 .. Raw - 1]
  /\ armed \subseteq 0 .. 3 /\ nvic \subseteq 0 .. 3 /\ pll \in BOOLEAN
  /\ overflow \in BOOLEAN /\ comparator \in BOOLEAN /\ softPending \in BOOLEAN
  /\ target \in Int /\ togo \in Int /\ busyFor \in Nat
  /\ queue \in Seq([event : Event, time : 0 .. Raw - 1]) /\ Len(queue) <= NbNode

(* Each end of a turn is counted once, however late: the time the kernel   *)
(* keeps for the arrival is the true one, but for a turn that the alarm or *)
(* its handler has announced and the scheduler has not yet taken.          *)
TurnsCounted ==
  Booting \/ togo = target - ActualTime(raw)
                    - IF overflow \/ 1 \in nvic THEN Turn ELSE 0

(* Every variable has its type, and each turn of the counter is counted    *)
(* once.                                                                   *)
ClockCounts == TypeOK /\ TurnsCounted

(* An arrival is never left to an alarm that the counter has passed: once  *)
(* it is due, the scheduler runs or its interrupt is on the way.           *)
ArrivalSeen ==
  togo <= 0 => Booting \/ kpc # "out" \/ softPending \/ nvic \cap {0, 1} # {}

(* A timer event is never left without an alarm: unless the handler runs   *)
(* or is asked for, alarm 2 comes, and not after the first event is due.   *)
EventCovered ==
  queue # <<>> /\ epc = "out" /\ tpc \notin {"arm", "check"} /\ 2 \notin nvic =>
    /\ 2 \in armed
    /\ Signed(alarm[2], raw) > 0
    /\ Signed(alarm[2], raw) <= Signed(queue[1].time, raw)

(* No alarm of the kernel or of the timer events fires while PLL_SYS is    *)
(* stopped for the idle task's sleep, or locking.                          *)
AlarmsMeetRunningClock ==
  [][(nvic' \ nvic) \cap {0, 1, 2} # {} => pll]_picoVars
=============================================================================

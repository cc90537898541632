----------------------------- MODULE HardKernel -----------------------------
(***************************************************************************)
(* The hard real-time kernel on a Cortex-M: tasks, the ready and arrival   *)
(* queues, the events of event-driven tasks, the kernel's clock and its    *)
(* turns of 2^30 ticks, the soft timer interrupt that runs the scheduler   *)
(* and the context switch below it, under EDF and under DM.                *)
(*                                                                         *)
(* Three levels share the processor: tasks, the context switch (PendSV)    *)
(* above them and the soft timer interrupt (SysTick) above both.  Device   *)
(* interrupts come above all three; their handlers run at once and are one *)
(* action each.  One action of a task, of the switch or of the scheduler   *)
(* is the code between two points where a higher level may come in and     *)
(* tell the difference.  Interrupts masked make one action of a sequence.  *)
(***************************************************************************)
EXTENDS Integers, Sequences, FiniteSets

CONSTANTS
  Periodic,        \* the tasks made by OSCreateTask
  Synchronous,     \* the event-driven tasks, made by OSCreateSynchronousTask
  Created,         \* all of them, in order of creation
  Idle,            \* the idle task, the tail of both queues
  None,            \* no task
  Event,           \* the event descriptors
  EventOf,         \* the event of each event-driven task
  Mode,            \* SCHEDULER_REAL_TIME_MODE: "EDF" or "DM"
  ShiftTimeLimit,  \* 2^30 in the code: the ticks of a turn of the clock
  PeriodHigh,      \* of a periodic task: the full turns of its period
  PeriodLow,       \* and the ticks that remain
  Deadline,        \* of a periodic task
  WorkLoad,        \* of an event-driven task (PeriodLow under DM)
  Signallers,      \* the tasks whose code signals events
  MaxLatency,      \* bound: ticks the scheduler takes from its interrupt on
  MaxLateness,     \* bound: ticks an instance ends after its deadline
  OverrunStops     \* there is no overrun hook, or it does not continue

Task == Periodic \cup Synchronous
Period(t) == PeriodHigh[t] * ShiftTimeLimit + PeriodLow[t]

ASSUME TaskAssumption ==
  /\ Periodic \cap Synchronous = {}
  /\ Idle \notin Task /\ None \notin Task /\ None # Idle
  /\ Created \in Seq(Task)
  /\ Signallers \subseteq Task
  /\ EventOf \in [Synchronous -> Event]
  /\ Mode \in {"EDF", "DM"}
  /\ OverrunStops \in BOOLEAN

ASSUME CreatedAssumption ==
  \A t \in Task : \E i \in DOMAIN Created : Created[i] = t

(* ValidTiming and the checks of OSCreateSynchronousTask; a pass of the    *)
(* scheduler ends within a turn of the clock.                              *)
ASSUME TimingAssumption ==
  /\ ShiftTimeLimit \in Nat \ {0}
  /\ MaxLatency \in 1 .. ShiftTimeLimit - 1 /\ MaxLateness \in Nat
  /\ PeriodHigh \in [Periodic -> Nat]
  /\ PeriodLow \in [Periodic -> 0 .. ShiftTimeLimit - 1]
  /\ Deadline \in [Periodic -> 1 .. ShiftTimeLimit - 1]
  /\ \A t \in Periodic : PeriodHigh[t] > 0 \/ Deadline[t] <= PeriodLow[t]
  /\ WorkLoad \in [Synchronous -> 1 .. ShiftTimeLimit - 1]

VARIABLES
  \* The TCBs and ETCBs.
  taskState,       \* TaskState of each task: "init", "running" or "zombie"
  high, low,       \* NextArrivalTimeHigh, NextArrivalTimeLow
  nextDeadline,    \* NextDeadline
  serverDeadline,  \* SynchronousTaskDeadlines
  \* The queues, without their sentinels.
  readyQ, arrivalQ,
  reschedule,      \* RescheduleSynchronousTaskList, the last pushed first
  waiting,         \* the tasks suspended on each event
  signaled,        \* each event's queue holds a SIGNAL
  carried,         \* the task a signalling task has dequeued, not yet pushed
  \* The processor.
  active,          \* _OSActiveTask
  noSave,          \* _OSNoSaveContext
  cur,             \* the task the registers and the top of the stack are of
  saved,           \* the preempted contexts below it, the last one first
  tpc,             \* where each task's code is
  swap, r1,        \* where the context switch is, and its register R1
  soft,            \* where the scheduler is
  currentTime,     \* its local variable
  pendSwap, pendSoft,
  \* The timer.
  booted,          \* the idle task has started it
  now,             \* what _OSGetActualTime returns
  alarm,           \* ticks until the comparator matches, 0 when not armed
  overflowFlag, comparatorFlag,
  \* History: true times, in ticks from now, that no turn of the clock moves.
  due,             \* the next release of a periodic task
  left,            \* the deadline of a periodic task's instance
  rest,            \* the end of the period of an event-driven task's instance
  latency          \* ticks since the scheduler was asked for

tcb == <<taskState, high, low, nextDeadline, serverDeadline>>
queues == <<readyQ, arrivalQ>>
events == <<waiting, signaled, carried>>
cpu == <<active, noSave, cur, saved, tpc, swap, r1>>
handler == <<soft, currentTime>>
timer == <<booted, now, alarm, overflowFlag, comparatorFlag>>
history == <<due, left, rest, latency>>
vars == <<tcb, queues, reschedule, events, cpu, handler, pendSwap, pendSoft,
          timer, history>>

(***************************************************************************)
(* The queues.                                                             *)
(***************************************************************************)

InQueue(t, q) == \E i \in DOMAIN q : q[i] = t

\* The task a queue begins with, the idle task being the tail.
Top(q) == IF q = <<>> THEN Idle ELSE q[1]

\* What t's link leads to.
After(t, q) ==
  IF InQueue(t, q)
  THEN SubSeq(q, (CHOOSE i \in DOMAIN q : q[i] = t) + 1, Len(q))
  ELSE <<>>

\* InsertQueue: t goes before the first task of q that it precedes, or last.
InsertQueue(t, q, precedes) ==
  LET n == CHOOSE i \in 1 .. Len(q) + 1 :
             /\ i = Len(q) + 1 \/ precedes[q[i]]
             /\ \A j \in 1 .. i - 1 : ~precedes[q[j]]
  IN  SubSeq(q, 1, n - 1) \o <<t>> \o SubSeq(q, n, Len(q))

CreatedAt(t) == CHOOSE i \in DOMAIN Created : Created[i] = t

\* GetTaskPriority: under DM the shortest deadline, then the first created,
\* comes first.
Term(t) == IF t \in Periodic THEN Deadline[t] ELSE WorkLoad[t]
HasPriority(t, u) ==
  \/ Term(t) < Term(u)
  \/ Term(t) = Term(u) /\ CreatedAt(t) < CreatedAt(u)

\* Mutant of ReadyQueueInsertTestKey: the deadlines order the queue under DM.
ReadyTestKeyByDeadline(t, nd) == [u \in Task |-> nd[t] <= nd[u]]

\* Mutant of ReadyQueueInsertTestKey: the priorities order it under EDF too.
ReadyTestKeyByPriority(t, nd) == [u \in Task |-> HasPriority(t, u)]

\* The tasks that t goes before in the ready queue, nd being the deadlines.
ReadyQueueInsertTestKey(t, nd) ==
  [u \in Task |-> IF Mode = "EDF" THEN nd[t] <= nd[u] ELSE HasPriority(t, u)]

ReadyQueueInsert(t, nd) ==
  InsertQueue(t, readyQ, ReadyQueueInsertTestKey(t, nd))

\* The turns before an arrival and the rest: an event-driven task keeps one
\* time, which may lie beyond the turn.
ArrivalHigh(t, h, l) ==
  IF t \in Periodic THEN h[t] ELSE IF l[t] >= ShiftTimeLimit THEN 1 ELSE 0
ArrivalLow(t, l) ==
  IF t \in Synchronous /\ l[t] >= ShiftTimeLimit THEN l[t] - ShiftTimeLimit
                                                 ELSE l[t]

ArrivalQueueInsertTestKey(t, h, l) ==
  [u \in Task |->
     \/ ArrivalHigh(t, h, l) < ArrivalHigh(u, h, l)
     \/ /\ ArrivalHigh(t, h, l) = ArrivalHigh(u, h, l)
        /\ ArrivalLow(t, l) <= ArrivalLow(u, l)]

\* q with t inserted, h and l being the arrival times.
ArrivalQueueInsert(t, q, h, l) ==
  InsertQueue(t, q, ArrivalQueueInsertTestKey(t, h, l))

\* Every sequence of all the tasks of S, once each, in an order.
Arrangements(S, Precedes(_, _)) ==
  {q \in UNION {[1 .. n -> S] : n \in 0 .. Len(Created)} :
     /\ \A t \in S : InQueue(t, q)
     /\ \A i, j \in DOMAIN q : i < j => Precedes(q[i], q[j])}

LastCreated(t, u) == CreatedAt(t) > CreatedAt(u)

\* OSCreateTask under DM sorts by deadline; under EDF all tasks arrive at 0.
\* A task goes before those created before it with its key.
FirstArrivals ==
  LET Key(t) == IF Mode = "DM" THEN Deadline[t] ELSE 0
      Precedes(t, u) == \/ Key(t) < Key(u)
                        \/ Key(t) = Key(u) /\ LastCreated(t, u)
  IN  Arrangements(Periodic, Precedes)

\* OSStartMultitasking suspends every event-driven task, from the last created.
FirstWaiting ==
  {w \in [Event -> UNION {Arrangements(S, LastCreated) : S \in SUBSET Synchronous}] :
     \A e \in Event : \A s \in Synchronous : InQueue(s, w[e]) <=> EventOf[s] = e}

Init ==
  /\ taskState = [t \in Task \cup {Idle} |-> IF t = Idle THEN "init" ELSE "zombie"]
  /\ high = [t \in Periodic |-> 0]
  /\ low = [t \in Task |-> 0]
  /\ nextDeadline = [t \in Task |-> 0]
  /\ serverDeadline = 0
  /\ readyQ = <<>> /\ reschedule = <<>>
  /\ arrivalQ \in FirstArrivals
  /\ waiting \in FirstWaiting
  /\ signaled = [e \in Event |-> FALSE]
  /\ carried = [t \in Task |-> None]
  /\ active = Idle /\ noSave = TRUE /\ cur = None /\ saved = <<>>
  /\ tpc = [t \in Task \cup {Idle} |-> "run"]
  /\ swap = "out" /\ r1 = None
  /\ soft = "out" /\ currentTime = 0
  /\ pendSwap = TRUE /\ pendSoft = FALSE
  /\ booted = FALSE /\ now = 0 /\ alarm = 0
  /\ overflowFlag = FALSE /\ comparatorFlag = FALSE
  /\ due = [t \in Periodic |-> 0]
  /\ left = [t \in Periodic |-> 0]
  /\ rest = [t \in Synchronous |-> 0]
  /\ latency = 0

(***************************************************************************)
(* Tasks.  A task's code runs when nothing above it does or is pending.    *)
(***************************************************************************)

Runs(t) ==
  /\ cur = t
  /\ soft = "out" /\ swap = "out"
  /\ ~pendSoft /\ ~pendSwap

At(t, step) == Runs(t) /\ tpc[t] = step
Goto(t, step) == tpc' = [tpc EXCEPT ![t] = step]

(* The first run of IdleTask: interrupts masked, it turns signalling to    *)
(* normal and starts the timer, which forces a first comparator interrupt, *)
(* taken as soon as interrupts are enabled.  It then sleeps for ever.      *)
IdleTask ==
  /\ At(Idle, "run")
  /\ booted' = TRUE /\ now' = 0
  /\ comparatorFlag' = TRUE /\ pendSoft' = TRUE
  /\ Goto(Idle, "sleep")
  /\ UNCHANGED <<tcb, queues, reschedule, events, active, noSave, cur, saved,
                 swap, r1, handler, pendSwap, alarm, overflowFlag, history>>

(* OSEndTask, a step at a time: the flag of the zombie, that its context is *)
(* not to be saved, its link out of the ready queue, the next task, PendSV. *)
EndTaskZombie(t) ==
  /\ t \in Periodic /\ At(t, "run")
  /\ taskState' = [taskState EXCEPT ![active] = "zombie"]
  /\ Goto(t, "nosave")
  /\ UNCHANGED <<high, low, nextDeadline, serverDeadline, queues, reschedule,
                 events, active, noSave, cur, saved, swap, r1, handler,
                 pendSwap, pendSoft, timer, history>>

EndTaskNoSave(t) ==
  /\ At(t, "nosave")
  /\ noSave' = TRUE
  /\ Goto(t, "unlink")
  /\ UNCHANGED <<tcb, queues, reschedule, events, active, cur, saved, swap, r1,
                 handler, pendSwap, pendSoft, timer, history>>

(* Mutants of EndTaskZombie and EndTaskNoSave: the flag is stored first.   *)
NoSaveFirst(t) ==
  /\ t \in Periodic /\ At(t, "run")
  /\ noSave' = TRUE
  /\ Goto(t, "nosave")
  /\ UNCHANGED <<tcb, queues, reschedule, events, active, cur, saved, swap, r1,
                 handler, pendSwap, pendSoft, timer, history>>
ZombieSecond(t) ==
  /\ At(t, "nosave")
  /\ taskState' = [taskState EXCEPT ![active] = "zombie"]
  /\ Goto(t, "unlink")
  /\ UNCHANGED <<high, low, nextDeadline, serverDeadline, queues, reschedule,
                 events, active, noSave, cur, saved, swap, r1, handler,
                 pendSwap, pendSoft, timer, history>>

EndTaskUnlink(t) ==
  /\ At(t, "unlink")
  /\ readyQ' = After(active, readyQ)
  /\ Goto(t, "elect")
  /\ UNCHANGED <<tcb, arrivalQ, reschedule, events, active, noSave, cur, saved,
                 swap, r1, handler, pendSwap, pendSoft, timer, history>>

EndTaskElect(t) ==
  /\ At(t, "elect")
  /\ active' = Top(readyQ)
  /\ Goto(t, "pend")
  /\ UNCHANGED <<tcb, queues, reschedule, events, noSave, cur, saved, swap, r1,
                 handler, pendSwap, pendSoft, timer, history>>

\* _OSScheduleTask, the last call of OSEndTask and OSSuspendSynchronousTask.
ScheduleTask(t) ==
  /\ At(t, "pend")
  /\ pendSwap' = TRUE
  /\ Goto(t, "done")
  /\ UNCHANGED <<tcb, queues, reschedule, events, active, noSave, cur, saved,
                 swap, r1, handler, pendSoft, timer, history>>

(* EnqueueRescheduleQueue: the task is pushed; once the timer runs, the    *)
(* soft timer interrupt is asked for.                                      *)
EnqueueRescheduleQueue(s) ==
  /\ reschedule' = <<s>> \o reschedule
  /\ pendSoft' = (pendSoft \/ booted)

(* Mutant of SuspendSynchronousTask: interrupts come in between the task's *)
(* entering the event's queue and its leaving the ready queue.             *)
SuspendUnmasked(t) ==
  LET e == EventOf[t] IN
  \/ /\ t \in Synchronous /\ At(t, "run")
     /\ waiting' = [waiting EXCEPT ![e] = Append(@, t)]
     /\ Goto(t, "sleep")
     /\ UNCHANGED <<tcb, queues, reschedule, signaled, carried, active, noSave,
                    cur, saved, swap, r1, handler, pendSwap, pendSoft, timer,
                    history>>
  \/ /\ t \in Synchronous /\ At(t, "sleep")
     /\ taskState' = [taskState EXCEPT ![active] = "zombie"]
     /\ noSave' = TRUE
     /\ readyQ' = After(active, readyQ)
     /\ active' = Top(After(active, readyQ))
     /\ Goto(t, "pend")
     /\ UNCHANGED <<high, low, nextDeadline, serverDeadline, arrivalQ,
                    reschedule, events, cur, saved, swap, r1, handler, pendSwap,
                    pendSoft, timer, history>>

(* OSSuspendSynchronousTask up to its call of _OSScheduleTask, interrupts  *)
(* masked.                                                                 *)
SuspendSynchronousTask(t) ==
  LET e == EventOf[t] IN
  /\ t \in Synchronous /\ At(t, "run")
  /\ \/ /\ signaled[e]
        /\ signaled' = [signaled EXCEPT ![e] = FALSE]
        /\ EnqueueRescheduleQueue(t)
        /\ UNCHANGED waiting
     \/ /\ ~signaled[e]
        /\ waiting' = [waiting EXCEPT ![e] = Append(@, t)]
        /\ UNCHANGED <<signaled, reschedule, pendSoft>>
  /\ taskState' = [taskState EXCEPT ![active] = "zombie"]
  /\ noSave' = TRUE
  /\ readyQ' = After(active, readyQ)
  /\ active' = Top(After(active, readyQ))
  /\ Goto(t, "pend")
  /\ UNCHANGED <<high, low, nextDeadline, serverDeadline, arrivalQ, carried,
                 cur, saved, swap, r1, handler, pendSwap, timer, history>>

(* OSScheduleSuspendedTask, called by a task: it takes the first task that *)
(* waits for the event, or leaves a SIGNAL; it may be preempted before it  *)
(* pushes that task.                                                       *)
SignalDequeue(t, e) ==
  /\ t \in Signallers /\ At(t, "run")
  /\ \/ /\ waiting[e] # <<>>
        /\ carried' = [carried EXCEPT ![t] = waiting[e][1]]
        /\ waiting' = [waiting EXCEPT ![e] = Tail(@)]
        /\ Goto(t, "push")
        /\ UNCHANGED signaled
     \/ /\ waiting[e] = <<>>
        /\ signaled' = [signaled EXCEPT ![e] = TRUE]
        /\ UNCHANGED <<waiting, carried, tpc>>
  /\ UNCHANGED <<tcb, queues, reschedule, active, noSave, cur, saved, swap, r1,
                 handler, pendSwap, pendSoft, timer, history>>

SignalPush(t) ==
  /\ At(t, "push")
  /\ EnqueueRescheduleQueue(carried[t])
  /\ carried' = [carried EXCEPT ![t] = None]
  /\ Goto(t, "run")
  /\ UNCHANGED <<tcb, queues, waiting, signaled, active, noSave, cur, saved,
                 swap, r1, handler, pendSwap, timer, history>>

(***************************************************************************)
(* Devices.  Their interrupts come in at any step of the levels below,     *)
(* unless interrupts are masked for good.                                  *)
(***************************************************************************)

Stopped == soft = "stopped"

\* OSScheduleSuspendedTask, called by the handler of a device.
SignalByInterrupt(e) ==
  /\ ~Stopped
  /\ \/ /\ waiting[e] # <<>>
        /\ EnqueueRescheduleQueue(waiting[e][1])
        /\ waiting' = [waiting EXCEPT ![e] = Tail(@)]
        /\ UNCHANGED signaled
     \/ /\ waiting[e] = <<>> /\ ~signaled[e]
        /\ signaled' = [signaled EXCEPT ![e] = TRUE]
        /\ UNCHANGED <<waiting, reschedule, pendSoft>>
  /\ UNCHANGED <<tcb, queues, carried, cpu, handler, pendSwap, timer, history>>

Busy == pendSoft \/ soft # "out"

Wraps == now = ShiftTimeLimit - 1

(* The bounds on how long time goes on: the scheduler comes to its end     *)
(* within MaxLatency ticks and before another turn begins, an instance of  *)
(* a periodic task within MaxLateness ticks of its deadline.               *)
InTime ==
  /\ Busy => latency < MaxLatency
  /\ Wraps => ~overflowFlag
  /\ \A t \in Periodic : taskState[t] # "zombie" => left[t] > -MaxLateness

Matches == alarm = 1

(* A tick of the counter, with the interrupts it raises: Alarm0Handler when *)
(* it comes to the time armed, Alarm1Handler when it begins a new turn.     *)
Tick ==
  /\ booted /\ ~Stopped /\ InTime
  /\ now' = IF Wraps THEN 0 ELSE now + 1
  /\ alarm' = IF alarm > 0 THEN alarm - 1 ELSE 0
  /\ comparatorFlag' = (comparatorFlag \/ Matches)
  /\ overflowFlag' = (overflowFlag \/ Wraps)
  /\ pendSoft' = (pendSoft \/ Matches \/ Wraps)
  /\ due' = [t \in Periodic |-> due[t] - 1]
  /\ left' = [t \in Periodic |->
                IF taskState[t] = "zombie" THEN 0 ELSE left[t] - 1]
  /\ rest' = [t \in Synchronous |-> IF rest[t] > 0 THEN rest[t] - 1 ELSE 0]
  /\ latency' = IF Busy THEN latency + 1 ELSE 0
  /\ UNCHANGED <<tcb, queues, reschedule, events, cpu, handler, pendSwap, booted>>

(***************************************************************************)
(* The scheduler: SoftTimerInterrupt and _OSTimerInterruptHandler.         *)
(***************************************************************************)

SoftAt(step) == soft = step

(* FinalizeContextSwitchPreparation, on entry: a task that has ended but   *)
(* is still at the head of the ready queue is taken out of it.             *)
SoftTimerInterrupt ==
  /\ pendSoft /\ SoftAt("out")
  /\ pendSoft' = FALSE /\ soft' = "overflow"
  /\ IF readyQ # <<>> /\ taskState[readyQ[1]] = "zombie"
     THEN readyQ' = Tail(readyQ) /\ noSave' = TRUE
     ELSE UNCHANGED <<readyQ, noSave>>
  /\ active' = Top(readyQ')
  /\ UNCHANGED <<tcb, arrivalQ, reschedule, events, cur, saved, tpc, swap, r1,
                 currentTime, pendSwap, timer, history>>

\* Mutant of SubOrZeroIfNeg: a time long past becomes negative.
SubUnbounded(x) == x - ShiftTimeLimit

SubOrZeroIfNeg(x) == IF x < ShiftTimeLimit THEN 0 ELSE x - ShiftTimeLimit

\* Mutant of ShiftTimes: the deadlines of the tasks ready are forgotten.
ShiftForgetsReady ==
  LET Arriving(t) == InQueue(t, arrivalQ)
      Turns(t) == t \in Periodic /\ high[t] > 0
  IN  /\ nextDeadline' = [t \in Task |->
           IF Mode = "EDF" /\ t \in Synchronous
           THEN SubOrZeroIfNeg(nextDeadline[t]) ELSE nextDeadline[t]]
      /\ high' = [t \in Periodic |->
           IF Arriving(t) /\ Turns(t) THEN high[t] - 1 ELSE high[t]]
      /\ low' = [t \in Task |->
           IF Mode = "DM" /\ t \in Synchronous THEN SubOrZeroIfNeg(low[t])
           ELSE IF Arriving(t) /\ ~Turns(t) THEN low[t] - ShiftTimeLimit
           ELSE low[t]]
      /\ serverDeadline' = IF Mode = "DM" THEN serverDeadline
                                          ELSE SubOrZeroIfNeg(serverDeadline)

\* The clock has begun a turn: every time is moved back by one.
ShiftTimes ==
  LET Arriving(t) == InQueue(t, arrivalQ)
      Turns(t) == t \in Periodic /\ high[t] > 0
  IN  /\ nextDeadline' = [t \in Task |->
           IF Mode = "DM" THEN nextDeadline[t]
           ELSE IF t \in Synchronous THEN SubOrZeroIfNeg(nextDeadline[t])
           ELSE IF InQueue(t, readyQ) THEN nextDeadline[t] - ShiftTimeLimit
           ELSE nextDeadline[t]]
      /\ high' = [t \in Periodic |->
           IF Arriving(t) /\ Turns(t) THEN high[t] - 1 ELSE high[t]]
      /\ low' = [t \in Task |->
           IF Mode = "DM" /\ t \in Synchronous THEN SubOrZeroIfNeg(low[t])
           ELSE IF Arriving(t) /\ ~Turns(t) THEN low[t] - ShiftTimeLimit
           ELSE low[t]]
      /\ serverDeadline' = IF Mode = "DM" THEN serverDeadline
                                          ELSE SubOrZeroIfNeg(serverDeadline)

TestOverflow ==
  /\ SoftAt("overflow") /\ soft' = "clear"
  /\ overflowFlag' = FALSE
  /\ IF overflowFlag THEN ShiftTimes
                     ELSE UNCHANGED <<nextDeadline, high, low, serverDeadline>>
  /\ UNCHANGED <<taskState, queues, reschedule, events, cpu, currentTime,
                 pendSwap, pendSoft, booted, now, alarm, comparatorFlag, history>>

ClearComparatorFlag ==
  /\ SoftAt("clear") /\ soft' = "time"
  /\ comparatorFlag' = FALSE
  /\ UNCHANGED <<tcb, queues, reschedule, events, cpu, currentTime, pendSwap,
                 pendSoft, booted, now, alarm, overflowFlag, history>>

ReadTime ==
  /\ SoftAt("time") /\ soft' = "arrivals"
  /\ currentTime' = now
  /\ UNCHANGED <<tcb, queues, reschedule, events, cpu, pendSwap, pendSoft,
                 timer, history>>

\* What the test of the first arrival finds: its time has come.
HasArrived(t) == low[t] <= currentTime /\ (t \in Periodic => high[t] = 0)
Arrives(t) ==
  /\ SoftAt("arrivals")
  /\ arrivalQ # <<>> /\ t = arrivalQ[1] /\ HasArrived(t)

(* Mutant of NextPeriodicArrival: the remainder's carry is not counted.    *)
NextArrivalNoCarry(t) ==
  LET sum == low[t] + PeriodLow[t]
      carry == sum >= ShiftTimeLimit
  IN  /\ high' = [high EXCEPT ![t] = PeriodHigh[t]]
      /\ low' = [low EXCEPT ![t] = IF carry THEN sum - ShiftTimeLimit ELSE sum]
      /\ arrivalQ' = ArrivalQueueInsert(t, Tail(arrivalQ), high', low')
      /\ due' = [due EXCEPT ![t] = @ + Period(t)]

(* NextPeriodicArrival: one period after the arrival just due, the carry   *)
(* of the remainder to the turns included.                                 *)
NextPeriodicArrival(t) ==
  LET sum == low[t] + PeriodLow[t]
      carry == sum >= ShiftTimeLimit
  IN  /\ high' = [high EXCEPT ![t] = PeriodHigh[t] + IF carry THEN 1 ELSE 0]
      /\ low' = [low EXCEPT ![t] = IF carry THEN sum - ShiftTimeLimit ELSE sum]
      /\ arrivalQ' = ArrivalQueueInsert(t, Tail(arrivalQ), high', low')
      /\ due' = [due EXCEPT ![t] = @ + Period(t)]

ReleasePeriodic(t) ==
  /\ t \in Periodic /\ Arrives(t) /\ taskState[t] = "zombie"
  /\ taskState' = [taskState EXCEPT ![t] = "init"]
  /\ nextDeadline' = IF Mode = "DM" THEN nextDeadline
                     ELSE [nextDeadline EXCEPT ![t] = low[t] + Deadline[t]]
  /\ readyQ' = ReadyQueueInsert(t, nextDeadline')
  /\ NextPeriodicArrival(t)
  /\ left' = [left EXCEPT ![t] = due[t] + Deadline[t]]
  /\ UNCHANGED <<serverDeadline, reschedule, events, cpu, handler, pendSwap,
                 pendSoft, timer, rest, latency>>

(* The instance under way overruns: it goes on and the release is skipped, *)
(* unless Overrun stops the system, interrupts masked.                     *)
Overrun(t) ==
  /\ t \in Periodic /\ Arrives(t) /\ taskState[t] # "zombie"
  /\ NextPeriodicArrival(t)
  /\ soft' = IF OverrunStops THEN "stopped" ELSE soft
  /\ UNCHANGED <<taskState, nextDeadline, serverDeadline, readyQ, reschedule,
                 events, cpu, currentTime, pendSwap, pendSoft, timer, left, rest,
                 latency>>

(* GetSuspendedSchedulingDeadline: the deadline of the server that serves  *)
(* the event-driven tasks.                                                 *)
GetSuspendedSchedulingDeadline(s) ==
  WorkLoad[s] + IF serverDeadline > currentTime THEN serverDeadline ELSE currentTime

\* The ticks since the time was read, and whether it was read in a turn that
\* the times are not yet moved to.
Age == IF now >= currentTime THEN now - currentTime
                           ELSE now - currentTime + ShiftTimeLimit
Misread == overflowFlag /\ currentTime <= now

\* History: the period of an instance released goes on until a time.
Entitled(s, until) ==
  LET ahead == until - currentTime - Age
  IN  rest' = [rest EXCEPT ![s] = IF Misread \/ ahead < 0 THEN 0 ELSE ahead]

\* An event-driven task that enters the ready queue; base is the beginning of
\* its period under DM.
ReleaseSynchronous(s, base) ==
  /\ taskState' = [taskState EXCEPT ![s] = "init"]
  /\ IF Mode = "EDF"
     THEN /\ serverDeadline' = GetSuspendedSchedulingDeadline(s)
          /\ nextDeadline' = [nextDeadline EXCEPT ![s] = serverDeadline']
          /\ Entitled(s, serverDeadline')
          /\ UNCHANGED low
     ELSE /\ low' = [low EXCEPT ![s] = base + WorkLoad[s]]
          /\ Entitled(s, base + WorkLoad[s])
          /\ UNCHANGED <<serverDeadline, nextDeadline>>
  /\ readyQ' = ReadyQueueInsert(s, nextDeadline')

\* A signalled task whose previous period has ended.
ArriveSynchronous(s) ==
  /\ s \in Synchronous /\ Arrives(s)
  /\ ReleaseSynchronous(s, low[s])
  /\ arrivalQ' = Tail(arrivalQ)
  /\ UNCHANGED <<high, reschedule, events, cpu, handler, pendSwap, pendSoft,
                 timer, due, left, latency>>

ArrivalsDone ==
  /\ SoftAt("arrivals") /\ soft' = "reschedule"
  /\ arrivalQ # <<>> => ~HasArrived(arrivalQ[1])
  /\ UNCHANGED <<tcb, queues, reschedule, events, cpu, currentTime, pendSwap,
                 pendSoft, timer, history>>

\* Mutant of Waits: a task signalled is released at once.
WaitsNever(s) == FALSE

\* Mutant of Waits: under EDF too, what counts is the arrival time.
WaitsUntilArrival(s) == currentTime < low[s]

\* EmptyRescheduleSynchronousTaskList, one task at a time.
Waits(s) == currentTime < IF Mode = "EDF" THEN nextDeadline[s] ELSE low[s]

RescheduleLater(s) ==
  /\ SoftAt("reschedule")
  /\ reschedule # <<>> /\ s = reschedule[1] /\ Waits(s)
  /\ reschedule' = Tail(reschedule)
  /\ low' = IF Mode = "EDF" THEN [low EXCEPT ![s] = nextDeadline[s]] ELSE low
  /\ arrivalQ' = ArrivalQueueInsert(s, arrivalQ, high, low')
  /\ UNCHANGED <<taskState, high, nextDeadline, serverDeadline, readyQ, events,
                 cpu, handler, pendSwap, pendSoft, timer, history>>

RescheduleNow(s) ==
  /\ SoftAt("reschedule")
  /\ reschedule # <<>> /\ s = reschedule[1] /\ ~Waits(s)
  /\ reschedule' = Tail(reschedule)
  /\ ReleaseSynchronous(s, currentTime)
  /\ UNCHANGED <<high, arrivalQ, events, cpu, handler, pendSwap, pendSoft,
                 timer, due, left, latency>>

RescheduleDone ==
  /\ SoftAt("reschedule") /\ soft' = "timer"
  /\ reschedule = <<>>
  /\ UNCHANGED <<tcb, queues, reschedule, events, cpu, currentTime, pendSwap,
                 pendSoft, timer, history>>

(* The comparator is set to the first arrival if it lies in this turn; one *)
(* already past sends the scheduler back.                                  *)
SetTimer ==
  LET a == arrivalQ[1]
      thisTurn == arrivalQ # <<>> /\ (a \in Periodic => high[a] = 0)
      ahead == low[a] > now
  IN  /\ SoftAt("timer")
      /\ soft' = IF thisTurn /\ ~ahead THEN "clear" ELSE "pending"
      /\ alarm' = IF ~thisTurn THEN alarm ELSE IF ahead THEN low[a] - now ELSE 0
      /\ UNCHANGED <<tcb, queues, reschedule, events, cpu, currentTime, pendSwap,
                     pendSoft, booted, now, overflowFlag, comparatorFlag, history>>

ClearSoftTimerInterrupt ==
  /\ SoftAt("pending") /\ soft' = "check"
  /\ pendSoft' = FALSE
  /\ UNCHANGED <<tcb, queues, reschedule, events, cpu, currentTime, pendSwap,
                 timer, history>>

\* Mutant of MoreToDo: a task signalled since the list was emptied is left.
MoreTimeToDo == overflowFlag \/ comparatorFlag

MoreToDo == overflowFlag \/ comparatorFlag \/ reschedule # <<>>

Again ==
  /\ SoftAt("check") /\ MoreToDo
  /\ soft' = "overflow"
  /\ UNCHANGED <<tcb, queues, reschedule, events, cpu, currentTime, pendSwap,
                 pendSoft, timer, history>>

Leave ==
  /\ SoftAt("check") /\ ~MoreToDo
  /\ soft' = "out"
  /\ active' = Top(readyQ)
  /\ pendSwap' = TRUE
  /\ currentTime' = 0   \* the local variable is gone
  /\ latency' = 0
  /\ UNCHANGED <<tcb, queues, reschedule, events, noSave, cur, saved, tpc, swap,
                 r1, pendSoft, timer, due, left, rest>>

(***************************************************************************)
(* The context switch: _OSContextSwapHandler.                              *)
(***************************************************************************)

SwapAt(step) == swap = step /\ soft = "out" /\ ~pendSoft
HasRun(t) == taskState[t] # "init"

SwapEnter ==
  /\ SwapAt("out") /\ pendSwap
  /\ pendSwap' = FALSE
  /\ swap' = "test" /\ r1' = active
  /\ UNCHANGED <<tcb, queues, reschedule, events, active, noSave, cur, saved,
                 tpc, handler, pendSoft, timer, history>>

\* Back to the task interrupted.
SwapReturn ==
  /\ SwapAt("test") /\ ~noSave /\ HasRun(r1)
  /\ swap' = "out" /\ r1' = None
  /\ UNCHANGED <<tcb, queues, reschedule, events, active, noSave, cur, saved,
                 tpc, handler, pendSwap, pendSoft, timer, history>>

\* Its context is saved below that of the task to start.
SwapSave ==
  /\ SwapAt("test") /\ ~noSave /\ ~HasRun(r1)
  /\ saved' = <<cur>> \o saved /\ cur' = None
  /\ swap' = "switch"
  /\ UNCHANGED <<tcb, queues, reschedule, events, active, noSave, tpc, r1,
                 handler, pendSwap, pendSoft, timer, history>>

\* Its context is wiped from the stack.
SwapClear ==
  /\ SwapAt("test") /\ noSave
  /\ noSave' = FALSE /\ cur' = None
  /\ swap' = "switch"
  /\ UNCHANGED <<tcb, queues, reschedule, events, active, saved, tpc, r1,
                 handler, pendSwap, pendSoft, timer, history>>

\* CreateNewContext: the task starts at its first instruction.
SwapCreate ==
  /\ SwapAt("switch") /\ ~HasRun(r1)
  /\ taskState' = [taskState EXCEPT ![r1] = "running"]
  /\ cur' = r1 /\ Goto(r1, "run")
  /\ swap' = "out" /\ r1' = None
  /\ UNCHANGED <<high, low, nextDeadline, serverDeadline, queues, reschedule,
                 events, active, noSave, saved, handler, pendSwap, pendSoft,
                 timer, history>>

\* RestoreContext: whatever the top of the stack holds is resumed.
SwapRestore ==
  /\ SwapAt("switch") /\ HasRun(r1) /\ saved # <<>>
  /\ cur' = saved[1] /\ saved' = Tail(saved)
  /\ swap' = "out" /\ r1' = None
  /\ UNCHANGED <<tcb, queues, reschedule, events, active, noSave, tpc,
                 handler, pendSwap, pendSoft, timer, history>>

-----------------------------------------------------------------------------

\* Mutant of EndTask.
EndTaskFlagFirst(t) ==
  NoSaveFirst(t) \/ ZombieSecond(t) \/ EndTaskUnlink(t) \/ EndTaskElect(t)

EndTask(t) ==
  EndTaskZombie(t) \/ EndTaskNoSave(t) \/ EndTaskUnlink(t) \/ EndTaskElect(t)

Signal(t) == (\E e \in Event : SignalDequeue(t, e)) \/ SignalPush(t)

Scheduler ==
  \/ SoftTimerInterrupt \/ TestOverflow \/ ClearComparatorFlag \/ ReadTime
  \/ \E t \in Task : ReleasePeriodic(t) \/ Overrun(t) \/ ArriveSynchronous(t)
  \/ ArrivalsDone
  \/ \E s \in Synchronous : RescheduleLater(s) \/ RescheduleNow(s)
  \/ RescheduleDone \/ SetTimer \/ ClearSoftTimerInterrupt \/ Again \/ Leave

ContextSwap ==
  SwapEnter \/ SwapReturn \/ SwapSave \/ SwapClear \/ SwapCreate \/ SwapRestore

Next ==
  \/ IdleTask
  \/ \E t \in Task : \/ EndTask(t) \/ ScheduleTask(t)
                     \/ SuspendSynchronousTask(t) \/ Signal(t)
  \/ \E e \in Event : SignalByInterrupt(e)
  \/ Tick
  \/ Scheduler
  \/ ContextSwap

Spec == Init /\ [][Next]_vars
-----------------------------------------------------------------------------
(***************************************************************************)
(* Properties.                                                             *)
(***************************************************************************)

Place == Task \cup {Idle, None}

\* Every variable has its type.
TypeOK ==
  /\ taskState \in [Task \cup {Idle} -> {"init", "running", "zombie"}]
  /\ high \in [Periodic -> Nat] /\ low \in [Task -> Int]
  /\ nextDeadline \in [Task -> Int] /\ serverDeadline \in Nat
  /\ readyQ \in Seq(Task) /\ arrivalQ \in Seq(Task)
  /\ reschedule \in Seq(Synchronous) /\ waiting \in [Event -> Seq(Synchronous)]
  /\ signaled \in [Event -> BOOLEAN]
  /\ carried \in [Task -> Synchronous \cup {None}]
  /\ active \in Task \cup {Idle} /\ noSave \in BOOLEAN
  /\ cur \in Place /\ saved \in Seq(Place)
  /\ tpc \in [Task \cup {Idle} ->
                {"run", "nosave", "unlink", "elect", "pend", "done", "push", "sleep"}]
  /\ swap \in {"out", "test", "switch"} /\ r1 \in Place
  /\ soft \in {"out", "overflow", "clear", "time", "arrivals", "reschedule",
               "timer", "pending", "check", "stopped"}
  /\ currentTime \in 0 .. ShiftTimeLimit - 1
  /\ pendSwap \in BOOLEAN /\ pendSoft \in BOOLEAN /\ booted \in BOOLEAN
  /\ now \in 0 .. ShiftTimeLimit - 1 /\ alarm \in Nat
  /\ overflowFlag \in BOOLEAN /\ comparatorFlag \in BOOLEAN
  /\ due \in [Periodic -> Int] /\ left \in [Periodic -> Int]
  /\ rest \in [Synchronous -> Nat] /\ latency \in Nat

(* The stack discipline the single stack of the system rests on: the       *)
(* contexts kept, from the top of the stack down, are those of the started *)
(* tasks in the order of the ready queue, so that the context switch, that *)
(* restores whatever lies on top, restores the task elected.               *)
LiveContexts ==
  IF noSave \/ cur = None \/ taskState[cur] = "zombie" THEN saved
                                                      ELSE <<cur>> \o saved
\* t comes before u in q, which the idle task follows.
Before(t, u, q) ==
  \E i \in DOMAIN q :
    /\ q[i] = t
    /\ u = Idle \/ \E j \in DOMAIN q : i < j /\ q[j] = u

Started(t) == t # None /\ taskState[t] = "running"

ContextsMatch ==
  LET live == LiveContexts
  IN  /\ \A t \in Place : InQueue(t, live) <=> Started(t)
      /\ \A i, j \in DOMAIN live : i < j => Before(live[i], live[j], readyQ)

(* A TCB is linked in one place: an event-driven task in the ready queue,  *)
(* the arrival queue, its event's, the list of tasks to reschedule or the  *)
(* hands of a signaller, once, and out of the ready queue a zombie; a      *)
(* periodic task always in the arrival queue, once, and in the ready queue *)
(* once until it ends.                                                     *)
Occurrences(t, q) == Cardinality({i \in DOMAIN q : q[i] = t})

Unlinking(t) == cur = t /\ tpc[t] \in {"nosave", "unlink"}

OnePlace ==
  /\ \A s \in Synchronous :
       /\ Occurrences(s, readyQ) + Occurrences(s, arrivalQ)
          + Occurrences(s, waiting[EventOf[s]]) + Occurrences(s, reschedule)
          + Cardinality({t \in Task : carried[t] = s}) = 1
       /\ InQueue(s, readyQ) <=> taskState[s] # "zombie"
  /\ \A t \in Periodic :
       /\ Occurrences(t, arrivalQ) = 1
       /\ Occurrences(t, readyQ) <= 1
       /\ taskState[t] # "zombie" => InQueue(t, readyQ)
       /\ InQueue(t, readyQ) => taskState[t] # "zombie" \/ Unlinking(t)

(* The clock of the kernel agrees with time: the turns and the remainder   *)
(* of a task's arrival, moved back at each turn and carried at each        *)
(* release, say when it is due, however long its period.                   *)
Unmoved == IF overflowFlag THEN ShiftTimeLimit ELSE 0
TrueTime(x) == x - now - Unmoved

ArrivalTimesAgree ==
  \A t \in Periodic : TrueTime(high[t] * ShiftTimeLimit + low[t]) = due[t]

(* So does the absolute deadline of an instance, which EDF compares.       *)
DeadlinesAgree ==
  Mode = "EDF" =>
    \A t \in Periodic :
      taskState[t] # "zombie" => TrueTime(nextDeadline[t]) = left[t]

(* No release is missed or late: whenever the scheduler is neither at work *)
(* nor asked for, no task signalled is left on the list, and every arrival *)
(* lies ahead, the turns of the clock between included.                    *)
Punctual ==
  booted /\ ~Busy =>
    /\ reschedule = <<>>
    /\ \A t \in Periodic : due[t] > 0
    /\ \A s \in Synchronous : InQueue(s, arrivalQ) => TrueTime(low[s]) > 0

(* The processor goes to the most urgent task.  When a task runs, it is    *)
(* the head of the ready queue, and no task there whose deadline is still  *)
(* ahead comes after one with a later deadline (EDF) or a lower priority   *)
(* (DM).                                                                   *)
TrueDeadline(t) == IF t \in Periodic THEN left[t] ELSE TrueTime(nextDeadline[t])

\* t may run before u.
MoreUrgent(t, u) ==
  IF Mode = "DM" THEN HasPriority(t, u)
  ELSE TrueDeadline(u) <= 0 \/ TrueDeadline(t) <= TrueDeadline(u)

MostUrgentRuns ==
  /\ soft = "out" /\ swap = "out" /\ ~pendSoft /\ ~pendSwap
       /\ cur # None /\ taskState[cur] # "zombie" => cur = Top(readyQ)
  /\ \A i, j \in DOMAIN readyQ :
       i < j /\ taskState[readyQ[i]] # "zombie" => MoreUrgent(readyQ[i], readyQ[j])

(* Times fit the word they are kept in: every arrival, every deadline that *)
(* EDF compares and the deadline of the server, which grows by a workload  *)
(* at each release while it lies ahead, stay below two turns of the clock, *)
(* 2^31.                                                                   *)
Word == 2 * ShiftTimeLimit

TimesFit ==
  /\ serverDeadline < Word
  /\ \A t \in Task : low[t] < Word /\ nextDeadline[t] < Word

(* What TimesFit needs of the constants.  Demand gives what the workloads  *)
(* of a set of event-driven tasks come to: a task added adds its own, and  *)
(* those of all of them are no less than those of some.  Under EDF, whose  *)
(* server adds them up, all of them, with the ticks of a pass of the       *)
(* scheduler, are less than a turn of the clock.                           *)
SumsWorkLoads(Demand) ==
  /\ Demand \in [SUBSET Synchronous -> Nat]
  /\ \A Q \in SUBSET Synchronous : \A s \in Synchronous \ Q :
       Demand[Q \cup {s}] = Demand[Q] + WorkLoad[s]
  /\ \A Q \in SUBSET Synchronous : Demand[Q] <= Demand[Synchronous]

Fits(Demand) ==
  /\ SumsWorkLoads(Demand)
  /\ Mode = "EDF" => MaxLatency + Demand[Synchronous] < ShiftTimeLimit

(* What Punctual needs of them too.  The remainder of a period that has    *)
(* full turns before it is no less than the ticks of a pass of the         *)
(* scheduler, so that a release made late by one leaves no remainder below *)
(* zero: the code takes full turns to come for an arrival beyond this turn *)
(* of the clock.                                                           *)
RemaindersCover == \A t \in Periodic : PeriodHigh[t] > 0 => PeriodLow[t] >= MaxLatency

(* The state without the values no code reads before it sets them again:   *)
(* what the runs tell states apart by.                                     *)
LiveState ==
  <<[t \in Task |-> IF Mode = "DM" \/ t \in Periodic \/ InQueue(t, arrivalQ)
                    THEN low[t] ELSE 0],
    [t \in Task |-> IF t \in Periodic /\ taskState[t] = "zombie"
                    THEN 0 ELSE nextDeadline[t]],
    [t \in Periodic |-> IF taskState[t] = "zombie" THEN 0 ELSE left[t]],
    taskState, high, serverDeadline, queues, reschedule, events, cpu, handler,
    pendSwap, pendSoft, timer, due, rest, latency>>

(* An instance of an event-driven task never begins within the period of   *)
(* the one before, counted as the scheduler counted it.                    *)
PeriodKept ==
  [][\A s \in Synchronous :
       taskState[s] = "zombie" /\ taskState'[s] = "init" => rest[s] <= Age]_vars

(* The deadline that an instance of an event-driven task is given under    *)
(* EDF, max(d(j-1), currentTime) plus its workload, lies a workload or     *)
(* more after the time the scheduler released it at: the workload is its   *)
(* deadline and its minimum interarrival time.                             *)
WorkLoadGranted ==
  [][\A s \in Synchronous :
       taskState[s] = "zombie" /\ taskState'[s] = "init" =>
         TrueTime(nextDeadline'[s]) >= WorkLoad[s] - Age]_vars

(* The scheduler and the context switch go on when nothing above them      *)
(* comes in for ever; each instance ends if it is given the processor      *)
(* again and again; and time passes.                                       *)
TaskStep(t) ==
  EndTask(t) \/ ScheduleTask(t) \/ SuspendSynchronousTask(t) \/ SignalPush(t)

Fairness ==
  /\ WF_vars(Scheduler) /\ WF_vars(IdleTask)
  /\ SF_vars(ContextSwap) /\ SF_vars(Tick)
  /\ \A t \in Task : SF_vars(TaskStep(t))

FairSpec == Spec /\ Fairness

(* A signal is not lost: a SIGNAL left on an event sends a task of that    *)
(* event back to the list of tasks to reschedule, and a task on the list   *)
(* runs, however signals, releases and turns of the clock come between.    *)
SignalServed ==
  /\ \A e \in Event :
       signaled[e] ~> \E s \in Synchronous :
                        EventOf[s] = e /\ InQueue(s, reschedule)
  /\ \A s \in Synchronous :
       InQueue(s, reschedule) ~> taskState[s] = "running"

=============================================================================

----------------------------- MODULE SoftKernel -----------------------------
(***************************************************************************)
(* The soft real-time kernel: of any K instances of a periodic task, M are *)
(* mandatory.  The others are optional: one starts only when nothing else  *)
(* is ready and the admission test finds that it can end in time; it is    *)
(* then promoted among the mandatory ones, else it is dropped.             *)
(*                                                                         *)
(* Under EDF the optional instances wait in the ready queue behind its     *)
(* tail, the idle task, and a promotion moves one to the head by stores    *)
(* that the soft timer interrupt may come between: the links of the ready  *)
(* queue are therefore kept one by one.  Levels and steps are those of     *)
(* HardKernel; an event's queue is reduced to one task each.               *)
(***************************************************************************)
EXTENDS Integers, Sequences, FiniteSets

CONSTANTS
  Periodic, Synchronous,   \* the tasks, periodic and event-driven
  Created,                 \* all of them, in order of creation
  QHead, Idle,             \* the sentinels of the queues; the idle task is the tail
  Null,                    \* no task
  Modes,                   \* SCHEDULER_REAL_TIME_MODE: among "EDF" and "DM"
  ShiftTimeLimit,          \* 2^30 in the code
  PeriodHigh, PeriodLow, Deadline, WCET,
  M, K, StartInstance,     \* the pattern of a periodic task and its first release
  WorkLoad,                \* of an event-driven task (PeriodLow under DM)
  AperiodicUtilization,    \* the share of event-driven tasks, in 256ths (EDF)
  KernelCosts,             \* among TRUE: the kernel takes time; FALSE: only tasks do
  MaxLatency, MaxLateness, \* bounds, as in HardKernel
  OverrunStops             \* no overrun hook, or one that does not continue

Task == Periodic \cup Synchronous
Node == Task \cup {QHead, Idle}
Period(t) == PeriodHigh[t] * ShiftTimeLimit + PeriodLow[t]

(* ValidTiming and the checks of OSCreateTask and OSCreateSynchronousTask. *)
ASSUME FirmAssumption ==
  /\ Periodic \cap Synchronous = {} /\ Created \in Seq(Task)
  /\ Modes \subseteq {"EDF", "DM"}
  /\ KernelCosts \subseteq BOOLEAN /\ OverrunStops \in BOOLEAN
  /\ ShiftTimeLimit \in Nat \ {0}
  /\ MaxLatency \in 1 .. ShiftTimeLimit - 1 /\ MaxLateness \in Nat
  /\ \A t \in Periodic :
       /\ PeriodHigh[t] \in Nat /\ PeriodLow[t] \in 0 .. ShiftTimeLimit - 1
       /\ Deadline[t] \in 1 .. ShiftTimeLimit - 1
       /\ PeriodHigh[t] > 0 \/ Deadline[t] <= PeriodLow[t]
       /\ WCET[t] \in 0 .. Deadline[t]
       /\ K[t] \in Nat /\ M[t] \in 1 .. K[t] /\ StartInstance[t] \in Nat
  /\ \A s \in Synchronous :
       /\ WorkLoad[s] \in 1 .. ShiftTimeLimit - 1 /\ WCET[s] \in 0 .. WorkLoad[s]
       /\ WCET[s] * 256 <= AperiodicUtilization * WorkLoad[s]
  /\ AperiodicUtilization \in 0 .. 255

VARIABLES
  mode,            \* the mode of the build, one of Modes
  costs,           \* whether the kernel takes time, one of KernelCosts
  \* The TCBs and ETCBs.
  taskState,       \* the bits set of TaskState, the one of the type apart
  high, low,       \* NextArrivalTimeHigh, NextArrivalTimeLow
  mandHigh, mandLow, \* NextMandatoryArrivalTimeHigh, NextMandatoryArrivalTimeLow
  nextDeadline,    \* NextDeadline
  instance,        \* Instance
  nextMandatory,   \* NextMandatoryInstance
  nextIsMandatory, \* NextInstanceMandatory
  mandatory,       \* Mandatory
  promoted,        \* DM: Priority is StaticPriority, not an optional instance's
  \* Queues and lists.
  next,            \* Next[READYQ] of each task and sentinel
  arrivalQ, reschedule, waiting, signaled, serverDeadline,
  \* The processor and the kernel's globals.
  active, noSave, cur, saved, tpc, swap, r1,
  soft, currentTime, lastHandlerTime, pendSwap, pendSoft,
  \* The timer.
  booted, now, alarm, overflowFlag, comparatorFlag,
  \* History.
  due, left, latency, \* as in HardKernel
  work,            \* the ticks an instance may still need
  window           \* the kinds of a task's last K releases, the last one first

build == <<mode, costs>>
pattern == <<mandHigh, mandLow, instance, nextMandatory, nextIsMandatory, window>>
arrivals == <<high, low, arrivalQ>>
events == <<reschedule, waiting, signaled, serverDeadline>>
context == <<cur, saved, swap, r1>>
clock == <<booted, now, alarm, overflowFlag, comparatorFlag>>
times == <<currentTime, lastHandlerTime>>
history == <<due, left, latency, work>>
vars == <<build, taskState, pattern, nextDeadline, mandatory, promoted, next,
          arrivals, events, active, noSave, context, tpc, soft, times, pendSwap,
          pendSoft, clock, history>>

EDF == mode = "EDF"
Is(t, flag) == flag \in taskState[t]
Blocking(t) == t \in Synchronous \cup {Idle}
Init0(t) == taskState[t] = {}

(***************************************************************************)
(* The ready queue, by its links.                                          *)
(***************************************************************************)

\* The nodes from x on, x included, as far as the links lead.
Chain(x) ==
  LET longest == Cardinality(Node)
      walk[y \in Node, n \in 0 .. longest] ==
        IF n = 0 \/ next[y] = Null THEN <<y>> ELSE <<y>> \o walk[next[y], n - 1]
  IN  walk[x, longest]

Nodes(q) == {q[i] : i \in DOMAIN q}

\* The part of the chain from x that lies before y.
Before(x, y) ==
  LET q == Chain(x)
  IN  IF y \in Nodes(q)
      THEN SubSeq(q, 1, (CHOOSE i \in DOMAIN q : q[i] = y) - 1)
      ELSE q

(* InsertQueue and OptionalReadyQueueInsert: t goes behind the last node   *)
(* of q before the first task that it precedes, q being a sentinel and the *)
(* tasks linked behind it.                                                 *)
LinkedBehind(t, q, Precedes(_)) ==
  LET i == CHOOSE n \in DOMAIN q :
             /\ n = Len(q) \/ Precedes(q[n + 1])
             /\ \A j \in 2 .. n : ~Precedes(q[j])
  IN  [next EXCEPT ![t] = next[q[i]], ![q[i]] = t]

CreatedAt(t) == CHOOSE i \in DOMAIN Created : Created[i] = t
Term(t) == IF t \in Periodic THEN Deadline[t] ELSE WorkLoad[t]

\* StaticPriority, as GetTaskPriority counts it, and Priority.
StaticPriority(t) ==
  Cardinality({u \in Task : \/ Term(u) < Term(t)
                            \/ Term(u) = Term(t) /\ CreatedAt(u) < CreatedAt(t)})
Priority(t, p) == StaticPriority(t) + IF p[t] THEN 0 ELSE Cardinality(Task)

\* ReadyQueueInsertTestKey, the deadlines being nd and the priorities p.
ReadyPrecedes(t, u, nd, p) ==
  IF EDF THEN nd[t] <= nd[u] ELSE Priority(t, p) < Priority(u, p)

\* ArrivalQueueInsertTestKey and the insertion into the arrival queue.
Arrival(t, h, l) == IF t \in Periodic THEN h[t] * ShiftTimeLimit + l[t] ELSE l[t]
ArrivalQueueInsert(t, q, h, l) ==
  LET n == CHOOSE i \in 1 .. Len(q) + 1 :
             /\ i = Len(q) + 1 \/ Arrival(t, h, l) <= Arrival(q[i], h, l)
             /\ \A j \in 1 .. i - 1 : Arrival(t, h, l) > Arrival(q[j], h, l)
  IN  SubSeq(q, 1, n - 1) \o <<t>> \o SubSeq(q, n, Len(q))

(***************************************************************************)
(* The pattern.                                                            *)
(***************************************************************************)

\* Multiply46_16: b periods, in turns and a remainder.
Multiply46_16(t, b) == <<(Period(t) * b) \div ShiftTimeLimit,
                         (Period(t) * b) % ShiftTimeLimit>>

\* The first mandatory instance from n on, floor(ceil(n*m/k)*k/m).
MandatoryFrom(t, n) == (((n * M[t] + K[t] - 1) \div K[t]) * K[t]) \div M[t]

(***************************************************************************)
(* The admission test.                                                     *)
(***************************************************************************)

MulDiv(a, b, c) == (a * b) \div c
MulDivUp(a, b, c) == (a * b + c - 1) \div c

\* Mutant of GetTaskTime: the time is taken as read.
TimeAsRead == now

\* GetTaskTime: a time that has wrapped since the handler last ran is taken
\* past the turn.
GetTaskTime ==
  IF lastHandlerTime - now > ShiftTimeLimit \div 2 THEN now + ShiftTimeLimit ELSE now

\* Ticks from the next mandatory arrival of u to the deadline of t.
Exposure(t, u) == nextDeadline[t] - mandLow[u]
                  - IF mandHigh[u] > 0 THEN ShiftTimeLimit ELSE 0

Least(a, b) == IF a < b THEN a ELSE b

(* What the mandatory instances of u that arrive before the deadline of t  *)
(* take before it.                                                         *)
Interference(t, u) ==
  LET tmp == Exposure(t, u)
      full == tmp \div PeriodLow[u]
      partial == full + nextMandatory[u]
  IN  IF mandHigh[u] > (IF nextDeadline[t] >= ShiftTimeLimit THEN 1 ELSE 0) \/ tmp <= 0
      THEN 0
      ELSE IF PeriodHigh[u] = 0 /\ full > 0
      THEN MulDivUp(full, M[u], K[u]) * WCET[u]
           + IF partial = MulDiv(MulDivUp(partial, M[u], K[u]), K[u], M[u])
             THEN Least(tmp - full * PeriodLow[u], WCET[u]) ELSE 0
      ELSE Least(tmp, WCET[u])

Total(f) ==
  LET sum[S \in SUBSET DOMAIN f] ==
        IF S = {} THEN 0 ELSE LET x == CHOOSE x \in S : TRUE IN f[x] + sum[S \ {x}]
  IN  sum[DOMAIN f]

\* Under DM: what the event-driven tasks of higher priority take.
EventInterference(t, s) ==
  LET ahead == nextDeadline[t] - IF low[s] > GetTaskTime THEN low[s] ELSE GetTaskTime
      full == ahead \div WorkLoad[s]
  IN  IF ahead <= 0 \/ StaticPriority(s) >= StaticPriority(t) THEN 0
      ELSE full * WCET[s] + Least(ahead - full * WorkLoad[s], WCET[s])

\* Under EDF: the share of the server in that much work, less what is due
\* after it.
ServerShare(total) ==
  LET ahead == total - IF serverDeadline > GetTaskTime
                       THEN serverDeadline - GetTaskTime ELSE 0
      rest == 256 - AperiodicUtilization
  IN  IF AperiodicUtilization = 0 \/ ahead <= 0 THEN 0
      ELSE (ahead \div rest) * AperiodicUtilization
           + ((ahead % rest) * AperiodicUtilization) \div rest

\* Mutant of IsTaskSchedulable: the optional instance counts alone.
SchedulableAlone(t) == WCET[t] + GetTaskTime < nextDeadline[t]

(* IsTaskSchedulable: the optional instance of t, the mandatory instances  *)
(* that arrive before its deadline and the event-driven tasks all end      *)
(* before it.                                                              *)
IsTaskSchedulable(t) ==
  LET periodic == WCET[t] + Total([u \in Periodic |-> Interference(t, u)])
      total == periodic +
               IF EDF THEN ServerShare(periodic)
                      ELSE Total([s \in Synchronous |-> EventInterference(t, s)])
  IN  /\ total <= ShiftTimeLimit - 1
      /\ total + GetTaskTime < nextDeadline[t]

\* The test of an instance at the head of the optional ones.
Admitted(t) == nextDeadline[t] - WCET[t] > GetTaskTime /\ IsTaskSchedulable(t)

(***************************************************************************)
(* The state OSCreateTask, OSCreateSynchronousTask and OSStartMultitasking *)
(* leave.                                                                  *)
(***************************************************************************)

Start(t) == Period(t) * StartInstance[t]

\* Under DM the tasks come into the arrival queue by deadline.
ArrivesFirst(t, u) ==
  \/ Start(t) < Start(u)
  \/ /\ Start(t) = Start(u)
     /\ IF EDF THEN CreatedAt(t) > CreatedAt(u)
        ELSE \/ Deadline[t] > Deadline[u]
             \/ Deadline[t] = Deadline[u] /\ CreatedAt(t) < CreatedAt(u)

Init ==
  /\ mode \in Modes /\ costs \in KernelCosts
  /\ taskState = [t \in Task \cup {Idle} |-> IF t = Idle THEN {} ELSE {"zombie"}]
  /\ mandHigh = [t \in Periodic |-> Multiply46_16(t, StartInstance[t])[1]]
  /\ mandLow = [t \in Periodic |-> Multiply46_16(t, StartInstance[t])[2]]
  /\ high = mandHigh
  /\ low = [t \in Task |-> IF t \in Periodic THEN mandLow[t] ELSE 0]
  /\ nextDeadline = [t \in Task |-> 0]
  /\ instance = [t \in Periodic |-> K[t] - 1]
  /\ nextMandatory = [t \in Periodic |-> 0]
  /\ nextIsMandatory = [t \in Periodic |-> TRUE]
  /\ mandatory = [t \in Periodic |-> FALSE]
  /\ promoted = [t \in Task |-> TRUE]
  /\ next = [n \in Node |-> IF n = QHead THEN Idle ELSE Null]
  /\ arrivalQ \in {q \in [1 .. Cardinality(Periodic) -> Periodic] :
                     \A i, j \in DOMAIN q : i < j => ArrivesFirst(q[i], q[j])}
  /\ reschedule = <<>> /\ waiting = Synchronous /\ signaled = {}
  /\ serverDeadline = 0
  /\ active = Idle /\ noSave = TRUE /\ cur = Null /\ saved = <<>>
  /\ tpc = [t \in Task \cup {Idle} |-> "run"]
  /\ swap = "out" /\ r1 = Null
  /\ soft = "out" /\ currentTime = 0 /\ lastHandlerTime = 0
  /\ pendSwap = TRUE /\ pendSoft = FALSE
  /\ booted = FALSE /\ now = 0 /\ alarm = 0
  /\ overflowFlag = FALSE /\ comparatorFlag = FALSE
  /\ due = [t \in Periodic |-> Start(t)]
  /\ left = [t \in Task |-> 0] /\ work = [t \in Task |-> 0] /\ latency = 0
  /\ window = [t \in Periodic |-> <<>>]

(***************************************************************************)
(* Tasks.                                                                  *)
(***************************************************************************)

Quiet == soft = "out" /\ swap = "out" /\ ~pendSoft /\ ~pendSwap
Runs(t) == cur = t /\ Quiet

\* Where a level is: a task, or the scheduler, named Null.
At(l, step) == IF l = Null THEN soft = step ELSE Runs(l) /\ tpc[l] = step
Goto(l, step) ==
  IF l = Null THEN soft' = step /\ UNCHANGED tpc
              ELSE tpc' = [tpc EXCEPT ![l] = step] /\ UNCHANGED soft

Raise(t, flag) == taskState' = [taskState EXCEPT ![t] = @ \cup {flag}]

\* IdleTask, its first run: it starts the timer, then sleeps.
IdleTask ==
  /\ Runs(Idle) /\ tpc[Idle] = "run"
  /\ booted' = TRUE /\ comparatorFlag' = TRUE /\ pendSoft' = TRUE
  /\ tpc' = [tpc EXCEPT ![Idle] = "sleep"]
  /\ UNCHANGED <<build, taskState, pattern, nextDeadline, mandatory, promoted,
                 next, arrivals, events, active, noSave, context, soft, times,
                 pendSwap, now, alarm, overflowFlag, history>>

(* OSEndTask: a zombie, whose context is not to be saved, out of the ready *)
(* queue; a store each.                                                    *)
EndTaskZombie(t) ==
  /\ t \in Periodic /\ At(t, "run")
  /\ Raise(active, "zombie")
  /\ work' = [work EXCEPT ![t] = 0]
  /\ Goto(t, "nosave")
  /\ UNCHANGED <<build, pattern, nextDeadline, mandatory, promoted, next,
                 arrivals, events, active, noSave, context, times, pendSwap,
                 pendSoft, clock, due, left, latency>>

EndTaskNoSave(t) ==
  /\ t \in Periodic /\ At(t, "nosave")
  /\ noSave' = TRUE
  /\ Goto(t, "unlink")
  /\ UNCHANGED <<build, taskState, pattern, nextDeadline, mandatory, promoted,
                 next, arrivals, events, active, context, times, pendSwap,
                 pendSoft, clock, history>>

EndTaskUnlink(t) ==
  /\ t \in Periodic /\ At(t, "unlink")
  /\ next' = [next EXCEPT ![QHead] = next[active]]
  /\ Goto(t, "elect")
  /\ UNCHANGED <<build, taskState, pattern, nextDeadline, mandatory, promoted,
                 arrivals, events, active, noSave, context, times, pendSwap,
                 pendSoft, clock, history>>

\* OSSuspendSynchronousTask up to ScheduleNextTask, interrupts masked.
SuspendSynchronousTask(t) ==
  /\ t \in Synchronous /\ At(t, "run")
  /\ IF t \in signaled
     THEN /\ signaled' = signaled \ {t}
          /\ reschedule' = <<t>> \o reschedule
          /\ pendSoft' = (pendSoft \/ booted)
          /\ UNCHANGED waiting
     ELSE waiting' = waiting \cup {t} /\ UNCHANGED <<signaled, reschedule, pendSoft>>
  /\ Raise(active, "zombie")
  /\ work' = [work EXCEPT ![t] = 0]
  /\ noSave' = TRUE
  /\ next' = [next EXCEPT ![QHead] = next[active]]
  /\ Goto(t, "elect")
  /\ UNCHANGED <<build, pattern, nextDeadline, mandatory, promoted, arrivals,
                 serverDeadline, active, context, times, pendSwap, clock, due,
                 left, latency>>

(***************************************************************************)
(* ScheduleNextTask, at the end of an instance, or at the end of the       *)
(* scheduler (l = Null).                                                   *)
(***************************************************************************)

\* The task to go on with if it needs no test; else the one to test.
Waits(t) == t \in Periodic /\ Init0(t) /\ ~promoted[t]
Elect(l) ==
  LET first == next[QHead]
      optional == IF EDF THEN first = Idle /\ next[Idle] # Null ELSE Waits(first)
  IN  /\ At(l, "elect")
      /\ active' = IF EDF /\ optional THEN next[Idle] ELSE first
      /\ Goto(l, IF optional THEN "test" ELSE "pend")
      /\ UNCHANGED <<build, taskState, pattern, nextDeadline, mandatory, promoted,
                     next, arrivals, events, noSave, context, times, pendSwap,
                     pendSoft, clock, history>>

(* The admission test: under EDF the promotion begins, or the instance is  *)
(* marked not to be tested again; under DM it takes its priority, or       *)
(* becomes a zombie.                                                       *)
Test(l) ==
  /\ At(l, "test")
  /\ IF ~Is(active, "drop") /\ Admitted(active)
     THEN IF EDF THEN /\ Goto(l, "head") /\ Raise(active, "activate")
                      /\ UNCHANGED promoted
          ELSE /\ Goto(l, "pend") /\ UNCHANGED taskState
               /\ promoted' = [promoted EXCEPT ![active] = TRUE]
     ELSE /\ Goto(l, "unlinkOptional")
          /\ Raise(active, IF EDF THEN "drop" ELSE "zombie")
          /\ UNCHANGED promoted
  /\ UNCHANGED <<build, pattern, nextDeadline, mandatory, next, arrivals, events,
                 active, noSave, context, times, pendSwap, pendSoft, clock, history>>

\* A store of the ready queue's links.
Store(l, from, n, to, then) ==
  /\ At(l, from)
  /\ next' = [next EXCEPT ![n] = to]
  /\ Goto(l, then)
  /\ UNCHANGED <<build, taskState, pattern, nextDeadline, mandatory, promoted,
                 arrivals, events, active, noSave, context, times, pendSwap,
                 pendSoft, clock, history>>

UnlinkOptional(l) ==
  LET before == IF EDF THEN Idle ELSE QHead
  IN  Store(l, "unlinkOptional", before, next[active], IF EDF THEN "zombie" ELSE "elect")

Drop(l) ==
  /\ At(l, "zombie")
  /\ Raise(active, "zombie")
  /\ work' = [work EXCEPT ![active] = 0]
  /\ Goto(l, "elect")
  /\ UNCHANGED <<build, pattern, nextDeadline, mandatory, promoted, next, arrivals,
                 events, active, noSave, context, times, pendSwap, pendSoft, clock,
                 due, left, latency>>

(* The promotion: the head, the tail's link past the instance, its own     *)
(* link, its mark.                                                         *)
PromoteMark(l) ==
  /\ At(l, "init")
  /\ taskState' = [taskState EXCEPT ![active] = {}]
  /\ Goto(l, "pend")
  /\ UNCHANGED <<build, pattern, nextDeadline, mandatory, promoted, next, arrivals,
                 events, active, noSave, context, times, pendSwap, pendSoft, clock,
                 history>>

\* Mutant of Promote: the instance's own link is stored before the tail's.
PromoteLinkFirst(l) ==
  \/ Store(l, "head", QHead, active, "link")
  \/ Store(l, "link", active, Idle, "tail")
  \/ Store(l, "tail", Idle, next[active], "init")
  \/ PromoteMark(l)

Promote(l) ==
  \/ Store(l, "head", QHead, active, "tail")
  \/ Store(l, "tail", Idle, next[active], "link")
  \/ Store(l, "link", active, Idle, "init")
  \/ PromoteMark(l)

\* _OSScheduleTask.
ScheduleTask(l) ==
  /\ At(l, "pend")
  /\ pendSwap' = TRUE
  /\ Goto(l, IF l = Null THEN "out" ELSE "done")
  /\ currentTime' = IF l = Null THEN 0 ELSE currentTime
  /\ UNCHANGED <<build, taskState, pattern, nextDeadline, mandatory, promoted,
                 next, arrivals, events, active, noSave, context, lastHandlerTime,
                 pendSoft, clock, history>>

ScheduleNextTask(l) ==
  \/ Elect(l) \/ Test(l) \/ UnlinkOptional(l) \/ Drop(l) \/ Promote(l)
  \/ ScheduleTask(l)

(***************************************************************************)
(* Devices and time.                                                       *)
(***************************************************************************)

Stopped == soft = "stopped"

\* OSScheduleSuspendedTask, called by the handler of a device.
SignalByInterrupt(s) ==
  /\ ~Stopped
  /\ IF s \in waiting
     THEN /\ waiting' = waiting \ {s}
          /\ reschedule' = <<s>> \o reschedule
          /\ pendSoft' = (pendSoft \/ booted)
          /\ UNCHANGED signaled
     ELSE /\ s \notin signaled
          /\ signaled' = signaled \cup {s}
          /\ UNCHANGED <<waiting, reschedule, pendSoft>>
  /\ UNCHANGED <<build, taskState, pattern, nextDeadline, mandatory, promoted,
                 next, arrivals, serverDeadline, active, noSave, context, tpc,
                 soft, times, pendSwap, clock, history>>

\* The kernel is at work, or asked for.
Busy ==
  \/ pendSoft \/ soft # "out" \/ pendSwap \/ swap # "out"
  \/ cur # Null /\ tpc[cur] \notin {"run", "sleep"}
Wraps == now = ShiftTimeLimit - 1
Matches == alarm = 1
Live(t) == ~Is(t, "zombie")
MustRun(t) == Live(t) /\ (t \in Synchronous \/ Is(t, "running") \/ mandatory[t])

\* The task whose code runs, and not the kernel's.
Executes(t) == Runs(t) /\ tpc[t] = "run" /\ work[t] > 0
Idling == Runs(Idle) /\ tpc[Idle] = "sleep"

\* The bounds on how long time goes on, as in HardKernel.
InTime ==
  IF costs
  THEN /\ Busy => latency < MaxLatency
       /\ Wraps => ~overflowFlag
       /\ \A t \in Periodic : MustRun(t) => left[t] > -MaxLateness
  ELSE Idling \/ \E t \in Task : Executes(t)

Tick ==
  /\ booted /\ ~Stopped /\ InTime
  /\ now' = IF Wraps THEN 0 ELSE now + 1
  /\ alarm' = IF alarm > 0 THEN alarm - 1 ELSE 0
  /\ comparatorFlag' = (comparatorFlag \/ Matches)
  /\ overflowFlag' = (overflowFlag \/ Wraps)
  /\ pendSoft' = (pendSoft \/ Matches \/ Wraps)
  /\ due' = [t \in Periodic |-> due[t] - 1]
  /\ left' = [t \in Task |-> IF Live(t) /\ (t \in Periodic \/ ~costs)
                             THEN left[t] - 1 ELSE 0]
  /\ work' = [t \in Task |-> IF Executes(t) THEN work[t] - 1 ELSE work[t]]
  /\ latency' = IF Busy THEN latency + 1 ELSE 0
  /\ UNCHANGED <<build, taskState, pattern, nextDeadline, mandatory, promoted,
                 next, arrivals, events, active, noSave, context, tpc, soft, times,
                 pendSwap, booted>>

(***************************************************************************)
(* The scheduler.                                                          *)
(***************************************************************************)

SoftAt(step) == soft = step

\* Mutant of FinalizeContextSwitchPreparation: a promotion is left as it is.
FinalizeEndOnly ==
  LET h == next[QHead]
  IN  IF Is(h, "zombie")
      THEN /\ next' = [next EXCEPT ![QHead] = next[h]]
           /\ noSave' = TRUE /\ UNCHANGED taskState
      ELSE UNCHANGED <<next, noSave, taskState>>

(* What the task interrupted was doing to the ready queue is completed: the *)
(* removal of a task that ended, or a promotion, from the step the links   *)
(* show.                                                                   *)
FinalizeContextSwitchPreparation ==
  LET h == next[QHead]
  IN  \/ /\ Is(h, "zombie")
         /\ next' = [next EXCEPT ![QHead] = next[h]]
         /\ noSave' = TRUE /\ UNCHANGED taskState
      \/ /\ ~Is(h, "zombie") /\ Is(h, "activate")
         /\ next' = IF next[h] # Idle
                    THEN [next EXCEPT ![Idle] = next[h], ![h] = Idle] ELSE next
         /\ taskState' = [taskState EXCEPT ![h] = {}]
         /\ noSave' = TRUE
      \/ /\ ~Is(h, "zombie") /\ ~Is(h, "activate")
         /\ UNCHANGED <<next, noSave, taskState>>

SoftTimerInterrupt ==
  /\ pendSoft /\ SoftAt("out")
  /\ pendSoft' = FALSE /\ soft' = "overflow"
  /\ FinalizeContextSwitchPreparation
  /\ active' = next'[QHead]
  /\ UNCHANGED <<build, pattern, nextDeadline, mandatory, promoted, arrivals,
                 events, context, tpc, times, pendSwap, clock, history>>

SubOrZeroIfNeg(x) == IF x < ShiftTimeLimit THEN 0 ELSE x - ShiftTimeLimit

\* The clock has begun a turn: every time is moved back by one, those of the
\* next mandatory arrivals too.
ShiftTimes ==
  LET Queued(t) == \E i \in DOMAIN arrivalQ : arrivalQ[i] = t
      Fewer(t, h) == IF Queued(t) /\ h[t] > 0 THEN h[t] - 1 ELSE h[t]
      Sooner(t, h, l) == IF Queued(t) /\ h[t] = 0 THEN l[t] - ShiftTimeLimit ELSE l[t]
  IN  /\ nextDeadline' = [t \in Task |->
           IF t \in Synchronous
           THEN IF EDF THEN SubOrZeroIfNeg(nextDeadline[t]) ELSE nextDeadline[t]
           ELSE IF t \in Nodes(Chain(QHead)) THEN nextDeadline[t] - ShiftTimeLimit
           ELSE nextDeadline[t]]
      /\ high' = [t \in Periodic |-> Fewer(t, high)]
      /\ mandHigh' = [t \in Periodic |-> Fewer(t, mandHigh)]
      /\ mandLow' = [t \in Periodic |-> Sooner(t, mandHigh, mandLow)]
      /\ low' = [t \in Task |->
           IF t \in Periodic THEN Sooner(t, high, low)
           ELSE IF ~EDF THEN SubOrZeroIfNeg(low[t])
           ELSE IF Queued(t) THEN low[t] - ShiftTimeLimit ELSE low[t]]
      /\ serverDeadline' = IF EDF THEN SubOrZeroIfNeg(serverDeadline)
                                  ELSE serverDeadline

TestOverflow ==
  /\ SoftAt("overflow") /\ soft' = "time"
  /\ overflowFlag' = FALSE
  /\ IF overflowFlag THEN ShiftTimes
     ELSE UNCHANGED <<nextDeadline, high, low, mandHigh, mandLow, serverDeadline>>
  /\ UNCHANGED <<build, taskState, instance, nextMandatory, nextIsMandatory, window,
                 mandatory, promoted, next, arrivalQ, reschedule, waiting, signaled,
                 active, noSave, context, tpc, times, pendSwap, pendSoft, booted,
                 now, alarm, comparatorFlag, history>>

ReadTime ==
  /\ SoftAt("time") /\ soft' = "arrivals"
  /\ comparatorFlag' = FALSE
  /\ currentTime' = now /\ lastHandlerTime' = now
  /\ UNCHANGED <<build, taskState, pattern, nextDeadline, mandatory, promoted,
                 next, arrivals, events, active, noSave, context, tpc, pendSwap,
                 pendSoft, booted, now, alarm, overflowFlag, history>>

HasArrived(t) == low[t] <= currentTime /\ (t \in Periodic => high[t] = 0)
Arrives(t) ==
  /\ SoftAt("arrivals")
  /\ arrivalQ # <<>> /\ t = arrivalQ[1] /\ HasArrived(t)

\* Where the search for an instance that never started stops: behind the
\* tail first, then from the head.
Predecessors(t) ==
  LET behind == {n \in Nodes(Chain(Idle)) : next[n] = t}
  IN  IF EDF /\ behind # {} THEN behind
      ELSE {n \in Nodes(Before(QHead, Idle)) : next[n] = t}

\* The optional instance before never started: out of the ready queue.
RemoveUnstarted(t) ==
  /\ t \in Periodic /\ Arrives(t) /\ Live(t) /\ ~MustRun(t)
  /\ next' = IF Predecessors(t) = {} THEN next
             ELSE [next EXCEPT ![CHOOSE n \in Predecessors(t) : TRUE] = next[t]]
  /\ Raise(t, "zombie")
  /\ work' = [work EXCEPT ![t] = 0]
  /\ UNCHANGED <<build, pattern, nextDeadline, mandatory, promoted, arrivals,
                 events, active, noSave, context, tpc, soft, times, pendSwap,
                 pendSoft, clock, due, left, latency>>

\* Mutant of InstanceAfter: a release that is skipped is not counted.
InstanceUnlessSkipped(t) == IF Live(t) THEN instance[t] ELSE (instance[t] + 1) % K[t]

\* The number of the instance released, and of the next mandatory one.
InstanceAfter(t) == (instance[t] + 1) % K[t]

MandatoryAfter(t) ==
  LET n == MandatoryFrom(t, nextMandatory[t] + 1) IN IF n >= K[t] THEN 0 ELSE n

(* The instance released is counted; after a mandatory one the number and  *)
(* the arrival time of the next mandatory one follow.                      *)
AdvancePattern(t) ==
  LET i == InstanceAfter(t)
      n == MandatoryFrom(t, nextMandatory[t] + 1)
      periods == Multiply46_16(t, n - nextMandatory[t])
      sum == periods[2] + low[t]
      carry == sum >= ShiftTimeLimit
      m == IF nextIsMandatory[t] THEN MandatoryAfter(t) ELSE nextMandatory[t]
  IN  /\ instance' = [instance EXCEPT ![t] = i]
      /\ nextMandatory' = [nextMandatory EXCEPT ![t] = m]
      /\ nextIsMandatory' = [nextIsMandatory EXCEPT ![t] = m = (i + 1) % K[t]]
      /\ IF nextIsMandatory[t]
         THEN /\ mandHigh' = [mandHigh EXCEPT ![t] = periods[1] + IF carry THEN 1 ELSE 0]
              /\ mandLow' = [mandLow EXCEPT ![t] =
                               IF carry THEN sum - ShiftTimeLimit ELSE sum]
         ELSE UNCHANGED <<mandHigh, mandLow>>
      /\ window' = [window EXCEPT ![t] =
           SubSeq(<<nextIsMandatory[t]>> \o @, 1, Least(K[t], Len(@) + 1))]

NextPeriodicArrival(t) ==
  LET sum == low[t] + PeriodLow[t]
      carry == sum >= ShiftTimeLimit
  IN  /\ high' = [high EXCEPT ![t] = PeriodHigh[t] + IF carry THEN 1 ELSE 0]
      /\ low' = [low EXCEPT ![t] = IF carry THEN sum - ShiftTimeLimit ELSE sum]
      /\ arrivalQ' = ArrivalQueueInsert(t, Tail(arrivalQ), high', low')
      /\ due' = [due EXCEPT ![t] = @ + Period(t)]

\* The ticks an instance may need; not counted when the kernel takes time.
Work(t) == IF costs THEN 0 ELSE WCET[t]

(* A periodic task released: an optional instance goes behind the tail     *)
(* under EDF, behind all mandatory ones under DM.                          *)
ReleasePeriodic(t) ==
  LET q == IF EDF /\ ~nextIsMandatory[t] THEN Chain(Idle) ELSE Before(QHead, Idle)
      Precedes(u) == ReadyPrecedes(t, u, nextDeadline', promoted')
  IN  /\ t \in Periodic /\ Arrives(t) /\ ~Live(t)
      /\ taskState' = [taskState EXCEPT ![t] = {}]
      /\ nextDeadline' = [nextDeadline EXCEPT ![t] = low[t] + Deadline[t]]
      /\ promoted' = [promoted EXCEPT ![t] = EDF \/ nextIsMandatory[t]]
      /\ next' = LinkedBehind(t, q, Precedes)
      /\ mandatory' = [mandatory EXCEPT ![t] = nextIsMandatory[t]]
      /\ AdvancePattern(t) /\ NextPeriodicArrival(t)
      /\ left' = [left EXCEPT ![t] = due[t] + Deadline[t]]
      /\ work' = [work EXCEPT ![t] = Work(t)]
      /\ UNCHANGED <<build, events, active, noSave, context, tpc, soft, times,
                     pendSwap, pendSoft, clock, latency>>

(* The instance before overruns: this release is skipped, but counted,     *)
(* unless Overrun stops the system.                                        *)
SkipRelease(t) ==
  /\ t \in Periodic /\ Arrives(t) /\ MustRun(t)
  /\ AdvancePattern(t) /\ NextPeriodicArrival(t)
  /\ soft' = IF OverrunStops THEN "stopped" ELSE soft
  /\ UNCHANGED <<build, taskState, nextDeadline, mandatory, promoted, next, events,
                 active, noSave, context, tpc, times, pendSwap, pendSoft, clock,
                 left, latency, work>>

\* GetSuspendedSchedulingDeadline.
GetSuspendedSchedulingDeadline(s) ==
  WorkLoad[s] + IF serverDeadline > currentTime THEN serverDeadline ELSE currentTime

\* An event-driven task enters the ready queue, its period from base on.
ReleaseSynchronous(s, base) ==
  LET Precedes(u) == ReadyPrecedes(s, u, nextDeadline', promoted)
  IN  /\ taskState' = [taskState EXCEPT ![s] = {}]
      /\ IF EDF
         THEN /\ serverDeadline' = GetSuspendedSchedulingDeadline(s)
              /\ nextDeadline' = [nextDeadline EXCEPT ![s] = serverDeadline']
              /\ UNCHANGED low
         ELSE /\ low' = [low EXCEPT ![s] = base + WorkLoad[s]]
              /\ UNCHANGED <<serverDeadline, nextDeadline>>
      /\ next' = LinkedBehind(s, Before(QHead, Idle), Precedes)
      /\ work' = [work EXCEPT ![s] = Work(s)]
      /\ left' = [left EXCEPT ![s] =
           IF costs THEN 0
           ELSE (IF EDF THEN serverDeadline' ELSE base + WorkLoad[s]) - currentTime]

ArriveSynchronous(s) ==
  /\ s \in Synchronous /\ Arrives(s)
  /\ ReleaseSynchronous(s, low[s])
  /\ arrivalQ' = Tail(arrivalQ)
  /\ UNCHANGED <<build, pattern, mandatory, promoted, high, reschedule, waiting,
                 signaled, active, noSave, context, tpc, soft, times, pendSwap,
                 pendSoft, clock, due, latency>>

ArrivalsDone ==
  /\ SoftAt("arrivals") /\ soft' = "reschedule"
  /\ arrivalQ # <<>> => ~HasArrived(arrivalQ[1])
  /\ UNCHANGED <<build, taskState, pattern, nextDeadline, mandatory, promoted,
                 next, arrivals, events, active, noSave, context, tpc, times,
                 pendSwap, pendSoft, clock, history>>

\* EmptyRescheduleSynchronousTaskList, a task at a time.
MustWait(s) == currentTime < IF EDF THEN nextDeadline[s] ELSE low[s]

RescheduleLater(s) ==
  /\ SoftAt("reschedule")
  /\ reschedule # <<>> /\ s = reschedule[1] /\ MustWait(s)
  /\ reschedule' = Tail(reschedule)
  /\ low' = IF EDF THEN [low EXCEPT ![s] = nextDeadline[s]] ELSE low
  /\ arrivalQ' = ArrivalQueueInsert(s, arrivalQ, high, low')
  /\ UNCHANGED <<build, taskState, pattern, nextDeadline, mandatory, promoted,
                 next, high, waiting, signaled, serverDeadline, active, noSave,
                 context, tpc, soft, times, pendSwap, pendSoft, clock, history>>

RescheduleNow(s) ==
  /\ SoftAt("reschedule")
  /\ reschedule # <<>> /\ s = reschedule[1] /\ ~MustWait(s)
  /\ reschedule' = Tail(reschedule)
  /\ ReleaseSynchronous(s, currentTime)
  /\ UNCHANGED <<build, pattern, mandatory, promoted, high, arrivalQ, waiting,
                 signaled, active, noSave, context, tpc, soft, times, pendSwap,
                 pendSoft, clock, due, latency>>

(* The list is empty: the comparator is set to the first arrival of this   *)
(* turn; one already past sends the scheduler back to its reading of time. *)
SetTimer ==
  LET a == arrivalQ[1]
      thisTurn == arrivalQ # <<>> /\ (a \in Periodic => high[a] = 0)
      ahead == low[a] > now
  IN  /\ SoftAt("reschedule") /\ reschedule = <<>>
      /\ soft' = IF thisTurn /\ ~ahead THEN "time" ELSE "pending"
      /\ alarm' = IF ~thisTurn THEN alarm ELSE IF ahead THEN low[a] - now ELSE 0
      /\ UNCHANGED <<build, taskState, pattern, nextDeadline, mandatory, promoted,
                     next, arrivals, events, active, noSave, context, tpc, times,
                     pendSwap, pendSoft, booted, now, overflowFlag, comparatorFlag,
                     history>>

ClearSoftTimerInterrupt ==
  /\ SoftAt("pending") /\ soft' = "check"
  /\ pendSoft' = FALSE
  /\ UNCHANGED <<build, taskState, pattern, nextDeadline, mandatory, promoted,
                 next, arrivals, events, active, noSave, context, tpc, times,
                 pendSwap, clock, history>>

\* Another round, or the election of the next task.
MoreToDo == overflowFlag \/ comparatorFlag \/ reschedule # <<>>

CheckFlags ==
  /\ SoftAt("check") /\ soft' = IF MoreToDo THEN "overflow" ELSE "elect"
  /\ UNCHANGED <<build, taskState, pattern, nextDeadline, mandatory, promoted,
                 next, arrivals, events, active, noSave, context, tpc, times,
                 pendSwap, pendSoft, clock, history>>

Scheduler ==
  \/ SoftTimerInterrupt \/ TestOverflow \/ ReadTime
  \/ \E t \in Task : \/ RemoveUnstarted(t) \/ ReleasePeriodic(t) \/ SkipRelease(t)
                     \/ ArriveSynchronous(t)
  \/ ArrivalsDone
  \/ \E s \in Synchronous : RescheduleLater(s) \/ RescheduleNow(s)
  \/ SetTimer \/ ClearSoftTimerInterrupt \/ CheckFlags
  \/ ScheduleNextTask(Null)

(***************************************************************************)
(* The context switch, as in HardKernel.                                   *)
(***************************************************************************)

SwapAt(step) == swap = step /\ soft = "out" /\ ~pendSoft
HasRun(t) == Is(t, "running")

\* The kernel is done, unless another switch was asked for meanwhile.
Done == latency' = IF pendSwap THEN latency ELSE 0

SwapEnter ==
  /\ SwapAt("out") /\ pendSwap
  /\ pendSwap' = FALSE
  /\ swap' = "test" /\ r1' = active
  /\ UNCHANGED <<build, taskState, pattern, nextDeadline, mandatory, promoted,
                 next, arrivals, events, active, noSave, cur, saved, tpc, soft,
                 times, pendSoft, clock, history>>

\* Back to the task interrupted, or its context saved, or wiped.
SwapTest ==
  /\ SwapAt("test")
  /\ \/ /\ ~noSave /\ HasRun(r1)
        /\ swap' = "out" /\ r1' = Null /\ Done
        /\ UNCHANGED <<cur, saved, noSave>>
     \/ /\ ~noSave /\ ~HasRun(r1)
        /\ saved' = <<cur>> \o saved /\ cur' = Null
        /\ swap' = "switch" /\ UNCHANGED <<r1, noSave, latency>>
     \/ /\ noSave
        /\ noSave' = FALSE /\ cur' = Null
        /\ swap' = "switch" /\ UNCHANGED <<r1, saved, latency>>
  /\ UNCHANGED <<build, taskState, pattern, nextDeadline, mandatory, promoted,
                 next, arrivals, events, active, tpc, soft, times, pendSwap,
                 pendSoft, clock, due, left, work>>

SwapCreate ==
  /\ SwapAt("switch") /\ ~HasRun(r1)
  /\ Raise(r1, "running")
  /\ cur' = r1 /\ tpc' = [tpc EXCEPT ![r1] = "run"]
  /\ swap' = "out" /\ r1' = Null /\ Done
  /\ UNCHANGED <<build, pattern, nextDeadline, mandatory, promoted, next, arrivals,
                 events, active, noSave, saved, soft, times, pendSwap, pendSoft,
                 clock, due, left, work>>

SwapRestore ==
  /\ SwapAt("switch") /\ HasRun(r1) /\ saved # <<>>
  /\ cur' = saved[1] /\ saved' = Tail(saved)
  /\ swap' = "out" /\ r1' = Null /\ Done
  /\ UNCHANGED <<build, taskState, pattern, nextDeadline, mandatory, promoted,
                 next, arrivals, events, active, noSave, tpc, soft, times,
                 pendSwap, pendSoft, clock, due, left, work>>

ContextSwap == SwapEnter \/ SwapTest \/ SwapCreate \/ SwapRestore

EndTask(t) == EndTaskZombie(t) \/ EndTaskNoSave(t) \/ EndTaskUnlink(t)

Next ==
  \/ IdleTask
  \/ \E t \in Task : EndTask(t) \/ SuspendSynchronousTask(t) \/ ScheduleNextTask(t)
  \/ \E s \in Synchronous : SignalByInterrupt(s)
  \/ Tick
  \/ Scheduler
  \/ ContextSwap

Spec == Init /\ [][Next]_vars
-----------------------------------------------------------------------------
(***************************************************************************)
(* Properties.                                                             *)
(***************************************************************************)

\* Every variable has its type.
TypeOK ==
  /\ mode \in Modes /\ costs \in KernelCosts
  /\ taskState \in [Task \cup {Idle} ->
                      SUBSET {"running", "zombie", "activate", "drop"}]
  /\ high \in [Periodic -> Nat] /\ low \in [Task -> Int]
  /\ mandHigh \in [Periodic -> Nat] /\ mandLow \in [Periodic -> Int]
  /\ nextDeadline \in [Task -> Int] /\ serverDeadline \in Nat
  /\ \A t \in Periodic : /\ instance[t] \in 0 .. K[t] - 1
                         /\ nextMandatory[t] \in 0 .. K[t] - 1
  /\ nextIsMandatory \in [Periodic -> BOOLEAN] /\ mandatory \in [Periodic -> BOOLEAN]
  /\ promoted \in [Task -> BOOLEAN] /\ next \in [Node -> Node \cup {Null}]
  /\ arrivalQ \in Seq(Task) /\ reschedule \in Seq(Synchronous)
  /\ waiting \subseteq Synchronous /\ signaled \subseteq Synchronous
  /\ active \in Task \cup {Idle} /\ cur \in Task \cup {Idle, Null}
  /\ saved \in Seq(Task \cup {Idle}) /\ r1 \in Task \cup {Idle, Null}
  /\ noSave \in BOOLEAN /\ pendSwap \in BOOLEAN /\ pendSoft \in BOOLEAN
  /\ now \in 0 .. ShiftTimeLimit - 1 /\ alarm \in Nat
  /\ \A t \in Periodic : Len(window[t]) <= K[t]

(* Where nobody is in the middle of a change of the ready queue.           *)
Changing == {"nosave", "unlink", "elect", "test", "unlinkOptional", "zombie",
             "head", "tail", "link", "init"}
Settled ==
  IF soft # "out" THEN soft \notin Changing \ {"elect", "test"}
  ELSE cur = Null \/ tpc[cur] \notin Changing

(* However a removal, a drop or a promotion is interrupted, the ready queue *)
(* is whole when the scheduler works on it and when it leaves: a chain to  *)
(* its end over the idle task, that holds each live instance once, the     *)
(* optional ones EDF has not admitted behind the idle task, and no zombie. *)
OneQueue ==
  LET q == Chain(QHead)
      queued == Nodes(q)
      Optional(t) == EDF /\ t \in Periodic /\ ~mandatory[t]
  IN  Settled =>
        /\ next[q[Len(q)]] = Null /\ Idle \in queued
        /\ Cardinality(queued) = Len(q)
        /\ \A t \in Task : Live(t) => t \in queued \/ Is(t, "drop")
        /\ \A t \in queued \cap Task : Live(t)
        /\ \A t \in Nodes(Chain(Idle)) \cap Task : Optional(t)

(* An optional instance put back behind the idle task, because its task is *)
(* released anew before it started, has nothing on the stack.              *)
NothingOnTheStack ==
  \A t \in Nodes(Chain(Idle)) \cap Task : ~Is(t, "running")

(* The contexts on the stack, from its top, are those of the started tasks *)
(* in the order of the ready queue: the context switch restores the task   *)
(* elected.  It is so until a switch starts a task whose instance has      *)
(* since been put behind the idle task: the stack then holds it above the  *)
(* idle task, the queue behind it.                                         *)
LiveContexts ==
  IF noSave \/ cur = Null \/ Is(cur, "zombie") THEN saved ELSE <<cur>> \o saved

ContextsMatch ==
  LET Started(n) == n # QHead /\ Is(n, "running")
  IN  Settled /\ NothingOnTheStack => SelectSeq(Chain(QHead), Started) = LiveContexts

(* The firm guarantee: of any K releases in a row of a task, M are of      *)
(* mandatory instances, the skipped and the dropped ones counted; and the  *)
(* time kept for the next mandatory arrival, which the admission test      *)
(* reads, lies as many periods after the next arrival as there are         *)
(* instances until it.                                                     *)
Mandatories(w) == Cardinality({i \in DOMAIN w : w[i]})
InstancesAhead(t) == (nextMandatory[t] + K[t] - ((instance[t] + 1) % K[t])) % K[t]

FirmGuarantee ==
  \A t \in Periodic :
    /\ Len(window[t]) = K[t] => Mandatories(window[t]) >= M[t]
    /\ mandHigh[t] * ShiftTimeLimit + mandLow[t]
         = high[t] * ShiftTimeLimit + low[t] + InstancesAhead(t) * Period(t)

(* The time the admission test compares deadlines with is that of the      *)
(* turn they are kept in, also when the clock has wrapped and the scheduler *)
(* has not yet moved them back.                                            *)
TaskTimeTrue ==
  \A l \in Task \cup {Null} :
    At(l, "test") => GetTaskTime = now + IF overflowFlag THEN ShiftTimeLimit ELSE 0

(* When only tasks take time, and none more than its WCET, an instance     *)
(* that is mandatory, event-driven or admitted has done its work by its    *)
(* deadline: an optional instance is admitted only if all of them still do. *)
DeadlinesMet ==
  ~costs => \A t \in Task : MustRun(t) /\ left[t] <= 0 => work[t] = 0

(* The state without the values no code reads before it sets them again.   *)
LiveState ==
  <<build, taskState, high, pattern,
    [t \in Task |-> IF t \in Periodic \/ ~EDF \/ \E i \in DOMAIN arrivalQ : arrivalQ[i] = t
                    THEN low[t] ELSE 0],
    [t \in Task |-> IF t \in Periodic /\ ~Live(t) THEN 0 ELSE nextDeadline[t]],
    [t \in Task |-> IF Live(t) THEN left[t] ELSE 0],
    [t \in Task |-> IF Live(t) THEN work[t] ELSE 0],
    [t \in Periodic |-> Live(t) /\ mandatory[t]], [t \in Task |-> ~Live(t) \/ promoted[t]],
    [t \in Node |-> IF t \in Task /\ ~Live(t) /\ t # active THEN Null ELSE next[t]],
    [t \in Task |-> IF t = cur \/ \E i \in DOMAIN saved : saved[i] = t
                    THEN tpc[t] ELSE "run"],
    arrivalQ, events, active, noSave, context, soft, times, pendSwap, pendSoft,
    clock, due, latency>>
=============================================================================

----------------------------- MODULE PowerAware -----------------------------
(***************************************************************************)
(* The power-aware kernel: at each release and each end of an instance the *)
(* slowest speed is chosen at which the instance to run still ends in      *)
(* time, by one of four policies.  OTE stretches a task alone up to the    *)
(* next arrival.  DRA runs beside the ready queue a simulation of it in    *)
(* which each instance takes its WCET, and gives a task what the simulated *)
(* instances before it have left.  DR_OTE is both.  DM_SLACK hands what an *)
(* instance leaves to those of lower priority.                             *)
(*                                                                         *)
(* The module is about these accounts, across preemptions, the turns of    *)
(* the clock, and timer interrupts at each step of an ending instance,     *)
(* whose half-done updates the handler completes.  Queues, contexts and    *)
(* the alarms are those of HardKernel, and simpler here: an arrival time   *)
(* is one number, the kernel's own code takes no time unless an interrupt  *)
(* comes in it, and a task is the one of its event.  An instance uses up   *)
(* its WCET at most, and is a zombie by then.                              *)
(***************************************************************************)
EXTENDS Integers, FiniteSets, SequencesExt

CONSTANTS
  Periodic, Synchronous,   \* numbers, in the order of the TCBs' addresses
  Policies,                \* the builds: POWER_MANAGEMENT, and if DM schedules
  Period, Deadline, WCET,
  WorkLoad,                \* of an event-driven task (PeriodLow under DM)
  AperiodicUtilization,    \* the share of event-driven tasks, in 256ths
  ShiftTimeLimit,          \* 2^30 in the code
  MaxSpeed, Ratio,         \* OS_MAX_SPEED; _OSSlowdownRatios, in 256ths
  MinimalProcessorSpeed

Task == Periodic \cup Synchronous
Idle == 0
Speed == 0 .. MaxSpeed

(* The checks of OSCreateTask and OSCreateSynchronousTask; the schedule    *)
(* leaves half a turn at least without the times being brought forward.    *)
PowerAssumption ==
  /\ Task \subseteq Nat \ {Idle} /\ Periodic \cap Synchronous = {}
  /\ Policies \subseteq [power : {"OTE", "DRA", "DR_OTE", "DM_SLACK"}, dm : BOOLEAN]
  /\ \A p \in Policies : p.power = "OTE" \/ p.dm = (p.power = "DM_SLACK")
  /\ \A t \in Periodic : WCET[t] \in 1 .. Deadline[t] /\ Deadline[t] <= Period[t]
  /\ \A s \in Synchronous : WCET[s] \in 1 .. WorkLoad[s]
  /\ \E t \in Periodic : 2 * Period[t] < ShiftTimeLimit
  /\ AperiodicUtilization \in 0 .. 255
  /\ MinimalProcessorSpeed \in Speed
  /\ \A s \in Speed : Ratio[s] \in 1 .. 256 /\ (Ratio[s] = 256 <=> s = MaxSpeed)

VARIABLES
  policy,                  \* the build, one of Policies
  \* The clock and the processor.
  now, overflowFlag, pending, speed,
  \* The TCBs and ETCBs.
  zombie, arrival, nextDeadline, currentArrival, remainingWork,
  \* The queues: who waits for its arrival among the event-driven tasks.
  readyQ, delayed, reschedule, waiting, signaled, serverDeadline,
  active, noSave,
  \* The simulation of DRA and its excess.
  simQ, completionTime, simTime, excess, excessTime,
  update,                  \* DRASimUpdateElapseTime under way: its place and locals
  pair,                    \* the statics of the pair of compare-and-stores
  \* The slack of DM_SLACK and its temporaries.
  slackAmount, slackPriority, slackInterrupt, slackTmp, reserved,
  lastUpdate,              \* LastRemainingWorkUpdate
  \* The tasks' places: before and after the one ending became a zombie.
  tpc, ending, epc, again,
  \* The handler's place and locals.
  hpc, savedSpeed, doUpdate, arriving, from,
  \* History: the work an instance has done, in 256ths; the ticks to its deadline.
  used, due,
  \* History, under DM_SLACK: since the processor was idle, an end took time it had
  \* handed over; the tasks the handler charged the time of another's end.
  slowEnd, charged

clock == <<now, overflowFlag>>
timing == <<arrival, nextDeadline, currentArrival>>
queues == <<readyQ, delayed, reschedule, waiting, signaled, serverDeadline>>
running == <<active, noSave>>
cells == <<simQ, completionTime, simTime, excess, excessTime>>
simulation == <<cells, update, pair>>
slack == <<slackAmount, slackPriority, slackInterrupt, slackTmp, reserved>>
tasks == <<tpc, ending, epc, again>>
handler == <<hpc, savedSpeed, doUpdate, arriving, from>>
history == <<used, due, slowEnd, charged>>
vars == <<policy, clock, pending, speed, zombie, timing, remainingWork, queues,
          running, simulation, slack, lastUpdate, tasks, handler, history>>

Simulates == policy.power \in {"DRA", "DR_OTE"}
Slack == policy.power = "DM_SLACK"

NoUpdate == [pc |-> "idle", time |-> 0, old |-> 0, completed |-> 0, excess |-> 0]
NoPair == [phase |-> 2, stored |-> FALSE, cell |-> <<>>, expected |-> <<>>, new |-> <<>>]

Init ==
  /\ policy \in Policies
  /\ now = 0 /\ overflowFlag = FALSE /\ pending = TRUE /\ speed = MaxSpeed
  /\ zombie = [t \in Task |-> TRUE]
  /\ arrival = [t \in Task |-> 0] /\ nextDeadline = [t \in Task |-> 0]
  /\ currentArrival = [t \in Task |-> 0] /\ remainingWork = [t \in Task |-> 0]
  /\ readyQ = <<>> /\ delayed = {} /\ reschedule = {} /\ waiting = Synchronous
  /\ signaled = {} /\ serverDeadline = 0
  /\ active = Idle /\ noSave = FALSE
  /\ simQ = <<>> /\ completionTime = [t \in Task |-> 0]
  /\ simTime = 0 /\ excess = 0 /\ excessTime = 0 /\ update = NoUpdate /\ pair = NoPair
  /\ slackAmount = 0 /\ slackPriority = 0 /\ slackInterrupt = FALSE /\ reserved = FALSE
  /\ slackTmp = [work |-> 0, priority |-> 0, time |-> 0]
  /\ lastUpdate = 0
  /\ tpc = [t \in Task |-> "out"] /\ ending = Idle /\ epc = "out" /\ again = FALSE
  /\ hpc = "out" /\ savedSpeed = MaxSpeed /\ doUpdate = FALSE
  /\ arriving = Idle /\ from = "out"
  /\ used = [t \in Task |-> 0] /\ due = [t \in Task |-> 0]
  /\ slowEnd = FALSE /\ charged = {}

(***************************************************************************)
(* Times, works and queues.                                                *)
(***************************************************************************)

ScaleBy256ths(time, ratio) == (time * ratio) \div 256
Slowdown(time, s) == ScaleBy256ths(time, Ratio[s])
OrZero(n) == IF n < 0 THEN 0 ELSE n
Lesser(a, b) == IF a < b THEN a ELSE b
Greater(a, b) == IF a > b THEN a ELSE b

First(q) == IF q = <<>> THEN Idle ELSE q[1]

\* The place of a task under DM, as GetTaskPriority counts it.
Term(t) == IF t \in Periodic THEN Deadline[t] ELSE WorkLoad[t]
Priority(t) == Cardinality({u \in Task : \/ Term(u) < Term(t)
                                         \/ Term(u) = Term(t) /\ u < t})

\* ReadyQueueInsertTestKey, under DM and EDF*.
Precedes(t, u, deadline, released) ==
  IF policy.dm THEN Priority(t) < Priority(u)
  ELSE \/ deadline[t] < deadline[u]
       \/ /\ deadline[t] = deadline[u]
          /\ \/ released[u] < released[t]
             \/ released[u] = released[t] /\ u < t

\* InsertQueue, into the ready queue.
ReadyQueueInsert(t, deadline, released) ==
  LET n == CHOOSE i \in 1 .. Len(readyQ) + 1 :
             /\ i > Len(readyQ) \/ Precedes(t, readyQ[i], deadline, released)
             /\ \A j \in 1 .. i - 1 : ~Precedes(t, readyQ[j], deadline, released)
  IN  InsertAt(readyQ, n, t)

\* DRASimQueueInsert: a previous instance met on the way is taken out.
DRASimQueueInsert(t) ==
  LET Stops(i) == i > Len(simQ) \/ /\ simQ[i] # t
                                   /\ Precedes(t, simQ[i], nextDeadline, currentArrival)
      n == CHOOSE i \in 1 .. Len(simQ) + 1 : Stops(i) /\ \A j \in 1 .. i - 1 : ~Stops(j)
  IN  Remove(SubSeq(simQ, 1, n - 1), t) \o <<t>> \o SubSeq(simQ, n, Len(simQ))

\* GetSuspendedSchedulingDeadline: the total bandwidth server's.
ServerDeadline(s) == WorkLoad[s] + IF serverDeadline > now THEN serverDeadline ELSE now

\* _OSGetActualTime read by a task, in the turn of the kernel's times.
GetTaskTime ==
  IF lastUpdate - now > ShiftTimeLimit \div 2 THEN now + ShiftTimeLimit ELSE now

ArrivalQ == Periodic \cup delayed
GetNextArrival ==
  LET a == CHOOSE x \in {arrival[t] : t \in ArrivalQ} :
             \A t \in ArrivalQ : x <= arrival[t]
      t == CHOOSE x \in ArrivalQ : arrival[x] = a
  IN  IF t \in Synchronous \/ a < ShiftTimeLimit THEN a
      ELSE (a % ShiftTimeLimit) + ShiftTimeLimit

\* 2^31 - 1 stands for no event-driven task; Never is a time later than any.
Never == 4 * ShiftTimeLimit
GetEarliestAperiodicArrival ==
  LET times == {IF policy.dm THEN arrival[s] ELSE nextDeadline[s] : s \in Synchronous}
  IN  CHOOSE x \in times \cup {Never} : \A y \in times : x <= y

(***************************************************************************)
(* The choice of a speed.                                                  *)
(***************************************************************************)

SumCompletion(q) == FoldLeft(LAMBDA sum, t : sum + completionTime[t], 0, q)

\* GetDRASlackTime: up to the instance and with it, none once it has left.
GetDRASlackTime(t) ==
  IF Contains(simQ, t) THEN SumCompletion(SubSeq(simQ, 1, SelectInSeq(simQ, LAMBDA u : u = t)))
  ELSE 0

\* OTE: a task alone goes on until the next release or its own deadline.
Stretch(t, time) ==
  LET aperiodic == GetEarliestAperiodicArrival
      release == IF aperiodic < GetNextArrival THEN Greater(aperiodic, time)
                 ELSE GetNextArrival
  IN  IF Len(readyQ) = 1 THEN Lesser(release, nextDeadline[t]) - time ELSE 0

\* The time the policy gives the task's remaining work.
Granted(t, time) ==
  CASE policy.power = "OTE" -> Stretch(t, time)
    [] policy.power = "DRA" -> GetDRASlackTime(t)
    [] policy.power = "DR_OTE" -> Greater(GetDRASlackTime(t), Stretch(t, time))
    [] policy.power = "DM_SLACK" ->
         IF Priority(t) > slackPriority /\ slackAmount > 0
         THEN Greater(Stretch(t, time), slackAmount + remainingWork[t])
         ELSE Stretch(t, time)

\* Mutant of GetProcessorSpeed: the work is rounded in the task's favour.
GetProcessorSpeedRounded(t, time) ==
  LET Enough(s) == remainingWork[t] <= Slowdown(Granted(t, time), s) + 1
  IN  IF t \in Synchronous \/ remainingWork[t] <= 0 THEN MaxSpeed
      ELSE CHOOSE s \in MinimalProcessorSpeed .. MaxSpeed :
             /\ Enough(s) \/ s = MaxSpeed
             /\ \A r \in MinimalProcessorSpeed .. s - 1 : ~Enough(r)

\* A time no longer than the work is enough at no speed but the fastest.
GetProcessorSpeed(t, time) ==
  LET Enough(s) == remainingWork[t] <= Slowdown(Granted(t, time), s)
  IN  IF t \in Synchronous \/ remainingWork[t] <= 0 THEN MaxSpeed
      ELSE CHOOSE s \in MinimalProcessorSpeed .. MaxSpeed :
             /\ Enough(s) \/ s = MaxSpeed
             /\ \A r \in MinimalProcessorSpeed .. s - 1 : ~Enough(r)

\* What the time to newTime takes off the remaining work of a task.
Completed(s, newTime) == Slowdown(newTime - lastUpdate, s)

\* OSSuspendSynchronousTask masks interrupts until the task has left.
Masked == ending \in Synchronous /\ epc \in {"nosave", "update"}

\* A task goes on unless an interrupt is to be taken.
TaskTurn == hpc = "out" /\ (pending => Masked)

(***************************************************************************)
(* The pairs of compare-and-stores, InterruptibleINT32CAS2 and MixCAS2.    *)
(* A cell is <<name, task>>; the successor of a head is its queue's tail.  *)
(***************************************************************************)

Value(c) ==
  CASE c[1] = "excessTime" -> excessTime
    [] c[1] = "excess" -> excess
    [] c[1] = "simTime" -> simTime
    [] c[1] = "simHead" -> First(simQ)
    [] c[1] = "completion" -> completionTime[c[2]]

Store(c, v) ==
  /\ excessTime' = IF c[1] = "excessTime" THEN v ELSE excessTime
  /\ excess' = IF c[1] = "excess" THEN v ELSE excess
  /\ simTime' = IF c[1] = "simTime" THEN v ELSE simTime
  /\ simQ' = IF c[1] = "simHead" THEN Tail(simQ) ELSE simQ
  /\ completionTime' = IF c[1] = "completion" THEN [completionTime EXCEPT ![c[2]] = v]
                       ELSE completionTime

\* The operands of a new pair, unless one is pending, which is then done again.
BeginPair(c1, e1, v1, c2, e2, v2) ==
  pair' = IF pair.phase < 2 THEN pair
          ELSE [phase |-> 0, stored |-> FALSE, cell |-> <<c1, c2>>,
                expected |-> <<e1, e2>>, new |-> <<v1, v2>>]

\* Who is in a pair: the task ending, or the handler, on entry or in an update.
InPair == pair.phase < 2 /\ (TaskTurn \/ hpc \in {"help", "simulate", "choose"})
PairDone == pair.phase = 2

PairStore ==
  /\ InPair /\ ~pair.stored
  /\ LET c == pair.cell[pair.phase + 1] IN
       IF Value(c) = pair.expected[pair.phase + 1]
       THEN Store(c, pair.new[pair.phase + 1])
       ELSE UNCHANGED cells
  /\ pair' = [pair EXCEPT !.stored = TRUE]
  /\ UNCHANGED <<policy, clock, pending, speed, zombie, timing, remainingWork, queues,
                 running, update, slack, lastUpdate, tasks, handler, history>>

PairStep ==
  /\ InPair /\ pair.stored
  /\ pair' = [pair EXCEPT !.stored = FALSE, !.phase = @ + 1]
  /\ UNCHANGED <<policy, clock, pending, speed, zombie, timing, remainingWork, queues,
                 running, cells, update, slack, lastUpdate, tasks, handler, history>>

(***************************************************************************)
(* DRASimUpdateElapseTime, in the task ending or in the handler.           *)
(***************************************************************************)

StartUpdate(newTime) ==
  update' = [NoUpdate EXCEPT !.pc = IF Synchronous = {} THEN "advance" ELSE "excess",
                             !.time = newTime]

Updated == update.pc = "idle" /\ PairDone
Updating(pc) ==
  update.pc = pc /\ PairDone /\ (TaskTurn \/ hpc \in {"simulate", "choose"})

\* The share of the event-driven tasks since the last of their deadlines.
NewExcess ==
  IF update.time > serverDeadline
  THEN ScaleBy256ths(update.time - Greater(excessTime, serverDeadline),
                     AperiodicUtilization) + excess
  ELSE 0

UpdateExcess ==
  /\ Updating("excess")
  /\ BeginPair(<<"excessTime", Idle>>, excessTime, update.time,
               <<"excess", Idle>>, excess, NewExcess)
  /\ update' = [update EXCEPT !.pc = "advance", !.excess = NewExcess]

\* The excess takes the time first, and all of it if it is longer.
UpdateAdvance ==
  LET time == update.time - simTime
      taken == Lesser(update.excess, time)
  IN  /\ Updating("advance")
      /\ update' = IF update.excess > time THEN NoUpdate
                   ELSE [update EXCEPT !.pc = "loop", !.old = simTime + taken,
                                       !.completed = time - taken]
      /\ IF update.excess > 0
         THEN BeginPair(<<"simTime", Idle>>, simTime, simTime + taken,
                        <<"excess", Idle>>, update.excess, update.excess - taken)
         ELSE UNCHANGED pair

\* Nothing is left to simulate: the simulation's time catches up.
UpdateEmpty ==
  /\ simQ = <<>>
  /\ simTime' = IF simTime = update.old THEN update.time ELSE simTime
  /\ update' = NoUpdate
  /\ UNCHANGED <<pair, simQ, completionTime, excess, excessTime>>

\* The instance simulated goes on after the update, or ends in it.
UpdateHead ==
  LET t == First(simQ)  left == completionTime[t] IN
  /\ simQ # <<>>
  /\ IF left > update.completed
     THEN /\ BeginPair(<<"simTime", Idle>>, update.old, update.time,
                       <<"completion", t>>, left, left - update.completed)
          /\ update' = NoUpdate
     ELSE /\ BeginPair(<<"simTime", Idle>>, update.old, update.old + left,
                       <<"simHead", Idle>>, t, First(Tail(simQ)))
          /\ update' = [update EXCEPT !.old = @ + left, !.completed = @ - left]
  /\ UNCHANGED cells

UpdateLoop ==
  /\ Updating("loop")
  /\ IF update.completed <= 0 THEN update' = NoUpdate /\ UNCHANGED <<cells, pair>>
     ELSE UpdateEmpty \/ UpdateHead

DRASimUpdateElapseTime ==
  /\ \/ (UpdateExcess \/ UpdateAdvance) /\ UNCHANGED cells
     \/ UpdateLoop
  /\ UNCHANGED <<policy, clock, pending, speed, zombie, timing, remainingWork, queues,
                 running, slack, lastUpdate, tasks, handler, history>>

(***************************************************************************)
(* Time, events and the work of the tasks.                                 *)
(***************************************************************************)

\* The task executing: an ending one until the switch away from it.
Executing == IF ending # Idle THEN ending ELSE active

\* Whether the task executing is between the end of its work and its switch.
Ends == ending # Idle \/ (active # Idle /\ tpc[active] # "run")

\* Bound: who has used up its WCET is a zombie when it is interrupted.
EndedInTime(u) == \A t \in Range(readyQ) : u[t] = 256 * WCET[t] => zombie[t]

\* An end that has handed over as slack the time it goes on to take.
SlackGone == Slack /\ (ending # Idle \/ (active # Idle /\ tpc[active] = "end"))

Tick ==
  LET t == Executing
      next == IF now + 1 = ShiftTimeLimit THEN 0 ELSE now + 1
  IN  /\ hpc = "out" /\ ~pending
      /\ t # Idle => used[t] < 256 * WCET[t]
      /\ now' = next /\ overflowFlag' = (next = 0)
      /\ pending' = (next = 0 \/ \E u \in ArrivalQ : arrival[u] <= next)
      /\ Ends => pending'
      /\ used' = [u \in Task |-> IF u # t THEN used[u]
                                 ELSE Lesser(used[u] + Ratio[speed], 256 * WCET[u])]
      /\ pending' => EndedInTime(used')
      /\ due' = [u \in Task |-> IF zombie[u] THEN 0 ELSE due[u] - 1]
      /\ slowEnd' = (slowEnd \/ SlackGone)
      /\ UNCHANGED <<policy, speed, zombie, timing, remainingWork, queues, running,
                     simulation, slack, lastUpdate, tasks, handler, charged>>

(* OSScheduleSuspendedTask, from a device. Between the steps of the        *)
(* handler a signal is as one before or after it.                          *)
Signal(s) ==
  /\ hpc = "out" /\ ~Masked /\ EndedInTime(used)
  /\ IF s \in waiting
     THEN /\ waiting' = waiting \ {s} /\ reschedule' = reschedule \cup {s}
          /\ pending' = TRUE /\ UNCHANGED signaled
     ELSE /\ s \notin signaled /\ signaled' = signaled \cup {s}
          /\ UNCHANGED <<waiting, reschedule, pending>>
  /\ UNCHANGED <<policy, clock, speed, zombie, timing, remainingWork, readyQ, delayed,
                 serverDeadline, running, simulation, slack, lastUpdate, tasks, handler,
                 history>>

(***************************************************************************)
(* The end of an instance.                                                 *)
(***************************************************************************)

Runs(t, pc) == TaskTurn /\ active = t /\ ending = Idle /\ tpc[t] = pc

Goto(t, pc) ==
  /\ tpc' = [tpc EXCEPT ![t] = pc]
  /\ UNCHANGED <<ending, epc, again>>

\* A task calls OSEndTask or OSSuspendSynchronousTask.
BeginEnd(t) ==
  /\ Runs(t, "run")
  /\ Goto(t, IF Slack THEN "slack" ELSE "end")
  /\ UNCHANGED <<policy, clock, pending, speed, zombie, timing, remainingWork, queues,
                 running, simulation, slack, lastUpdate, handler, history>>

\* DMSlackCalculateSlack, from the LL to the stores of its temporaries.
DMSlackCalculateSlack(t) ==
  /\ Runs(t, "slack")
  /\ reserved' = TRUE
  /\ slackTmp' = [work |-> OrZero(remainingWork[t] - Completed(speed, GetTaskTime)),
                  priority |-> Priority(t), time |-> GetTaskTime]
  /\ Goto(t, "store")
  /\ UNCHANGED <<policy, clock, pending, speed, zombie, timing, remainingWork, queues,
                 running, simulation, slackAmount, slackPriority, slackInterrupt,
                 lastUpdate, handler, history>>

\* The SC, which fails if an interrupt came since the LL.
DMSlackStore(t) ==
  /\ Runs(t, "store")
  /\ reserved' = FALSE /\ slackInterrupt' = (slackInterrupt \/ reserved)
  /\ Goto(t, IF reserved THEN "end" ELSE "slack")
  /\ UNCHANGED <<policy, clock, pending, speed, zombie, timing, remainingWork, queues,
                 running, simulation, slackAmount, slackPriority, slackTmp,
                 lastUpdate, handler, history>>

\* OSEndTask: a zombie, before its context is said not to be saved.
EndTask(t) ==
  /\ Runs(t, "end") /\ t \in Periodic
  /\ zombie' = [zombie EXCEPT ![t] = TRUE]
  /\ tpc' = [tpc EXCEPT ![t] = "out"] /\ ending' = t /\ epc' = "nosave"
  /\ UNCHANGED <<policy, clock, pending, speed, timing, remainingWork, queues, running,
                 simulation, slack, lastUpdate, again, handler, history>>

\* OSSuspendSynchronousTask masks interrupts, and takes a pending signal or waits.
SuspendSynchronousTask(s) ==
  /\ Runs(s, "end") /\ s \in Synchronous
  /\ again' = (s \in signaled) /\ signaled' = signaled \ {s}
  /\ waiting' = IF s \in signaled THEN waiting ELSE waiting \cup {s}
  /\ zombie' = [zombie EXCEPT ![s] = TRUE]
  /\ tpc' = [tpc EXCEPT ![s] = "out"] /\ ending' = s /\ epc' = "nosave"
  /\ UNCHANGED <<policy, clock, pending, speed, timing, remainingWork, readyQ, delayed,
                 reschedule, serverDeadline, running, simulation, slack, lastUpdate,
                 handler, history>>

EndAt(pc) == TaskTurn /\ ending # Idle /\ epc = pc

Continue(pc) == epc' = pc /\ UNCHANGED <<tpc, ending, again>>

\* The context is not to be saved, and the time used is taken off the simulation.
NoSaveContext ==
  /\ EndAt("nosave") /\ noSave' = TRUE /\ Continue("update")
  /\ IF Simulates THEN StartUpdate(GetTaskTime) ELSE UNCHANGED update
  /\ UNCHANGED <<policy, clock, pending, speed, zombie, timing, remainingWork, queues,
                 active, cells, pair, slack, lastUpdate, handler, history>>

\* The task leaves the ready queue; one signaled again asks for the handler.
RemoveTask ==
  /\ EndAt("update") /\ Updated
  /\ readyQ' = Tail(readyQ) /\ active' = First(Tail(readyQ))
  /\ reschedule' = IF again THEN reschedule \cup {ending} ELSE reschedule
  /\ pending' = (pending \/ again)
  /\ again' = FALSE /\ epc' = "slack"
  /\ UNCHANGED <<policy, clock, speed, zombie, timing, remainingWork, delayed, waiting,
                 signaled, serverDeadline, noSave, simulation, slack, lastUpdate, tpc,
                 ending, handler, history>>

\* What an interrupt or the task ending makes of a pending slack.
InstallSlack ==
  /\ slackAmount' = slackTmp.work /\ slackPriority' = slackTmp.priority
  /\ lastUpdate' = slackTmp.time /\ slackInterrupt' = FALSE
  /\ UNCHANGED slackTmp

DMSlackUpdateSlack ==
  /\ EndAt("slack") /\ Continue("last")
  /\ IF slackInterrupt THEN InstallSlack /\ UNCHANGED reserved
     ELSE UNCHANGED <<slack, lastUpdate>>
  /\ UNCHANGED <<policy, clock, pending, speed, zombie, timing, remainingWork, queues,
                 running, simulation, handler, history>>

\* The time from which the next task's work is counted.
LastUpdate ==
  /\ EndAt("last") /\ Continue(IF active = Idle THEN "switch" ELSE "speed")
  /\ lastUpdate' = IF active = Idle THEN lastUpdate
                   ELSE IF Simulates THEN simTime ELSE GetTaskTime
  /\ UNCHANGED <<policy, clock, pending, speed, zombie, timing, remainingWork, queues,
                 running, simulation, slack, handler, history>>

NextSpeed ==
  /\ EndAt("speed") /\ Continue("switch")
  /\ speed' = GetProcessorSpeed(active, lastUpdate)
  /\ UNCHANGED <<policy, clock, pending, zombie, timing, remainingWork, queues, running,
                 simulation, slack, lastUpdate, handler, history>>

\* _OSScheduleTask: the switch, if no interrupt comes before it.
SwitchTask ==
  /\ EndAt("switch")
  /\ noSave' = FALSE /\ ending' = Idle /\ epc' = "out"
  /\ UNCHANGED <<policy, clock, pending, speed, zombie, timing, remainingWork, queues,
                 active, simulation, slack, lastUpdate, tpc, again, handler, history>>

(***************************************************************************)
(* _OSTimerInterruptHandler.                                               *)
(***************************************************************************)

\* On entry the fastest speed, and FinalizeContextSwitchPreparation.
TimerInterrupt ==
  LET ended == readyQ # <<>> /\ zombie[First(readyQ)] IN
  /\ hpc = "out" /\ pending /\ ~Masked
  /\ pending' = FALSE
  /\ savedSpeed' = speed /\ speed' = MaxSpeed
  /\ readyQ' = IF ended THEN Tail(readyQ) ELSE readyQ
  /\ active' = First(readyQ') /\ noSave' = (noSave \/ ended)
  /\ hpc' = "help" /\ doUpdate' = TRUE
  /\ update' = NoUpdate /\ pair' = [pair EXCEPT !.stored = FALSE] /\ reserved' = FALSE
  /\ UNCHANGED <<policy, clock, zombie, timing, remainingWork, delayed, reschedule,
                 waiting, signaled, serverDeadline, cells, slackAmount, slackPriority,
                 slackInterrupt, slackTmp, lastUpdate, tasks, arriving, from, history>>

At(pc) == hpc = pc /\ Updated
Handle(pc) == hpc' = pc /\ UNCHANGED <<savedSpeed, doUpdate, arriving, from>>

\* SubOrZeroIfNeg
SubOrZero(time) == OrZero(time - ShiftTimeLimit)

\* Mutant of ShiftTimes: the zombies of the simulation are left behind.
ShiftTimesOfReady ==
  LET Moves(t) == t \in Periodic /\ Contains(readyQ, t)
  IN  /\ arrival' = [t \in Task |->
           IF t \in Periodic \/ (t \in delayed /\ ~policy.dm) THEN arrival[t] - ShiftTimeLimit
           ELSE IF policy.dm THEN SubOrZero(arrival[t]) ELSE arrival[t]]
      /\ nextDeadline' = [t \in Task |->
           IF Moves(t) THEN nextDeadline[t] - ShiftTimeLimit
           ELSE IF t \in Synchronous THEN SubOrZero(nextDeadline[t]) ELSE nextDeadline[t]]
      /\ currentArrival' = [t \in Task |->
           IF policy.dm THEN currentArrival[t]
           ELSE IF Moves(t) THEN currentArrival[t] - ShiftTimeLimit
           ELSE IF t \in delayed THEN SubOrZero(currentArrival[t]) ELSE currentArrival[t]]
      /\ serverDeadline' = SubOrZero(serverDeadline)
      /\ lastUpdate' = lastUpdate - ShiftTimeLimit
      /\ slackTmp' = IF slackInterrupt THEN [slackTmp EXCEPT !.time = @ - ShiftTimeLimit]
                     ELSE slackTmp
      /\ simTime' = IF Simulates THEN simTime - ShiftTimeLimit ELSE simTime
      /\ excessTime' = SubOrZero(excessTime)

(* The turn of the clock: all times go back, of the periodic tasks ready,  *)
(* of the zombies still simulated, of all arrivals, of the event-driven    *)
(* tasks and of the accounts.                                              *)
ShiftTimes ==
  LET Moves(t) == /\ t \in Periodic
                  /\ Contains(readyQ, t) \/ (zombie[t] /\ Contains(simQ, t))
  IN  /\ arrival' = [t \in Task |->
           IF t \in Periodic \/ (t \in delayed /\ ~policy.dm) THEN arrival[t] - ShiftTimeLimit
           ELSE IF policy.dm THEN SubOrZero(arrival[t]) ELSE arrival[t]]
      /\ nextDeadline' = [t \in Task |->
           IF Moves(t) THEN nextDeadline[t] - ShiftTimeLimit
           ELSE IF t \in Synchronous THEN SubOrZero(nextDeadline[t]) ELSE nextDeadline[t]]
      /\ currentArrival' = [t \in Task |->
           IF policy.dm THEN currentArrival[t]
           ELSE IF Moves(t) THEN currentArrival[t] - ShiftTimeLimit
           ELSE IF t \in delayed THEN SubOrZero(currentArrival[t]) ELSE currentArrival[t]]
      /\ serverDeadline' = SubOrZero(serverDeadline)
      /\ lastUpdate' = lastUpdate - ShiftTimeLimit
      /\ slackTmp' = IF slackInterrupt THEN [slackTmp EXCEPT !.time = @ - ShiftTimeLimit]
                     ELSE slackTmp
      /\ simTime' = IF Simulates THEN simTime - ShiftTimeLimit ELSE simTime
      /\ excessTime' = SubOrZero(excessTime)

\* Once a pair left half done by the task interrupted is finished.
Shift ==
  /\ hpc = "help" /\ PairDone /\ Handle("arrive")
  /\ overflowFlag' = FALSE
  /\ IF overflowFlag THEN ShiftTimes
     ELSE UNCHANGED <<timing, serverDeadline, lastUpdate, slackTmp, simTime, excessTime>>
  /\ UNCHANGED <<policy, now, pending, speed, zombie, remainingWork, readyQ, delayed,
                 reschedule, waiting, signaled, running, simQ, completionTime, excess,
                 update, pair, slackAmount, slackPriority, slackInterrupt, reserved,
                 tasks, history>>

\* Where a release goes on: into the simulation, brought up to date first.
Simulate(t, pc) ==
  /\ arriving' = t /\ from' = pc /\ hpc' = IF Simulates THEN "simulate" ELSE pc
  /\ IF Simulates /\ doUpdate /\ First(readyQ') # active
     THEN StartUpdate(now) /\ doUpdate' = FALSE
     ELSE UNCHANGED <<update, doUpdate>>
  /\ UNCHANGED savedSpeed

\* An instance released: no longer a zombie, ready, and with all its work to do.
Release(t, time) ==
  /\ zombie[t] /\ zombie' = [zombie EXCEPT ![t] = FALSE]
  /\ readyQ' = ReadyQueueInsert(t, nextDeadline', currentArrival')
  /\ remainingWork' = IF t \in Periodic \/ Slack
                      THEN [remainingWork EXCEPT ![t] = WCET[t]] ELSE remainingWork
  /\ tpc' = [tpc EXCEPT ![t] = "run"]
  /\ used' = [used EXCEPT ![t] = 0] /\ charged' = charged \ {t}
  /\ due' = [due EXCEPT ![t] = (IF policy.dm THEN time + Term(t)
                                ELSE nextDeadline'[t]) - now]
  /\ UNCHANGED <<policy, clock, pending, speed, waiting, signaled, running, simQ, simTime,
                 excess, excessTime, pair, slack, lastUpdate, ending, epc, again, slowEnd>>

Due(t) == t \in ArrivalQ /\ arrival[t] <= now

\* An arrival: those at one time come in any order.
Arrive(t) ==
  /\ At("arrive") /\ Due(t) /\ \A u \in Task : Due(u) => arrival[t] <= arrival[u]
  /\ nextDeadline' =
       IF t \in Periodic THEN [nextDeadline EXCEPT ![t] = arrival[t] + Deadline[t]]
       ELSE IF policy.dm THEN nextDeadline
       ELSE [nextDeadline EXCEPT ![t] = ServerDeadline(t)]
  /\ serverDeadline' = IF t \in Synchronous /\ ~policy.dm THEN ServerDeadline(t)
                       ELSE serverDeadline
  /\ currentArrival' = IF policy.dm THEN currentArrival
                       ELSE [currentArrival EXCEPT ![t] = arrival[t]]
  /\ arrival' = IF t \in Periodic THEN [arrival EXCEPT ![t] = @ + Period[t]]
                ELSE IF policy.dm THEN [arrival EXCEPT ![t] = @ + WorkLoad[t]] ELSE arrival
  /\ delayed' = delayed \ {t}
  /\ Release(t, arrival[t]) /\ Simulate(t, "arrive")
  /\ UNCHANGED <<reschedule, completionTime>>

\* The simulation gets the new instance, in the place of the previous one.
SimulateArrival ==
  /\ At("simulate") /\ Handle(from)
  /\ completionTime' = IF from = "arrive"
                       THEN [completionTime EXCEPT ![arriving] = WCET[arriving]]
                       ELSE completionTime
  /\ simQ' = DRASimQueueInsert(arriving)
  /\ UNCHANGED <<policy, clock, pending, speed, zombie, timing, remainingWork, queues,
                 running, simTime, excess, excessTime, update, pair, slack, lastUpdate,
                 tasks, history>>

\* Mutant of Charged: who is active, though the task interrupted was ending.
ChargedAnyway == IF Slack THEN active # Idle ELSE active \in Periodic

\* Whether the task active is the one that ran until the interrupt.
Charged == IF Slack THEN active # Idle ELSE ~noSave /\ active \in Periodic

(* UpdateRemainingWork: what the task interrupted has done is taken off    *)
(* its work; under DM_SLACK the slack is installed, or runs out with time. *)
UpdateRemainingWork ==
  /\ At("arrive") /\ ~\E t \in Task : Due(t)
  /\ Handle("reschedule")
  /\ IF Slack /\ slackInterrupt THEN InstallSlack /\ UNCHANGED remainingWork
     ELSE /\ remainingWork' = IF Charged
               THEN [remainingWork EXCEPT ![active] = @ - Completed(savedSpeed, now)]
               ELSE remainingWork
          /\ lastUpdate' = IF Charged \/ Slack THEN now ELSE lastUpdate
          /\ slackAmount' = IF Slack THEN OrZero(slackAmount - (now - lastUpdate))
                            ELSE slackAmount
          /\ UNCHANGED <<slackPriority, slackInterrupt, slackTmp>>
  /\ charged' = IF Slack /\ noSave /\ remainingWork' # remainingWork
                THEN charged \cup {active} ELSE charged
  /\ UNCHANGED <<policy, clock, pending, speed, zombie, timing, queues, running,
                 simulation, reserved, tasks, used, due, slowEnd>>

\* The end of the period of an event-driven task, or its deadline: not before.
Until(s) == IF policy.dm THEN arrival[s] ELSE nextDeadline[s]

\* EmptyRescheduleSynchronousTaskList: a task that must wait goes to the arrivals.
Delay(s) ==
  /\ At("reschedule") /\ s \in reschedule /\ now < Until(s)
  /\ reschedule' = reschedule \ {s} /\ delayed' = delayed \cup {s}
  /\ arrival' = [arrival EXCEPT ![s] = Until(s)]
  /\ UNCHANGED <<policy, clock, pending, speed, zombie, nextDeadline, currentArrival,
                 remainingWork, readyQ, waiting, signaled, serverDeadline, running,
                 simulation, slack, lastUpdate, tasks, handler, history>>

\* One that need not is released now, its WCET in the simulation at once.
Reschedule(s) ==
  /\ At("reschedule") /\ s \in reschedule /\ now >= Until(s)
  /\ reschedule' = reschedule \ {s}
  /\ arrival' = IF policy.dm THEN [arrival EXCEPT ![s] = now + WorkLoad[s]] ELSE arrival
  /\ nextDeadline' = IF policy.dm THEN nextDeadline
                     ELSE [nextDeadline EXCEPT ![s] = ServerDeadline(s)]
  /\ serverDeadline' = IF policy.dm THEN serverDeadline ELSE ServerDeadline(s)
  /\ currentArrival' = IF policy.dm THEN currentArrival
                       ELSE [currentArrival EXCEPT ![s] = now]
  /\ completionTime' = IF Simulates THEN [completionTime EXCEPT ![s] = WCET[s]]
                       ELSE completionTime
  /\ Release(s, now) /\ Simulate(s, "reschedule")
  /\ UNCHANGED delayed

\* The task to run next; the simulation is brought up to now, always when idle.
Choose ==
  /\ At("reschedule") /\ reschedule = {} /\ Handle("choose")
  /\ active' = First(readyQ)
  /\ IF Simulates /\ (doUpdate \/ readyQ = <<>>) THEN StartUpdate(now) ELSE UNCHANGED update
  /\ UNCHANGED <<policy, clock, pending, speed, zombie, timing, remainingWork, queues,
                 noSave, cells, pair, slack, lastUpdate, tasks, history>>

\* Its speed, and the switch to it: a task that was ending never goes on.
Dispatch ==
  /\ At("choose")
  /\ lastUpdate' = now
  /\ speed' = IF active = Idle THEN speed ELSE GetProcessorSpeed(active, now)
  /\ hpc' = "out" /\ savedSpeed' = MaxSpeed /\ doUpdate' = FALSE
  /\ arriving' = Idle /\ from' = "out"
  /\ slowEnd' = (slowEnd /\ active # Idle)
  /\ noSave' = FALSE /\ ending' = Idle /\ epc' = "out"
  /\ UNCHANGED <<policy, clock, pending, zombie, timing, remainingWork, queues, active,
                 simulation, slack, tpc, again,
                 used, due, charged>>

Handler == TimerInterrupt \/ Shift \/ SimulateArrival \/ UpdateRemainingWork \/ Choose
           \/ Dispatch \/ \E t \in Task : Arrive(t)
           \/ \E s \in Synchronous : Delay(s) \/ Reschedule(s)

End == NoSaveContext \/ RemoveTask \/ DMSlackUpdateSlack \/ LastUpdate \/ NextSpeed
       \/ SwitchTask \/ \E s \in Synchronous : SuspendSynchronousTask(s)
       \/ \E t \in Task : BeginEnd(t) \/ DMSlackCalculateSlack(t) \/ DMSlackStore(t)
                          \/ EndTask(t)

Next == Tick \/ (\E s \in Synchronous : Signal(s)) \/ End \/ Handler
        \/ PairStore \/ PairStep \/ DRASimUpdateElapseTime

Spec == Init /\ [][Next]_vars

\* The state without the values that are set again before they are read.
LiveState ==
  LET Live(f, S) == [t \in Task |-> IF t \in S THEN f[t] ELSE 0]
      ready == Range(readyQ)
  IN  <<policy, clock, pending, speed, zombie, arrival,
        Live(nextDeadline, ready \cup Range(simQ) \cup Synchronous),
        Live(currentArrival, ready \cup Range(simQ)),
        Live(remainingWork, ready), queues, running,
        simQ, Live(completionTime, ready \cup Range(simQ)), simTime, excess, excessTime,
        update, IF PairDone THEN NoPair ELSE pair,
        slackAmount, IF slackAmount = 0 THEN 0 ELSE slackPriority, slackInterrupt,
        IF slackInterrupt \/ reserved THEN slackTmp ELSE 0, reserved, lastUpdate,
        tasks, handler, Live(used, ready \cup {ending}), Live(due, ready),
        slowEnd, charged>>

(***************************************************************************)
(* Properties.                                                             *)
(***************************************************************************)

Time == -2 * ShiftTimeLimit .. 3 * ShiftTimeLimit

(* All times stay within a few turns of the clock, whatever time the       *)
(* kernel idles: the turns bring each of them forward.                     *)
TypeOK ==
  LET TimeOf == [Task -> Time]
  IN  /\ policy \in Policies
      /\ now \in 0 .. ShiftTimeLimit - 1 /\ {overflowFlag, pending} \subseteq BOOLEAN
      /\ {speed, savedSpeed} \subseteq Speed
      /\ zombie \in [Task -> BOOLEAN]
      /\ arrival \in TimeOf /\ nextDeadline \in TimeOf /\ currentArrival \in TimeOf
      /\ completionTime \in TimeOf /\ remainingWork \in TimeOf /\ due \in TimeOf
      /\ {simTime, excessTime, lastUpdate, slackTmp.time, serverDeadline} \subseteq Time
      /\ {readyQ, simQ} \subseteq Seq(Task)
      /\ delayed \cup reschedule \cup waiting \cup signaled \subseteq Synchronous
      /\ excess \in 0 .. ShiftTimeLimit /\ slackAmount \in 0 .. ShiftTimeLimit
      /\ {active, ending} \subseteq Task \cup {Idle}
      /\ pair.phase \in 0 .. 2 /\ (pair.phase = 2 => ~pair.stored)
      /\ \A t \in Task : used[t] \in 0 .. 256 * WCET[t]
      /\ slowEnd \in BOOLEAN /\ charged \subseteq Task

\* No task is ending, and the handler is out.
AtRest == hpc = "out" /\ ending = Idle

\* The time since the turn the kernel's times are in.
TrueNow == IF overflowFlag THEN now + ShiftTimeLimit ELSE now

OnTime ==
  \A t \in Task : zombie[t] \/ due[t] > 0 \/ (due[t] = 0 /\ used[t] = 256 * WCET[t])

(* However slow the policy runs the tasks, an instance has done its work   *)
(* by its deadline: at its deadline none is left to an instance not ended. *)
(* Except where an end under DM_SLACK was interrupted once it had handed   *)
(* its slack over: the kernel's own time counts for nothing in a slack     *)
(* that leaves nothing over.                                               *)
DeadlinesMet == ~slowEnd => OnTime

WorkLeft(t) == 256 * WCET[t] - used[t]

(* The work on record is never below the work left, interrupted ends and   *)
(* turns of the clock included: no task is slowed on work counted twice.   *)
(* Except a task charged under DM_SLACK: _OSTimerInterruptHandler takes    *)
(* the time of an interrupted end off the work of the next task, which has *)
(* done none, the case _OSNoSaveContext is kept to exclude: the test of it *)
(* is made for the other policies only.                                    *)
WorkCounted ==
  AtRest => \A t \in {u \in Range(readyQ) \ charged : u \in Periodic \/ Slack} :
    WorkLeft(t) <= 256 * remainingWork[t]
                   - (IF t = active THEN Ratio[speed] * (TrueNow - lastUpdate) ELSE 0)

(* DRA: what the simulated instances up to a task have left covers the     *)
(* work left by those ready up to it, so that the slack given exists.      *)
SimulationCovers ==
  AtRest /\ policy.power = "DRA" =>
    \A i \in DOMAIN readyQ :
      LET work == FoldLeft(LAMBDA sum, t : sum + WorkLeft(t), 0, SubSeq(readyQ, 1, i))
          left == GetDRASlackTime(readyQ[i]) - (TrueNow - simTime)
      IN  IF Contains(simQ, readyQ[i]) THEN work <= 256 * left
          ELSE WorkLeft(readyQ[i]) = 0

(* "An exact mimic of the ready queue": the simulation has the tasks ready *)
(* in their order, and no task twice, turns of the clock and ties included. *)
SameOrder ==
  AtRest => /\ \A i, j \in DOMAIN simQ : simQ[i] = simQ[j] => i = j
            /\ SelectSeq(simQ, LAMBDA t : ~zombie[t])
               = SelectSeq(readyQ, LAMBDA t : Simulates /\ Contains(simQ, t))
=============================================================================

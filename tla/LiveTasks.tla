------------------------------ MODULE LiveTasks ------------------------------
(***************************************************************************)
(* Periodic tasks created and deleted while the hard kernel runs.  Their   *)
(* control blocks come from a pool; a task, an interrupt handler or the    *)
(* overrun hook takes a block or asks for a deletion, interrupts masked,   *)
(* and the timer handler serves these requests at the time it has read,    *)
(* unless the clock may have begun a turn since it tested for one.         *)
(*                                                                         *)
(* Queues, turns and alarms are those of HardKernel under EDF.  All tasks  *)
(* here come from the pool, contexts are left out, and the interrupt of a  *)
(* turn may come some steps after the counter has passed 2^30.             *)
(***************************************************************************)
EXTENDS Integers, SequencesExt

CONSTANTS
  Block,            \* the pool, ESCAPEMENT_LIVE_TASKS blocks
  Timings,          \* what may be asked for: [high, low, deadline]
  ShiftTimeLimit,   \* 2^30 in the code
  None,
  MaxLatency,       \* bound: ticks from an interrupt to the end of what it asked for
  MaxLateness       \* bound: ticks an instance may run past its deadline

ASSUME LiveAssumption ==
  /\ ShiftTimeLimit \in Nat \ {0} /\ IsFiniteSet(Block) /\ None \notin Block
  /\ MaxLatency \in 1 .. ShiftTimeLimit - 1 /\ MaxLateness \in Nat
  /\ \A k \in Timings :                                     \* ValidTiming
       /\ k.high \in Nat /\ k.low \in 0 .. ShiftTimeLimit - 1
       /\ k.deadline \in 1 .. ShiftTimeLimit - 1
       /\ k.high > 0 \/ k.deadline <= k.low

VARIABLES
  \* The blocks.
  state,            \* Live
  zombie,           \* STATE_ZOMBIE of TaskState
  timing,           \* PeriodHigh, PeriodLow, Deadline
  high, low,        \* NextArrivalTimeHigh, NextArrivalTimeLow
  nextDeadline,
  \* The lists and queues.
  pool, requests,   \* LiveFree, LiveRequests
  serving,          \* the requests that ServeLiveRequests took
  readyQ, arrivalQ,
  \* The processor: the task active, who ends, who has yet to raise the interrupt.
  active, ending, raising,
  \* The handler.
  hpc, currentTime, lastTime, pendSoft,
  \* The timer.
  booted, now, alarm, wrapped, overflowFlag, comparatorFlag,
  \* History: ticks to each task's true arrival, and since the time was read.
  due, age,
  latency, called   \* for the bounds

blocks == <<state, zombie, timing, high, low, nextDeadline>>
lists == <<pool, requests>>
queues == <<readyQ, arrivalQ>>
thread == <<active, ending, raising>>
handler == <<hpc, currentTime, lastTime, serving>>
timer == <<booted, now, alarm, wrapped, overflowFlag, comparatorFlag>>
bounds == <<latency, called>>
liveVars == <<blocks, lists, queues, thread, handler, pendSoft, timer, due, age, bounds>>

NoTiming == [high |-> 0, low |-> 0, deadline |-> 0]
PeriodOf(b) == timing[b].high * ShiftTimeLimit + timing[b].low

Init ==
  /\ state = [b \in Block |-> "FREE"] /\ zombie = [b \in Block |-> TRUE]
  /\ timing = [b \in Block |-> NoTiming]
  /\ high = [b \in Block |-> 0] /\ low = [b \in Block |-> 0]
  /\ nextDeadline = [b \in Block |-> 0]
  /\ pool \in SetToSeqs(Block) /\ requests = <<>> /\ serving = <<>>
  /\ readyQ = <<>> /\ arrivalQ = <<>>
  /\ active = None /\ ending = None /\ raising = {}
  /\ hpc = "out" /\ currentTime = 0 /\ lastTime = 0 /\ pendSoft = FALSE
  /\ booted = FALSE /\ now = 0 /\ alarm = None
  /\ wrapped = FALSE /\ overflowFlag = FALSE /\ comparatorFlag = FALSE
  /\ due = [b \in Block |-> 0] /\ age = 0 /\ latency = 0 /\ called = FALSE

(***************************************************************************)
(* Requests.                                                               *)
(***************************************************************************)

\* OSCreateTaskLive, its masked section: the block asked for keeps its old times.
Take(b, k) ==
  /\ pool # <<>> /\ b = pool[1]
  /\ pool' = Tail(pool) /\ requests' = <<b>> \o requests
  /\ state' = [state EXCEPT ![b] = "CREATE"]
  /\ zombie' = [zombie EXCEPT ![b] = TRUE]
  /\ timing' = [timing EXCEPT ![b] = k]
  /\ high' = [high EXCEPT ![b] = 0]
  /\ UNCHANGED <<low, nextDeadline>>

\* OSDeleteTaskLive, its masked section: refused unless the task has been released.
Ask(b) ==
  /\ state[b] = "NONE"
  /\ state' = [state EXCEPT ![b] = "ASKED"]
  /\ requests' = <<b>> \o requests
  /\ UNCHANGED <<pool, zombie, timing, high, low, nextDeadline>>

Request == \E b \in Block : Ask(b) \/ \E k \in Timings : Take(b, k)

\* A task's code runs when nothing above it does or is pending.
Runs(b) == active = b /\ ending = None /\ hpc = "out" /\ ~pendSoft /\ ~wrapped

\* A task calls; it raises the soft timer interrupt after the masked section.
CallByTask(b) ==
  /\ Runs(b) /\ b \notin raising
  /\ Request /\ raising' = raising \cup {b}
  /\ UNCHANGED <<queues, active, ending, handler, pendSoft, timer, due, age, bounds>>

Raise(b) ==
  /\ Runs(b) /\ b \in raising
  /\ raising' = raising \ {b} /\ pendSoft' = TRUE
  /\ UNCHANGED <<blocks, lists, queues, active, ending, handler, timer, due, age, bounds>>

(* An interrupt handler, the overrun hook, or main before the start calls; *)
(* the bound is one such call a tick.                                      *)
CallByInterrupt ==
  /\ ~called /\ called' = TRUE
  /\ Request /\ pendSoft' = booted
  /\ UNCHANGED <<queues, thread, handler, timer, due, age, latency>>

\* OSEndTask: a zombie, then out of the ready queue.
EndTask(b) ==
  /\ Runs(b) /\ b \notin raising
  /\ zombie' = [zombie EXCEPT ![b] = TRUE] /\ ending' = b
  /\ UNCHANGED <<state, timing, high, low, nextDeadline, lists, queues, active, raising,
                 handler, pendSoft, timer, due, age, bounds>>

EndTaskUnlink ==
  /\ ending # None /\ hpc = "out" /\ ~pendSoft /\ ~wrapped
  /\ readyQ' = Tail(readyQ) /\ ending' = None
  /\ active' = IF Len(readyQ) > 1 THEN readyQ[2] ELSE None
  /\ UNCHANGED <<blocks, lists, arrivalQ, raising, handler, pendSoft, timer, due, age,
                 bounds>>

(***************************************************************************)
(* Time.                                                                   *)
(***************************************************************************)

\* The idle task starts the timer, which forces a first pass of the handler.
StartTimer ==
  /\ ~booted /\ booted' = TRUE /\ comparatorFlag' = TRUE /\ pendSoft' = TRUE
  /\ UNCHANGED <<blocks, lists, queues, thread, handler, now, alarm, wrapped,
                 overflowFlag, due, age, bounds>>

Tick ==
  LET next == IF now + 1 = ShiftTimeLimit THEN 0 ELSE now + 1
      Busy == pendSoft \/ hpc # "out"
  IN  /\ booted /\ ~wrapped
      /\ Busy => latency < MaxLatency
      /\ \A b \in ToSet(readyQ) :
           nextDeadline[b] + MaxLateness > now + IF overflowFlag THEN ShiftTimeLimit ELSE 0
      /\ now' = next /\ wrapped' = (next = 0)
      /\ comparatorFlag' = (comparatorFlag \/ alarm = next)
      /\ alarm' = IF alarm = next THEN None ELSE alarm
      /\ pendSoft' = (pendSoft \/ alarm = next)
      /\ due' = [b \in Block |-> IF Contains(arrivalQ, b) THEN due[b] - 1 ELSE 0]
      /\ age' = IF hpc \in {"window", "serve"} THEN age + 1 ELSE 0
      /\ latency' = IF Busy THEN latency + 1 ELSE 0
      /\ called' = FALSE
      /\ UNCHANGED <<blocks, lists, queues, thread, handler, booted, overflowFlag>>

\* The interrupt of a turn, above the handler, within the tick.
Overflow ==
  /\ wrapped /\ wrapped' = FALSE /\ overflowFlag' = TRUE /\ pendSoft' = TRUE
  /\ UNCHANGED <<blocks, lists, queues, thread, handler, booted, now, alarm,
                 comparatorFlag, due, age, bounds>>

(***************************************************************************)
(* The handler.                                                            *)
(***************************************************************************)

\* FinalizeContextSwitchPreparation takes a task that was ending out of the queue.
Enter ==
  LET q == IF readyQ # <<>> /\ zombie[readyQ[1]] THEN Tail(readyQ) ELSE readyQ IN
  /\ hpc = "out" /\ pendSoft /\ pendSoft' = FALSE
  /\ readyQ' = q /\ active' = (IF q = <<>> THEN None ELSE q[1]) /\ ending' = None
  /\ hpc' = "overflow"
  /\ UNCHANGED <<blocks, lists, arrivalQ, raising, currentTime, lastTime, serving, timer,
                 due, age, bounds>>

ShiftTimes ==
  LET Moves(b) == Contains(arrivalQ, b) IN
  /\ high' = [b \in Block |-> IF Moves(b) /\ high[b] > 0 THEN high[b] - 1 ELSE high[b]]
  /\ low' = [b \in Block |->
              IF Moves(b) /\ high[b] = 0 THEN low[b] - ShiftTimeLimit ELSE low[b]]
  /\ nextDeadline' = [b \in Block |->
       IF Contains(readyQ, b) THEN nextDeadline[b] - ShiftTimeLimit ELSE nextDeadline[b]]

\* Mutant of TestOverflow: LiveLastTime keeps the time of the turn before.
TestOverflowKeepingTime ==
  /\ hpc = "overflow" /\ hpc' = "clear"
  /\ overflowFlag' = FALSE
  /\ IF overflowFlag THEN ShiftTimes ELSE UNCHANGED <<high, low, nextDeadline>>
  /\ UNCHANGED <<state, zombie, timing, lists, queues, thread, pendSoft, currentTime,
                 lastTime, serving, booted, now, alarm, wrapped, comparatorFlag, due,
                 age, bounds>>

TestOverflow ==
  /\ hpc = "overflow" /\ hpc' = "clear"
  /\ overflowFlag' = FALSE
  /\ IF overflowFlag THEN ShiftTimes /\ lastTime' = 0
     ELSE UNCHANGED <<high, low, nextDeadline, lastTime>>
  /\ UNCHANGED <<state, zombie, timing, lists, queues, thread, pendSoft, currentTime,
                 serving, booted, now, alarm, wrapped, comparatorFlag, due, age, bounds>>

ReadTime ==
  /\ hpc = "clear" /\ hpc' = "window"
  /\ comparatorFlag' = FALSE /\ currentTime' = now /\ age' = 0
  /\ UNCHANGED <<blocks, lists, queues, thread, pendSoft, lastTime, serving, booted, now,
                 alarm, wrapped, overflowFlag, due, bounds>>

\* Mutant of InWindow: the flag alone is looked at.
InWindowByFlag == overflowFlag

\* Whether the clock may have begun a turn since the test.
InWindow == overflowFlag \/ currentTime < lastTime

(* The coincidence that the code's comment excepts: every read of a turn   *)
(* at its very first tick, and the interrupt of the next still to come.    *)
FirstTickAgain == wrapped /\ currentTime = 0 /\ lastTime = 0

TakeRequests ==
  /\ hpc = "window" /\ ~FirstTickAgain
  /\ IF InWindow THEN hpc' = "arrivals" /\ UNCHANGED <<lastTime, requests, serving>>
     ELSE /\ lastTime' = currentTime
          /\ serving' = requests /\ requests' = <<>> /\ hpc' = "serve"
  /\ UNCHANGED <<blocks, pool, queues, thread, pendSoft, currentTime, timer, due, age,
                 bounds>>

\* InsertQueue with ArrivalQueueInsertTestKey, in a queue that b is not in.
ArrivalQueueInsert(b, q, h, l) ==
  LET Before(c) == h[b] < h[c] \/ (h[b] = h[c] /\ l[b] <= l[c])
      n == SelectInSeq(q, Before)
  IN  InsertAt(q, IF n = 0 THEN Len(q) + 1 ELSE n, b)

\* InsertQueue with ReadyQueueInsertTestKey, under EDF.
ReadyQueueInsert(b, nd) ==
  LET n == SelectInSeq(readyQ, LAMBDA c : nd[b] <= nd[c])
  IN  InsertAt(readyQ, IF n = 0 THEN Len(readyQ) + 1 ELSE n, b)

FreeLive(b) ==
  /\ state' = [state EXCEPT ![b] = "FREE"]
  /\ pool' = <<b>> \o pool

Served ==
  /\ hpc = "serve" /\ serving # <<>> /\ serving' = Tail(serving)
  /\ UNCHANGED <<zombie, timing, nextDeadline, requests, readyQ, thread, pendSoft, hpc,
                 currentTime, lastTime, timer, age, bounds>>

\* ServeLiveRequests: a task created arrives at the time read.
ServeCreate(b) ==
  /\ Served /\ b = serving[1] /\ state[b] = "CREATE"
  /\ state' = [state EXCEPT ![b] = "NONE"]
  /\ low' = [low EXCEPT ![b] = currentTime]
  /\ arrivalQ' = ArrivalQueueInsert(b, arrivalQ, high, low')
  /\ due' = [due EXCEPT ![b] = -age]
  /\ UNCHANGED <<high, pool>>

\* One deleted between two instances goes back to the pool.
ServeIdle(b) ==
  /\ Served /\ b = serving[1] /\ state[b] # "CREATE" /\ zombie[b]
  /\ arrivalQ' = RemoveFirst(arrivalQ, b)
  /\ FreeLive(b)
  /\ UNCHANGED <<high, low, due>>

\* One deleted while an instance is under way, once that has ended.
ServeLater(b) ==
  /\ Served /\ b = serving[1] /\ state[b] # "CREATE" /\ ~zombie[b]
  /\ state' = [state EXCEPT ![b] = "DELETE"]
  /\ UNCHANGED <<high, low, pool, arrivalQ, due>>

ServeDone ==
  /\ hpc = "serve" /\ serving = <<>> /\ hpc' = "arrivals"
  /\ UNCHANGED <<blocks, lists, queues, thread, pendSoft, currentTime, lastTime, serving,
                 timer, due, age, bounds>>

Arrives(b) ==
  /\ hpc = "arrivals" /\ arrivalQ # <<>> /\ b = arrivalQ[1]
  /\ high[b] = 0 /\ low[b] <= currentTime

\* NextPeriodicArrival: turns and a remainder, with the carry between them.
NextPeriodicArrival(b) ==
  LET sum == low[b] + timing[b].low
      carry == IF sum >= ShiftTimeLimit THEN 1 ELSE 0
  IN  /\ high' = [high EXCEPT ![b] = timing[b].high + carry]
      /\ low' = [low EXCEPT ![b] = sum - carry * ShiftTimeLimit]
      /\ arrivalQ' = ArrivalQueueInsert(b, Tail(arrivalQ), high', low')
      /\ due' = [due EXCEPT ![b] = @ + PeriodOf(b)]

\* Mutant of GoesBack: the instance under way need not have ended.
GoesBackAnyway(b) == state[b] = "DELETE"

\* Whether a task due is to go back to the pool instead.
GoesBack(b) == zombie[b] /\ state[b] = "DELETE"

GiveBack(b) ==
  /\ Arrives(b) /\ GoesBack(b)
  /\ arrivalQ' = Tail(arrivalQ) /\ FreeLive(b)
  /\ UNCHANGED <<zombie, timing, high, low, nextDeadline, requests, readyQ, thread,
                 handler, pendSoft, timer, due, age, bounds>>

\* An overrun, after which the hook lets the instance go on.
Overrun(b) ==
  /\ Arrives(b) /\ ~GoesBack(b) /\ ~zombie[b]
  /\ NextPeriodicArrival(b)
  /\ UNCHANGED <<state, zombie, timing, nextDeadline, lists, readyQ, thread, handler,
                 pendSoft, timer, age, bounds>>

Release(b) ==
  /\ Arrives(b) /\ ~GoesBack(b) /\ zombie[b]
  /\ zombie' = [zombie EXCEPT ![b] = FALSE]
  /\ nextDeadline' = [nextDeadline EXCEPT ![b] = low[b] + timing[b].deadline]
  /\ readyQ' = ReadyQueueInsert(b, nextDeadline')
  /\ NextPeriodicArrival(b)
  /\ UNCHANGED <<state, timing, lists, thread, handler, pendSoft, timer, age, bounds>>

\* _OSSetTimer, as HardKernel has it: another round if the time has passed.
SetTimer ==
  LET first == arrivalQ[1]
      ahead == arrivalQ = <<>> \/ high[first] > 0 \/ low[first] > now
  IN  /\ hpc = "arrivals" /\ ~\E b \in Block : Arrives(b)
      /\ hpc' = IF ahead THEN "soft" ELSE "clear"
      /\ alarm' = IF arrivalQ = <<>> \/ high[first] > 0 THEN alarm
                  ELSE IF ahead /\ low[first] < ShiftTimeLimit THEN low[first] ELSE None
      /\ currentTime' = 0
      /\ UNCHANGED <<blocks, lists, queues, thread, pendSoft, lastTime, serving, booted,
                     now, wrapped, overflowFlag, comparatorFlag, due, age, bounds>>

ClearSoftTimerInterrupt ==
  /\ hpc = "soft" /\ hpc' = "check" /\ pendSoft' = FALSE
  /\ UNCHANGED <<blocks, lists, queues, thread, currentTime, lastTime, serving, timer,
                 due, age, bounds>>

\* Mutant of Again: a request made since is left to the interrupt it raised.
AgainWithoutRequests == overflowFlag \/ comparatorFlag

\* What makes the handler do another round.
Again == overflowFlag \/ comparatorFlag \/ requests # <<>>

Leave ==
  /\ hpc = "check"
  /\ IF Again THEN hpc' = "overflow" /\ UNCHANGED <<active, latency>>
     ELSE /\ hpc' = "out" /\ latency' = 0
          /\ active' = IF readyQ = <<>> THEN None ELSE readyQ[1]
  /\ UNCHANGED <<blocks, lists, queues, ending, raising, pendSoft, currentTime, lastTime,
                 serving, timer, due, age, called>>

Handler ==
  \/ Enter \/ TestOverflow \/ ReadTime \/ TakeRequests \/ ServeDone \/ SetTimer
  \/ ClearSoftTimerInterrupt \/ Leave
  \/ \E b \in Block : \/ ServeCreate(b) \/ ServeIdle(b) \/ ServeLater(b)
                      \/ GiveBack(b) \/ Overrun(b) \/ Release(b)

Next ==
  \/ Handler \/ Overflow \/ Tick \/ StartTimer \/ CallByInterrupt \/ EndTaskUnlink
  \/ \E b \in Block : CallByTask(b) \/ Raise(b) \/ EndTask(b)

Spec == Init /\ [][Next]_liveVars

(* Nothing keeps the handler and the timer's interrupt from going on; a    *)
(* task given the processor again and again ends its instance, once it has *)
(* raised the interrupt it owes; and time passes.                          *)
TaskStep(b) == Raise(b) \/ EndTask(b) \/ (ending = b /\ EndTaskUnlink)

Fairness ==
  /\ WF_liveVars(Handler \/ StartTimer) /\ WF_liveVars(Overflow) /\ SF_liveVars(Tick)
  /\ \A b \in Block : SF_liveVars(TaskStep(b))

FairSpec == Spec /\ Fairness

(* What is read again before it is written: the rest of a state tells      *)
(* nothing apart.                                                          *)
LiveState ==
  <<state, zombie, [b \in Block |-> IF state[b] = "FREE" THEN NoTiming ELSE timing[b]],
    [b \in Block |-> IF Contains(arrivalQ, b) THEN <<high[b], low[b], due[b]>> ELSE <<>>],
    [b \in Block |-> IF zombie[b] THEN 0 ELSE nextDeadline[b]],
    lists, queues, thread, handler, pendSoft, timer,
    IF hpc \in {"window", "serve"} THEN age ELSE 0, bounds>>

(***************************************************************************)
(* Properties.                                                             *)
(***************************************************************************)

Time == -2 * ShiftTimeLimit .. 2 * ShiftTimeLimit

TypeOK ==
  /\ state \in [Block -> {"NONE", "CREATE", "ASKED", "DELETE", "FREE"}]
  /\ zombie \in [Block -> BOOLEAN]
  /\ timing \in [Block -> Timings \cup {NoTiming}]
  /\ \A b \in Block : {low[b], nextDeadline[b]} \subseteq Time /\ high[b] \in Nat
  /\ {pool, requests, serving, readyQ, arrivalQ} \subseteq Seq(Block)
  /\ active \in Block \cup {None} /\ ending \in Block \cup {None} /\ raising \subseteq Block
  /\ {now, currentTime, lastTime} \subseteq 0 .. ShiftTimeLimit - 1
  /\ alarm \in 0 .. ShiftTimeLimit - 1 \cup {None}
  /\ {pendSoft, booted, wrapped, overflowFlag, comparatorFlag} \subseteq BOOLEAN

(* A block is linked where its state says, and once: in the pool, in one   *)
(* list of requests, or in neither; a task deleted or not is in the queues *)
(* of the kernel until its block is back, and never after.                 *)
BlocksKept ==
  /\ \A q \in {pool, requests, serving, arrivalQ, readyQ} : IsInjective(q)
  /\ ToSet(pool) = {b \in Block : state[b] = "FREE"}
  /\ ToSet(requests) \cap ToSet(serving) = {}
  /\ ToSet(requests) \cup ToSet(serving) = {b \in Block : state[b] \in {"CREATE", "ASKED"}}
  /\ ToSet(arrivalQ) = {b \in Block : state[b] \notin {"FREE", "CREATE"}}
  /\ ToSet(readyQ) = {b \in Block : ~zombie[b] \/ ending = b}
  /\ \A b \in Block : state[b] \in {"FREE", "CREATE"} => zombie[b]

\* The time since the start of the turn the kernel's times are in.
TrueNow == now + IF wrapped \/ overflowFlag THEN ShiftTimeLimit ELSE 0

(* The arrival time kept of a task is the true one, from the time at which *)
(* its creation was served on: never a turn early, whenever the clock has  *)
(* begun one.                                                              *)
ArrivalsTrue ==
  \A b \in ToSet(arrivalQ) : high[b] * ShiftTimeLimit + low[b] - TrueNow = due[b]

(* A request waits only where a pass of the handler is to come: one made   *)
(* while the handler ran, its interrupt cleared with the handler's own, is *)
(* not left for the next alarm.                                            *)
RequestsAwaited ==
  booted /\ requests # <<>> => hpc # "out" \/ pendSoft \/ raising # {}

(* A block asked back is given back, and one asked for is released,        *)
(* whatever requests, overruns and turns of the clock come between.        *)
RequestServed ==
  \A b \in Block : /\ state[b] \in {"ASKED", "DELETE"} ~> state[b] = "FREE"
                   /\ state[b] = "CREATE" ~> ~zombie[b]
=============================================================================

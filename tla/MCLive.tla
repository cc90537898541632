-------------------------------- MODULE MCLive --------------------------------
(***************************************************************************)
(* Liveness of the hard kernel for model checking, in two parts, each      *)
(* alone: sys says which.  HardKernel with two tasks, and LiveTasks with   *)
(* one block, for all times as short as can be.                            *)
(***************************************************************************)
EXTENDS MCHardKernel

CONSTANT Block

VARIABLES
  sys,
  lstate, lzombie, ltiming, lhigh, llow, lnextDeadline, lpool, lrequests, lserving,
  lreadyQ, larrivalQ, lactive, lending, lraising, lhpc, lcurrentTime, llastTime,
  lpendSoft, lbooted, lnow, lalarm, lwrapped, loverflowFlag, lcomparatorFlag, ldue,
  lage, llatency, lcalled

Live == INSTANCE LiveTasks WITH
  Timings <- {[high |-> 0, low |-> 2, deadline |-> 1]}, ShiftTimeLimit <- 3,
  MaxLatency <- 1, MaxLateness <- 1,
  state <- lstate, zombie <- lzombie, timing <- ltiming, high <- lhigh, low <- llow,
  nextDeadline <- lnextDeadline, pool <- lpool, requests <- lrequests,
  serving <- lserving, readyQ <- lreadyQ, arrivalQ <- larrivalQ, active <- lactive,
  ending <- lending, raising <- lraising, hpc <- lhpc, currentTime <- lcurrentTime,
  lastTime <- llastTime, pendSoft <- lpendSoft, booted <- lbooted, now <- lnow,
  alarm <- lalarm, wrapped <- lwrapped, overflowFlag <- loverflowFlag,
  comparatorFlag <- lcomparatorFlag, due <- ldue, age <- lage, latency <- llatency,
  called <- lcalled

ASSUME Live!LiveAssumption

liveVars ==
  <<lstate, lzombie, ltiming, lhigh, llow, lnextDeadline, lpool, lrequests, lserving,
    lreadyQ, larrivalQ, lactive, lending, lraising, lhpc, lcurrentTime, llastTime,
    lpendSoft, lbooted, lnow, lalarm, lwrapped, loverflowFlag, lcomparatorFlag, ldue,
    lage, llatency, lcalled>>

LiveInit == sys \in {"kernel", "live"} /\ Init /\ Live!Init

InKernel(A) == sys = "kernel" /\ A /\ UNCHANGED <<sys, liveVars>>
InLive(A) == sys = "live" /\ A /\ UNCHANGED <<sys, vars>>

LiveNext == InKernel(Next) \/ InLive(Live!Next)

(* The fairness of whichever runs, HardKernel's or LiveTasks's: sys stays  *)
(* what it is, so that a conjunct of one and a conjunct of the other are   *)
(* one conjunct here.                                                      *)
LiveFairness ==
  LET all == <<sys, vars, liveVars>> IN
  /\ WF_all(InKernel(Scheduler) \/ InLive(Live!Handler \/ Live!StartTimer))
  /\ WF_all(InKernel(IdleTask) \/ InLive(Live!Overflow))
  /\ SF_all(InKernel(Tick) \/ InLive(Live!Tick))
  /\ SF_all(InKernel(ContextSwap) \/ InLive(\E b \in Block : Live!TaskStep(b)))
  /\ \A t \in Task : SF_all(InKernel(TaskStep(t)))

LiveSpec == LiveInit /\ [][LiveNext]_<<sys, vars, liveVars>> /\ LiveFairness
-----------------------------------------------------------------------------
(* EscapementHard.c: every signal is served by a run of an event-driven    *)
(* task, and every request for a live task or for its deletion is served.  *)
Served == (sys = "kernel" => SignalServed) /\ (sys = "live" => Live!RequestServed)
=============================================================================

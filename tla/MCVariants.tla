------------------------------ MODULE MCVariants ------------------------------
(***************************************************************************)
(* Two variants of the hard kernel for model checking, each alone: sys     *)
(* says which.  The live tasks: two blocks, tasks whose period is less     *)
(* than a turn of the clock and tasks whose period is more.  And the       *)
(* power-aware kernel: two periodic tasks and an event-driven one, at      *)
(* three speeds, under each policy.                                        *)
(***************************************************************************)
EXTENDS LiveTasks

MCTimings == {[high |-> 0, low |-> 2, deadline |-> 1], [high |-> 1, low |-> 1, deadline |-> 2]}

Build(power, dm) == [power |-> power, dm |-> dm]
\* OTE alone under DM: what it does under EDF is the half of DR_OTE.
MCPolicies == {Build("OTE", TRUE), Build("DRA", FALSE), Build("DR_OTE", FALSE),
               Build("DM_SLACK", TRUE)}
MCPeriod == (1 :> 3) @@ (2 :> 6)
MCWCET == (1 :> 1) @@ (2 :> 2) @@ (3 :> 1)
MCWorkLoad == 3 :> 4
MCRatio == (0 :> 64) @@ (1 :> 128) @@ (2 :> 256)

CONSTANTS
  Periodic, Synchronous, Policies, Period, Deadline, WCET, WorkLoad,
  AperiodicUtilization, MaxSpeed, Ratio, MinimalProcessorSpeed

VARIABLES
  sys,
  pPolicy, pNow, pOverflowFlag, pPending, pSpeed, pZombie, pArrival, pNextDeadline,
  pCurrentArrival, pRemainingWork, pReadyQ, pDelayed, pReschedule, pWaiting, pSignaled,
  pServerDeadline, pActive, pNoSave, pSimQ, pCompletionTime, pSimTime, pExcess,
  pExcessTime, pUpdate, pPair, pSlackAmount, pSlackPriority, pSlackInterrupt, pSlackTmp,
  pReserved, pLastUpdate, pTpc, pEnding, pEpc, pAgain, pHpc, pSavedSpeed, pDoUpdate,
  pArriving, pFrom, pUsed, pDue, pSlowEnd, pCharged

Power == INSTANCE PowerAware WITH
  ShiftTimeLimit <- 8,
  policy <- pPolicy, now <- pNow, overflowFlag <- pOverflowFlag, pending <- pPending,
  speed <- pSpeed, zombie <- pZombie, arrival <- pArrival,
  nextDeadline <- pNextDeadline, currentArrival <- pCurrentArrival,
  remainingWork <- pRemainingWork, readyQ <- pReadyQ, delayed <- pDelayed,
  reschedule <- pReschedule, waiting <- pWaiting, signaled <- pSignaled,
  serverDeadline <- pServerDeadline, active <- pActive, noSave <- pNoSave,
  simQ <- pSimQ, completionTime <- pCompletionTime, simTime <- pSimTime,
  excess <- pExcess, excessTime <- pExcessTime, update <- pUpdate, pair <- pPair,
  slackAmount <- pSlackAmount, slackPriority <- pSlackPriority,
  slackInterrupt <- pSlackInterrupt, slackTmp <- pSlackTmp, reserved <- pReserved,
  lastUpdate <- pLastUpdate, tpc <- pTpc, ending <- pEnding, epc <- pEpc,
  again <- pAgain, hpc <- pHpc, savedSpeed <- pSavedSpeed, doUpdate <- pDoUpdate,
  arriving <- pArriving, from <- pFrom, used <- pUsed, due <- pDue,
  slowEnd <- pSlowEnd, charged <- pCharged

ASSUME Power!PowerAssumption

powerVars ==
  <<pPolicy, pNow, pOverflowFlag, pPending, pSpeed, pZombie, pArrival, pNextDeadline,
    pCurrentArrival, pRemainingWork, pReadyQ, pDelayed, pReschedule, pWaiting,
    pSignaled, pServerDeadline, pActive, pNoSave, pSimQ, pCompletionTime, pSimTime,
    pExcess, pExcessTime, pUpdate, pPair, pSlackAmount, pSlackPriority, pSlackInterrupt,
    pSlackTmp, pReserved, pLastUpdate, pTpc, pEnding, pEpc, pAgain, pHpc, pSavedSpeed,
    pDoUpdate, pArriving, pFrom, pUsed, pDue, pSlowEnd, pCharged>>

VariantsInit == sys \in {"power", "live"} /\ Init /\ Power!Init

VariantsNext ==
  /\ sys' = sys
  /\ \/ sys = "live" /\ Next /\ UNCHANGED powerVars
     \/ sys = "power" /\ Power!Next /\ UNCHANGED liveVars

VariantsSpec == VariantsInit /\ [][VariantsNext]_<<sys, liveVars, powerVars>>

View == <<sys, IF sys = "live" THEN LiveState ELSE Power!LiveState>>

\* Bound: an overrun is not followed.  DeadlinesMet says which instances may be late.
NoneLate == sys = "power" => Power!OnTime
-----------------------------------------------------------------------------
(* EscapementHardPA.c: however slow a task runs, it meets its deadline,    *)
(* but for an end under DM_SLACK interrupted after it gave its slack.      *)
(* Every variable of both systems has its type.                            *)
DeadlinesMet == IF sys = "live" THEN TypeOK ELSE Power!TypeOK /\ Power!DeadlinesMet

(* EscapementHardPA.c: the work on record is never below the work left, but *)
(* of a task charged, under DM_SLACK, the time of another's end.           *)
WorkCounted == sys = "power" => Power!WorkCounted

(* EscapementHardPA.c, DRA: the simulation has left what is yet to be done. *)
SimulationCovers == sys = "power" => Power!SimulationCovers
=============================================================================

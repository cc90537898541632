------------------------------- MODULE MCHard -------------------------------
(***************************************************************************)
(* HardKernel for model checking, under EDF and under DM, each alone: sys  *)
(* says which.  Under EDF a periodic task of one turn and a half of the    *)
(* clock signals an event-driven one.  Under DM there are two event-driven *)
(* tasks on one event, all times are as short as can be, and an overrun    *)
(* stops the system.                                                       *)
(***************************************************************************)
EXTENDS MCHardKernel

VARIABLES
  sys,
  dtaskState, dhigh, dlow, dnextDeadline, dserverDeadline, dreadyQ,
  darrivalQ, dreschedule, dwaiting, dsignaled, dcarried, dactive, dnoSave,
  dcur, dsaved, dtpc, dswap, dr1, dsoft, dcurrentTime, dpendSwap, dpendSoft,
  dbooted, dnow, dalarm, doverflowFlag, dcomparatorFlag, ddue, dleft, drest,
  dlatency

DM == INSTANCE HardKernel WITH
  Synchronous <- {s1, s2}, Created <- MCThreeTasks, EventOf <- MCBothOn,
  Mode <- "DM", ShiftTimeLimit <- 2, PeriodHigh <- MCOneTurn, PeriodLow <- MCNoRest,
  Deadline <- MCDeadline1, WorkLoad <- MCBothWorkLoad1, Signallers <- {},
  MaxLatency <- 1, MaxLateness <- 1, OverrunStops <- TRUE,
  taskState <- dtaskState, high <- dhigh, low <- dlow,
  nextDeadline <- dnextDeadline, serverDeadline <- dserverDeadline,
  readyQ <- dreadyQ, arrivalQ <- darrivalQ, reschedule <- dreschedule,
  waiting <- dwaiting, signaled <- dsignaled, carried <- dcarried,
  active <- dactive, noSave <- dnoSave, cur <- dcur, saved <- dsaved,
  tpc <- dtpc, swap <- dswap, r1 <- dr1, soft <- dsoft,
  currentTime <- dcurrentTime, pendSwap <- dpendSwap, pendSoft <- dpendSoft,
  booted <- dbooted, now <- dnow, alarm <- dalarm,
  overflowFlag <- doverflowFlag, comparatorFlag <- dcomparatorFlag,
  due <- ddue, left <- dleft, rest <- drest, latency <- dlatency

ASSUME DM!TaskAssumption /\ DM!CreatedAssumption /\ DM!TimingAssumption

\* What the theorems on times take of the constants.
ASSUME Fits([Q \in SUBSET Synchronous |-> 2 * Cardinality(Q)]) /\ RemaindersCover

dmVars ==
  <<dtaskState, dhigh, dlow, dnextDeadline, dserverDeadline, dreadyQ,
    darrivalQ, dreschedule, dwaiting, dsignaled, dcarried, dactive, dnoSave,
    dcur, dsaved, dtpc, dswap, dr1, dsoft, dcurrentTime, dpendSwap,
    dpendSoft, dbooted, dnow, dalarm, doverflowFlag, dcomparatorFlag, ddue,
    dleft, drest, dlatency>>

HardInit == sys \in {"EDF", "DM"} /\ Init /\ DM!Init

HardNext ==
  /\ sys' = sys
  /\ \/ sys = "EDF" /\ Next /\ UNCHANGED dmVars
     \/ sys = "DM" /\ DM!Next /\ UNCHANGED vars
     \/ sys = "DM" /\ dsoft = "stopped" /\ UNCHANGED <<vars, dmVars>>

HardSpec == HardInit /\ [][HardNext]_<<sys, vars, dmVars>>

View == <<sys, IF sys = "EDF" THEN LiveState ELSE DM!LiveState>>
-----------------------------------------------------------------------------
(* DM: the processor goes to the most urgent task ready.                   *)
MostUrgentUnderDM == sys = "DM" => DM!MostUrgentRuns
=============================================================================

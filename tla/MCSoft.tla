------------------------------- MODULE MCSoft -------------------------------
(***************************************************************************)
(* SoftKernel for model checking, in three instances, each alone: sys says *)
(* which.  "queues" are two periodic tasks and an event-driven one whose   *)
(* kernel takes time, for the queue in the making; "late" are three        *)
(* periodic tasks whose kernel takes twice as long, enough for a release   *)
(* within a switch; "admission" are three of different periods whose       *)
(* kernel takes no time, as the admission test has it.                     *)
(***************************************************************************)
EXTENDS MCSoftKernel

VARIABLE sys

AdmissionPeriodic == {p1, p2, p3}
AdmissionTurns == [p \in AdmissionPeriodic |-> IF p = p1 THEN 0 ELSE 1]
AdmissionPeriod == [p \in AdmissionPeriodic |-> IF p = p1 THEN 2 ELSE 0]
AdmissionDeadline ==
  [p \in AdmissionPeriodic |-> CASE p = p1 -> 2 [] p = p2 -> 4 [] p = p3 -> 5]
AdmissionWCET == [t \in AdmissionPeriodic \cup {s1} |-> IF t = p2 THEN 2 ELSE 1]
AdmissionM == [p \in AdmissionPeriodic |-> 1]
AdmissionK == [p \in AdmissionPeriodic |-> 2]
AdmissionStart == [p \in AdmissionPeriodic |-> IF p = p3 THEN 1 ELSE 0]
NoCosts == {FALSE}
MCSame(n) == [p \in AdmissionPeriodic |-> n]

Admission == INSTANCE SoftKernel WITH
  Periodic <- AdmissionPeriodic, Created <- MCThree, PeriodHigh <- AdmissionTurns,
  PeriodLow <- AdmissionPeriod, Deadline <- AdmissionDeadline, WCET <- AdmissionWCET,
  M <- AdmissionM, K <- AdmissionK, StartInstance <- AdmissionStart,
  KernelCosts <- NoCosts

Late == INSTANCE SoftKernel WITH
  Periodic <- AdmissionPeriodic, Synchronous <- {}, Created <- MCTrio,
  PeriodHigh <- [p \in AdmissionPeriodic |-> 0],
  PeriodLow <- MCSame(2), Deadline <- MCSame(2), WCET <- MCSame(1),
  M <- [p \in AdmissionPeriodic |-> IF p = p1 THEN 1 ELSE 2], K <- MCSame(3),
  StartInstance <- MCSame(0), MaxLatency <- 2

ASSUME Admission!FirmAssumption /\ Late!FirmAssumption

SoftInit == \/ sys = "queues" /\ Init
            \/ sys = "late" /\ Late!Init
            \/ sys = "admission" /\ Admission!Init

SoftNext == /\ sys' = sys
            /\ \/ sys = "queues" /\ Next
               \/ sys = "late" /\ Late!Next
               \/ sys = "admission" /\ Admission!Next

SoftSpec == SoftInit /\ [][SoftNext]_<<sys, vars>>

View == <<sys, CASE sys = "queues" -> LiveState
                 [] sys = "late" -> Late!LiveState
                 [] sys = "admission" -> Admission!LiveState>>

(* A behaviour is followed up to the switch that starts a stale instance   *)
(* (the run soft_stale): what it leaves breaks queue and stack later.      *)
NoStaleStart == sys = "late" => Late!NothingOnTheStack
-----------------------------------------------------------------------------
(* Every variable has its type, and the ready queue stays one queue,       *)
(* whatever interrupts a promotion.                                        *)
QueueKept == CASE sys = "queues" -> TypeOK /\ OneQueue
               [] sys = "late" -> Late!TypeOK /\ Late!OneQueue
               [] sys = "admission" -> Admission!TypeOK /\ Admission!OneQueue

(* The contexts on the stack are those of the started tasks, up to the     *)
(* start of a stale instance.                                              *)
ContextsKept == CASE sys = "queues" -> ContextsMatch
                  [] sys = "late" -> Late!ContextsMatch
                  [] sys = "admission" -> Admission!ContextsMatch

(* A task reads the time of the turn that the kernel's times are of.       *)
TimeRead == /\ sys = "queues" => TaskTimeTrue
            /\ sys = "late" => Late!TaskTimeTrue

(* Of any K releases in a row of a task, M or more are mandatory.          *)
FirmGuaranteed == CASE sys = "queues" -> FirmGuarantee
                    [] sys = "late" -> Late!FirmGuarantee
                    [] sys = "admission" -> Admission!FirmGuarantee

(* No mandatory or promoted instance misses its deadline.                  *)
AdmittedInTime == sys = "admission" => Admission!DeadlinesMet
=============================================================================

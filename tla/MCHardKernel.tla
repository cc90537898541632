---------------------------- MODULE MCHardKernel ----------------------------
(* HardKernel for model checking: a periodic task and one or two event-    *)
(* driven tasks on one event.  Either the period is a turn of the clock    *)
(* and half of one, deadlines and workloads being shorter; or all times    *)
(* are as short as can be, for more tasks or for liveness.                 *)
EXTENDS HardKernel

CONSTANTS p1, s1, s2, e1

MCTwoTasks == <<s1, p1>>
MCThreeTasks == <<s1, p1, s2>>
MCEventOf == [s \in Synchronous |-> e1]
MCOneTurn == [p \in Periodic |-> 1]
MCHalfTurn == [p \in Periodic |-> ShiftTimeLimit \div 2]
MCNoRest == [p \in Periodic |-> 0]
MCDeadline3 == [p \in Periodic |-> 3]
MCDeadline1 == [p \in Periodic |-> 1]
MCWorkLoad2 == [s \in Synchronous |-> 2]
MCBothOn == [s \in {s1, s2} |-> e1]
MCBothWorkLoad1 == [s \in {s1, s2} |-> 1]
MCWorkLoad1 == [s \in Synchronous |-> 1]
=============================================================================

---------------------------- MODULE MCSoftKernel ----------------------------
(* SoftKernel for model checking: two periodic tasks, released every third *)
(* of a turn of the clock so that a turn brings every task back, and an    *)
(* event-driven task.  Of three instances, one or two are mandatory.       *)
EXTENDS SoftKernel

CONSTANTS p1, p2, p3, s1

MCTwo == <<p1, s1, p2>>
MCThree == <<p1, s1, p2, p3>>
MCTrio == <<p1, p2, p3>>
MCNoTurn == [p \in Periodic |-> 0]
MCThirds == [p \in Periodic |-> 2]
MCWCET == [t \in Task |-> 1]
MCM12 == [p \in Periodic |-> IF p = p1 THEN 1 ELSE 2]
MCK3 == [p \in Periodic |-> 3]
MCFirst == [p \in Periodic |-> 0]
MCWorkLoad == [s \in Synchronous |-> 4]
=============================================================================

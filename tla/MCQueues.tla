------------------------------- MODULE MCQueues -------------------------------
(***************************************************************************)
(* The queues for model checking, each alone: sys says which.  The wait-   *)
(* free FIFO of one core and the queue between the two cores of the        *)
(* RP2350.  No queue looks into its items: they are interchangeable.  That *)
(* a step of the other leaves the FIFO alone makes AtomicQueue its         *)
(* property here as well.                                                  *)
(***************************************************************************)
EXTENDS WaitFreeFIFO, TLC

VARIABLES
  sys,
  cq, chead, ctail, monitor, op, ccalls

Core == INSTANCE CoreQueue WITH
  MaxLevel <- MaxLevel - 1, IndexLimit <- MaxIndex,
  q <- cq, head <- chead, tail <- ctail, calls <- ccalls

ASSUME Core!CoreQueueAssumption

coreVars == <<cq, chead, ctail, monitor, op, ccalls>>

QueuesInit == sys \in {"fifo", "core"} /\ Init /\ Core!Init

QueuesNext ==
  /\ sys' = sys
  /\ \/ sys = "fifo" /\ Next /\ UNCHANGED coreVars
     \/ sys = "core" /\ Core!Next /\ UNCHANGED vars

QueuesSpec == QueuesInit /\ [][QueuesNext]_<<sys, vars, coreVars>>

Interchangeable == Permutations(Items)

(* What tells two states apart: the state of the queue that runs.          *)
View == <<sys, IF sys = "fifo" THEN vars ELSE coreVars>>
-----------------------------------------------------------------------------
(* RP2350, Escapement_CoreQueue.c: the operations of two cores are atomic  *)
(* (CoreQueue's AtomicCoreQueue, said so that TLC only compares the steps  *)
(* that show), and every variable has its type.                            *)
AtomicCoreQueue ==
  /\ [](sys = "core" => Core!TypeOK)
  /\ Core!Abstract!Init
  /\ [][sys = "core" /\ Core!Abstract!vars' # Core!Abstract!vars => Core!Abstract!Next]_coreVars
=============================================================================

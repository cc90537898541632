----------------------------- MODULE MCWaitFree -----------------------------
(***************************************************************************)
(* The wait-free communications of EscapementHard.c for model checking,    *)
(* each alone: sys says which.  The 4-slot and the 3-slot buffer: items    *)
(* are of two bytes, so that a slot can be seen half filled, and there are *)
(* enough writes for every slot to be used again.  The FIFO, for its       *)
(* progress: a queue of one place, empty or not.                           *)
(***************************************************************************)
EXTENDS FourSlot

CONSTANTS
  MaxLevel, QueueLength, MaxIndex, StartIndex, Items, NULL, SIGNAL, UNREAD, MaxCalls

VARIABLES
  sys,
  titems, tsequence, tcurrentWriter, tstatus, twritten, tlastRead, tevent, twpc, trpc,
  tmode, trslot, theld, tcompleted, tfloor, tgiven,
  treading, tlatest, reservation, rlatest,
  marker, q, head, tail, pending, reserved, des, frame, calls

Three == INSTANCE ThreeSlot WITH
  Slot <- 0 .. 2, MaxWritten <- MaxWritten - 1,
  items <- titems, sequence <- tsequence, currentWriter <- tcurrentWriter,
  status <- tstatus, written <- twritten, lastRead <- tlastRead, event <- tevent,
  wpc <- twpc, rpc <- trpc, mode <- tmode, rslot <- trslot, held <- theld,
  completed <- tcompleted, floor <- tfloor, given <- tgiven,
  reading <- treading, latest <- tlatest

threeVars ==
  <<titems, tsequence, tcurrentWriter, tstatus, twritten, tlastRead, tevent, twpc, trpc,
    tmode, trslot, theld, tcompleted, tfloor, tgiven,
    treading, tlatest, reservation, rlatest>>

FIFO == INSTANCE WaitFreeFIFO
fifoVars == <<marker, q, head, tail, pending, reserved, des, frame, calls>>

ASSUME Three!ThreeSlotAssumption /\ FIFO!QueueAssumption

MCSlot == {0, 1} \X {0, 1}

WaitFreeInit ==
  /\ sys \in {"four", "three", "fifo"}
  /\ Init /\ Three!Init /\ FIFO!Init
  /\ sys # "fifo" => marker = NULL /\ tail = head

WaitFreeNext ==
  /\ sys' = sys
  /\ \/ sys = "four" /\ Next /\ UNCHANGED <<threeVars, fifoVars>>
     \/ sys = "three" /\ Three!Next /\ UNCHANGED <<vars, fifoVars>>
     \/ sys = "fifo" /\ FIFO!Next /\ UNCHANGED <<vars, threeVars>>

(* The fairness of a part that does not run asks for nothing: it rests in  *)
(* its initial state, where no operation has begun.  Of the buffers only   *)
(* the 3-slot one's is needed: what is checked with it is of the code both *)
(* share.                                                                  *)
WaitFreeSpec ==
  /\ WaitFreeInit /\ [][WaitFreeNext]_<<sys, vars, threeVars, fifoVars>>
  /\ Three!Fairness /\ FIFO!Fairness
-----------------------------------------------------------------------------
(* EscapementHard.c, 3-slot: writer and reader never use the same slot,    *)
(* and the buffer is an atomic register.                                   *)
AtomicRegister3 == Three!AtomicRegister3

(* EscapementHard.c, 3-slot: what is written is read, by a reader that     *)
(* suspends itself when it finds nothing new.                              *)
WrittenIsRead3 == Three!WrittenIsRead

(* EscapementHard.c, FIFO: an operation ends whatever preempts it.         *)
OperationEnds == FIFO!OperationEnds
=============================================================================

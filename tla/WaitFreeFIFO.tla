---------------------------- MODULE WaitFreeFIFO ----------------------------
(***************************************************************************)
(* The array-based wait-free FIFO of EscapementHard.c, under the events    *)
(* (tasks suspended on an event, or the SIGNAL an event left) and under    *)
(* the application's queues of nodes.  An operation posts its descriptor,  *)
(* which lies on its own stack, so that whoever preempts it completes it   *)
(* before starting an operation of its own.                                *)
(*                                                                         *)
(* One action per access to shared memory.  The contexts of one core nest: *)
(* an operation at a level runs only while every higher level is idle, and *)
(* a level may start one at any point of those below.                      *)
(***************************************************************************)
EXTENDS Naturals, Sequences, FiniteSets, SequencesExt

CONSTANTS
  MaxLevel,     \* depth of the nesting
  QueueLength,  \* FIFOQUEUE.QueueLength
  MaxIndex,     \* FIFOQUEUE.MaxIndex, where Head and Tail wrap around
  StartIndex,   \* Head when the run starts
  Items,        \* tasks or nodes
  NULL, SIGNAL,
  UNREAD,       \* a descriptor's field not yet written
  MaxCalls      \* bound: operations and interrupts of one run

Level == 0 .. MaxLevel
Index == 0 .. MaxIndex - 1

(* GetFIFOArrayMaxIndex returns a multiple of the array's size, far beyond *)
(* the operations one preemption can hold.                                 *)
ASSUME QueueAssumption ==
  /\ MaxLevel \in Nat /\ QueueLength \in Nat \ {0} /\ MaxCalls \in Nat
  /\ MaxIndex \in Nat /\ MaxIndex % QueueLength = 0 /\ MaxIndex > MaxCalls + 1
  /\ StartIndex \in Index
  /\ NULL # SIGNAL /\ NULL # UNREAD /\ SIGNAL # UNREAD
  /\ (Items \cup Level \cup Index) \cap {NULL, SIGNAL, UNREAD} = {}

VARIABLES
  marker,    \* the parameter signal: SIGNAL for an event's queue, else NULL
  q,         \* Q
  head,      \* Head
  tail,      \* Tail
  pending,   \* PendingOp: the level whose descriptor is posted, or NULL
  reserved,  \* the core's reservation, set by an LL
  des,       \* the descriptor on each level's stack
  frame,     \* each level's place in its operation and its locals
  calls      \* operations and interrupts so far

queue == <<q, head, tail>>
vars == <<marker, q, head, tail, pending, reserved, des, frame, calls>>

Fields == <<"propose", "index", "slotPropose", "slotReturn">>

(* A descriptor's initial value; kind "none" where no operation is called. *)
Descriptor(kind, item) ==
  [kind |-> kind, item |-> item, propose |-> UNREAD, index |-> UNREAD,
   slotPropose |-> UNREAD, slotReturn |-> UNREAD, done |-> FALSE]

NoFrame == [pc |-> "idle", target |-> NULL, field |-> 1, read |-> NULL]

(* The queue between operations: the items from Head up to Tail, or a      *)
(* signal in the slot of an empty queue.                                   *)
AtRest ==
  \E held \in {s \in UNION {[1 .. n -> Items] : n \in 0 .. QueueLength} : IsInjective(s)},
     signalled \in BOOLEAN :
    /\ signalled => marker = SIGNAL /\ held = <<>>
    /\ tail = (head + Len(held)) % MaxIndex
    /\ q = [i \in 0 .. QueueLength - 1 |->
             LET place == 1 + (((i + QueueLength) - (head % QueueLength)) % QueueLength)
             IN IF place <= Len(held) THEN held[place]
                ELSE IF signalled /\ place = 1 THEN SIGNAL ELSE NULL]

(***************************************************************************)
(* A queue somewhere in its life: an event's, empty, with tasks or with a  *)
(* signal; or a user queue, with any number of nodes (all, for a free list *)
(* at its creation).                                                       *)
(***************************************************************************)
Init ==
  /\ marker \in {SIGNAL, NULL}
  /\ head = StartIndex /\ AtRest
  /\ pending = NULL /\ reserved = FALSE /\ calls = 0
  /\ des = [l \in Level |-> Descriptor("none", NULL)]
  /\ frame = [l \in Level |-> NoFrame]

(***************************************************************************)
(* Calls.  An item is enqueued by its owner: it is in no slot and no other *)
(* operation is enqueuing or has dequeued it.  An event's queue is as long *)
(* as there are tasks, and so is never full.                               *)
(***************************************************************************)
Active(l) == frame[l].pc # "idle"
Running(l) == Active(l) /\ \A m \in Level : m > l => ~ Active(m)

Owned(item) ==
  \/ \E i \in DOMAIN q : q[i] = item
  \/ \E l \in Level : item \in {des[l].item, des[l].slotReturn}

Waiting == {item \in Items : \E i \in DOMAIN q : q[i] = item}
Enqueuing == {l \in Level : des[l].kind = "enqueue"}

Start(l, descriptor) ==
  /\ \A m \in Level : m >= l => ~ Active(m)
  /\ calls < MaxCalls /\ calls' = calls + 1
  /\ des' = [des EXCEPT ![l] = descriptor]
  /\ frame' = [frame EXCEPT ![l] = [NoFrame EXCEPT !.pc = "begin"]]
  /\ UNCHANGED <<marker, queue, pending, reserved>>

Enqueue(l, item) ==
  /\ ~ Owned(item)
  /\ marker = SIGNAL => Cardinality(Waiting) + Cardinality(Enqueuing) < QueueLength
  /\ Start(l, Descriptor("enqueue", item))

Dequeue(l) == Start(l, Descriptor("dequeue", NULL))

(* Leaving an interrupt or a context switch clears the reservation. *)
Interrupt ==
  /\ reserved /\ calls < MaxCalls
  /\ reserved' = FALSE /\ calls' = calls + 1
  /\ UNCHANGED <<marker, queue, pending, des, frame>>

(***************************************************************************)
(* The steps of an operation; d is the descriptor the level works for, its *)
(* own or the one it helps.                                                *)
(***************************************************************************)
d(l) == des[frame[l].target]
At(l, pc) == Running(l) /\ frame[l].pc = pc
Goto(l, pc) == frame' = [frame EXCEPT ![l].pc = pc]
slotOf(l) == d(l).index % QueueLength

(* Once the helper is done: post one's own operation, or withdraw it. *)
After(l) == IF frame[l].target = l THEN "withdraw" ELSE "post"

(* A posted operation is completed first. *)
ReadPending(l) ==
  /\ At(l, "begin")
  /\ frame' = [frame EXCEPT ![l].pc = IF pending = NULL THEN "post" ELSE "test",
                            ![l].target = pending]
  /\ UNCHANGED <<marker, queue, pending, reserved, des, calls>>

Post(l) ==
  /\ At(l, "post")
  /\ pending' = l
  /\ frame' = [frame EXCEPT ![l] = [NoFrame EXCEPT !.pc = "test", !.target = l]]
  /\ UNCHANGED <<marker, queue, reserved, des, calls>>

(* The prologue of the helpers: each field still unread is given the value *)
(* of the queue, or of the field it confirms.                              *)
NextField(f) == IF f < Len(Fields) THEN [pc |-> "test", field |-> f + 1]
                ELSE [pc |-> "open", field |-> f]

TestField(l) ==
  /\ At(l, "test")
  /\ LET f == frame[l].field
         next == IF d(l)[Fields[f]] = UNREAD THEN [pc |-> "load", field |-> f]
                 ELSE NextField(f)
     IN frame' = [frame EXCEPT ![l].pc = next.pc, ![l].field = next.field]
  /\ UNCHANGED <<marker, queue, pending, reserved, des, calls>>

Source(l) ==
  CASE Fields[frame[l].field] = "propose" ->
         IF d(l).kind = "dequeue" THEN head ELSE tail
    [] Fields[frame[l].field] = "index" -> d(l).propose
    [] Fields[frame[l].field] = "slotPropose" -> q[slotOf(l)]
    [] Fields[frame[l].field] = "slotReturn" -> d(l).slotPropose

LoadField(l) ==
  /\ At(l, "load")
  /\ frame' = [frame EXCEPT ![l].read = Source(l), ![l].pc = "store"]
  /\ UNCHANGED <<marker, queue, pending, reserved, des, calls>>

StoreField(l) ==
  /\ At(l, "store")
  /\ LET f == frame[l].field
         next == NextField(f)
     IN /\ des' = [des EXCEPT ![frame[l].target][Fields[f]] = frame[l].read]
        /\ frame' = [frame EXCEPT ![l].pc = next.pc, ![l].field = next.field,
                                  ![l].read = NULL]
  /\ UNCHANGED <<marker, queue, pending, reserved, calls>>

(* A slot to be changed: an item or, in an event's queue, no signal yet for *)
(* a dequeue; no item for an enqueue.  Otherwise the answer is known.       *)
Changes(e) == IF e.kind = "dequeue" THEN e.slotReturn # marker
              ELSE e.slotReturn \in {NULL, SIGNAL}

OpenLoop(l) ==
  /\ At(l, "open")
  /\ Goto(l, IF Changes(d(l)) THEN "link" ELSE After(l))
  /\ UNCHANGED <<marker, queue, pending, reserved, des, calls>>

LoadLinked(l) ==
  /\ At(l, "link")
  /\ reserved' = TRUE
  /\ frame' = [frame EXCEPT ![l].pc = "check", ![l].read = q[slotOf(l)]]
  /\ UNCHANGED <<marker, queue, pending, des, calls>>

CheckDone(l) ==
  /\ At(l, "check")
  /\ frame' = [frame EXCEPT ![l].pc = IF d(l).done THEN After(l) ELSE "act",
                            ![l].read = IF d(l).done THEN NULL ELSE @]
  /\ UNCHANGED <<marker, queue, pending, reserved, des, calls>>

(* What the slot just read asks for: to be stored into, ... *)
Stores(e, slot) ==
  IF e.kind = "dequeue"
  THEN slot # SIGNAL /\ (slot = NULL => e.slotReturn = NULL)
  ELSE slot = SIGNAL \/ (slot = NULL /\ e.slotReturn # SIGNAL)

Stored(e, slot) ==
  IF e.kind = "dequeue" THEN (IF slot = NULL THEN SIGNAL ELSE NULL)
                        ELSE (IF slot = SIGNAL THEN NULL ELSE e.item)

(* ... and Head or Tail to be moved past it. *)
Advances(e, slot) ==
  IF e.kind = "dequeue"
  THEN slot # SIGNAL /\ (slot = NULL => e.slotReturn # NULL)
  ELSE slot # SIGNAL /\ (slot = NULL => e.slotReturn # SIGNAL)

Settled(l) == IF Advances(d(l), frame[l].read) THEN "linkIndex" ELSE "mark"

(* The SC on the slot, or no SC where a helper already made it. *)
Act(l) ==
  /\ At(l, "act")
  /\ LET e == d(l)
         slot == frame[l].read
         go(pc) == frame' = [frame EXCEPT ![l].pc = pc, ![l].read = NULL]
     IN \/ /\ Stores(e, slot) /\ reserved
           /\ q' = [q EXCEPT ![slotOf(l)] = Stored(e, slot)]
           /\ reserved' = FALSE
           /\ go(Settled(l))
        \/ /\ Stores(e, slot) /\ ~ reserved
           /\ go("link")
           /\ UNCHANGED <<q, reserved>>
        \/ /\ ~ Stores(e, slot)
           /\ go(Settled(l))
           /\ UNCHANGED <<q, reserved>>
  /\ UNCHANGED <<marker, head, tail, pending, des, calls>>

(* IncrementFifoQueueIndex *)
IndexOf(e) == IF e.kind = "dequeue" THEN head ELSE tail

LinkIndex(l) ==
  /\ At(l, "linkIndex")
  /\ reserved' = TRUE
  /\ Goto(l, IF IndexOf(d(l)) = d(l).index THEN "moveIndex" ELSE "mark")
  /\ UNCHANGED <<marker, queue, pending, des, calls>>

(* Mutant of MoveIndex: a store that fails is tried again without a new    *)
(* LL.                                                                     *)
MoveIndexNoLink(l) ==
  /\ At(l, "moveIndex")
  /\ LET next == (d(l).index + 1) % MaxIndex IN
     IF reserved
     THEN /\ head' = IF d(l).kind = "dequeue" THEN next ELSE head
          /\ tail' = IF d(l).kind = "enqueue" THEN next ELSE tail
          /\ Goto(l, "mark")
     ELSE Goto(l, "moveIndex") /\ UNCHANGED <<head, tail>>
  /\ reserved' = FALSE
  /\ UNCHANGED <<marker, q, pending, des, calls>>

MoveIndex(l) ==
  /\ At(l, "moveIndex")
  /\ LET next == (d(l).index + 1) % MaxIndex IN
     IF reserved
     THEN /\ head' = IF d(l).kind = "dequeue" THEN next ELSE head
          /\ tail' = IF d(l).kind = "enqueue" THEN next ELSE tail
          /\ Goto(l, "mark")
     ELSE Goto(l, "linkIndex") /\ UNCHANGED <<head, tail>>
  /\ reserved' = FALSE
  /\ UNCHANGED <<marker, q, pending, des, calls>>

MarkDone(l) ==
  /\ At(l, "mark")
  /\ des' = [des EXCEPT ![frame[l].target].done = TRUE]
  /\ Goto(l, After(l))
  /\ UNCHANGED <<marker, queue, pending, reserved, calls>>

(* Mutant of Withdraw: the descriptor stays posted. *)
WithdrawNothing(l) ==
  /\ At(l, "withdraw")
  /\ Goto(l, "return")
  /\ UNCHANGED <<marker, queue, pending, reserved, des, calls>>

Withdraw(l) ==
  /\ At(l, "withdraw")
  /\ pending' = NULL
  /\ Goto(l, "return")
  /\ UNCHANGED <<marker, queue, reserved, des, calls>>

(* The answer is in the descriptor (Answer below), which dies here; what   *)
(* was preempted finds its reservation cleared.                            *)
Return(l) ==
  /\ At(l, "return")
  /\ des' = [des EXCEPT ![l] = Descriptor("none", NULL)]
  /\ frame' = [frame EXCEPT ![l] = NoFrame]
  /\ reserved' = FALSE
  /\ UNCHANGED <<marker, queue, pending, calls>>

Step(l) ==
  \/ ReadPending(l) \/ Post(l)
  \/ TestField(l) \/ LoadField(l) \/ StoreField(l) \/ OpenLoop(l)
  \/ LoadLinked(l) \/ CheckDone(l) \/ Act(l)
  \/ LinkIndex(l) \/ MoveIndex(l) \/ MarkDone(l)
  \/ Withdraw(l) \/ Return(l)

Next ==
  \/ \E l \in Level :
       \/ \E item \in Items : Enqueue(l, item)
       \/ Dequeue(l)
       \/ Step(l)
  \/ Interrupt

(* A context that is not preempted goes on. *)
Fairness == \A l \in Level : WF_vars(Step(l))

Spec == Init /\ [][Next]_vars /\ Fairness

(***************************************************************************)
(* Properties                                                              *)
(***************************************************************************)

Slots == Items \cup {NULL, SIGNAL}

\* What a level may be at, in the order of the code.
Frames ==
  [pc : {"idle", "begin", "post", "test", "load", "store", "open", "link", "check",
         "act", "linkIndex", "moveIndex", "mark", "withdraw", "return"},
   target : Level \cup {NULL}, field : 1 .. 4, read : Index \cup Slots]

(* The type invariant of the queue, its descriptors and the frames that    *)
(* work on them (FIFOQUEUE, DEQUEUE_DESCRIPTOR, ENQUEUE_DESCRIPTOR).       *)
TypeOK ==
  /\ marker \in {SIGNAL, NULL}
  /\ q \in [0 .. QueueLength - 1 -> Slots]
  /\ head \in Index /\ tail \in Index
  /\ pending \in Level \cup {NULL}
  /\ reserved \in BOOLEAN
  /\ des \in [Level ->
       [kind : {"none", "enqueue", "dequeue"}, item : Items \cup {NULL},
        propose : Index \cup {UNREAD}, index : Index \cup {UNREAD},
        slotPropose : Slots \cup {UNREAD}, slotReturn : Slots \cup {UNREAD},
        done : BOOLEAN]]
  /\ frame \in [Level -> Frames]
  /\ calls \in 0 .. MaxCalls

(* Descriptors lie on the stacks of the operations that own them           *)
(* (EscapementHard.c, FIFODequeue and FIFOEnqueue): neither PendingOp nor  *)
(* a helper ever refers to one whose operation has returned.               *)
DescriptorAlive ==
  /\ pending # NULL => Active(pending)
  /\ \A l \in Level : frame[l].target # NULL => Active(frame[l].target)

(* Every variable has its type, so that no field of a descriptor is used   *)
(* before it is written, and no descriptor after its operation.            *)
DescriptorsSound == TypeOK /\ DescriptorAlive

(* An operation changes the queue once only, whoever completes it: the     *)
(* queue behaves as one whose operations are instantaneous (EventQueue),   *)
(* nothing is lost, given twice or out of order, and an event is kept.     *)
effected(l) ==
  LET e == des[l] IN
  /\ e.slotReturn # UNREAD
  /\ \/ e.done
     \/ ~ Changes(e)
     \/ IF e.kind = "dequeue"
        THEN IF e.slotReturn = NULL THEN q[e.index % QueueLength] = SIGNAL
             ELSE e.slotReturn \notin Waiting
        ELSE IF e.slotReturn = SIGNAL THEN q[e.index % QueueLength] # SIGNAL
             ELSE e.item \in Waiting

Answer(e) == IF e.kind = "enqueue" THEN e.slotReturn = marker
             ELSE IF e.slotReturn = SIGNAL THEN NULL ELSE e.slotReturn

AbstractCall(l) ==
  [kind |-> des[l].kind, item |-> des[l].item, effected |-> effected(l),
   result |-> IF effected(l) THEN Answer(des[l]) ELSE NULL]

(* The items held, oldest first.  Head's own slot is passed over while a    *)
(* dequeue has emptied it and Head is still to be moved.                   *)
Filled == {i \in DOMAIN q : q[i] \in Items}
Oldest == IF q[head % QueueLength] \in Items THEN head ELSE head + 1
Contents == [i \in 1 .. Cardinality(Filled) |-> q[(Oldest + (i - 1)) % QueueLength]]

Queue == INSTANCE EventQueue WITH
  contents <- Contents,
  signalled <- \E i \in DOMAIN q : q[i] = SIGNAL,
  call <- [l \in Level |-> AbstractCall(l)]

AtomicQueue == Queue!Spec

(* Wait-freedom: an operation ends whatever preempts it, and however many  *)
(* of its SCs fail.  Calls being finitely many, each one ends where there  *)
(* always comes a time at which none is under way.                         *)
OperationEnds == (\E l \in Level : Active(l)) ~> (\A l \in Level : ~ Active(l))
=============================================================================

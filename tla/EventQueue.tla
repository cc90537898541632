----------------------------- MODULE EventQueue -----------------------------
(***************************************************************************)
(* What the wait-free FIFO of EscapementHard.c promises its callers: each  *)
(* FIFOEnqueue and each FIFODequeue takes effect at one instant between    *)
(* its call and its return, on a queue of items or, for an event, on a     *)
(* queue that can instead hold one signal for the next enqueuer.           *)
(***************************************************************************)
EXTENDS Naturals, Sequences

CONSTANTS
  Level,        \* the nested contexts of one core: 0 is preempted by 1, ...
  QueueLength,  \* slots of the array
  Items,        \* what is queued: suspended tasks, or nodes
  NULL,
  SIGNAL        \* the mark an event leaves in an empty queue

VARIABLES
  marker,    \* the parameter signal of every operation on this queue
  contents,  \* the queued items, oldest first
  signalled, \* the queue holds a signal
  call       \* the operation in progress at each level

vars == <<marker, contents, signalled, call>>

NoCall == [kind |-> "none", item |-> NULL, effected |-> FALSE, result |-> NULL]

Init ==
  /\ marker \in {SIGNAL, NULL}
  /\ contents \in UNION {[1 .. n -> Items] : n \in 0 .. QueueLength}
  /\ signalled \in BOOLEAN
  /\ signalled => marker = SIGNAL /\ contents = <<>>
  /\ call = [l \in Level |-> NoCall]

Enqueue(l, item) ==
  /\ call[l] = NoCall
  /\ call' = [call EXCEPT ![l] = [NoCall EXCEPT !.kind = "enqueue", !.item = item]]
  /\ UNCHANGED <<marker, contents, signalled>>

Dequeue(l) ==
  /\ call[l] = NoCall
  /\ call' = [call EXCEPT ![l] = [NoCall EXCEPT !.kind = "dequeue"]]
  /\ UNCHANGED <<marker, contents, signalled>>

TakesEffect(l, result) ==
  /\ ~ call[l].effected
  /\ call' = [call EXCEPT ![l].effected = TRUE, ![l].result = result]
  /\ UNCHANGED marker

(* The event came first: it is consumed and the task goes on at once. *)
CatchSignal(l) ==
  /\ call[l].kind = "enqueue" /\ signalled
  /\ TakesEffect(l, TRUE)
  /\ signalled' = FALSE
  /\ UNCHANGED contents

(* An event queue answers FALSE to an item it inserts, a user queue TRUE.  *)
Insert(l) ==
  /\ call[l].kind = "enqueue" /\ ~ signalled /\ Len(contents) < QueueLength
  /\ TakesEffect(l, marker = NULL)
  /\ contents' = Append(contents, call[l].item)
  /\ UNCHANGED signalled

Refuse(l) ==
  /\ call[l].kind = "enqueue" /\ Len(contents) = QueueLength
  /\ TakesEffect(l, FALSE)
  /\ UNCHANGED <<contents, signalled>>

Remove(l) ==
  /\ call[l].kind = "dequeue" /\ contents # <<>>
  /\ TakesEffect(l, Head(contents))
  /\ contents' = Tail(contents)
  /\ UNCHANGED signalled

(* Nothing to dequeue: an event queue keeps the signal, one at most. *)
FindEmpty(l) ==
  /\ call[l].kind = "dequeue" /\ contents = <<>>
  /\ TakesEffect(l, NULL)
  /\ signalled' = (marker = SIGNAL)
  /\ UNCHANGED contents

Return(l) ==
  /\ call[l].effected
  /\ call' = [call EXCEPT ![l] = NoCall]
  /\ UNCHANGED <<marker, contents, signalled>>

Next ==
  \E l \in Level :
    \/ \E item \in Items : Enqueue(l, item)
    \/ Dequeue(l)
    \/ CatchSignal(l) \/ Insert(l) \/ Refuse(l) \/ Remove(l) \/ FindEmpty(l)
    \/ Return(l)

Spec == Init /\ [][Next]_vars
=============================================================================

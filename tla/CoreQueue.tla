------------------------------ MODULE CoreQueue ------------------------------
(***************************************************************************)
(* The FIFO queue between the two cores of the RP2350, by LL/SC on its     *)
(* places and on the indices Head and Tail, on each core by a task and by  *)
(* the interrupts that preempt it.  A step is one access to shared memory; *)
(* the barriers of the code are taken to make the accesses of a core seen  *)
(* in their order.  Enqueue and Dequeue are one algorithm: the item is put *)
(* in at Tail or taken out at Head, then the index moves on, and whoever   *)
(* finds it lagging behind a place already settled helps it on.            *)
(***************************************************************************)
EXTENDS Naturals, Sequences, FiniteSets

CONSTANTS
  MaxLevel,     \* depth of the preemptions on a core
  QueueLength,  \* length, a power of 2
  IndexLimit,   \* where Head and Tail wrap, 2^32
  StartIndex,   \* Head when the run starts
  Items,        \* what the pointers point to
  NULL,
  MaxCalls      \* bound: operations of one run

\* Of the length, a power of 2, it matters that the indices wrap at one of
\* its multiples.
CoreQueueAssumption ==
  /\ MaxLevel \in Nat /\ QueueLength \in Nat \ {0} /\ MaxCalls \in Nat
  /\ IndexLimit \in Nat /\ IndexLimit % QueueLength = 0
  /\ IndexLimit > MaxCalls + QueueLength /\ StartIndex \in 0 .. IndexLimit - 1
  /\ NULL \notin Items /\ NULL \notin 0 .. QueueLength /\ NULL # <<>>

VARIABLES
  q,         \* Q
  head,      \* Head
  tail,      \* Tail
  monitor,   \* each core's reservation: the granule of its last LL, or NULL
  op,        \* each thread's operation and its locals
  calls      \* operations so far

queue == <<q, head, tail>>
coreVars == <<queue, monitor, op, calls>>

Core == {0, 1}
Thread == Core \X (0 .. MaxLevel)
Index == 0 .. IndexLimit - 1
Place == 0 .. QueueLength - 1
Mask(index) == index % QueueLength

\* A reservation covers 16 bytes: four places, or Head, Tail and the rest
\* of CORE_QUEUE.
Granule(place) == place \div 4
IndexGranule == QueueLength

Idle == [pc |-> "idle", kind |-> "none", item |-> NULL, index |-> 0, slot |-> NULL,
         settled |-> FALSE]

\* The queue between operations: the items from Head up to Tail, no reservation.
AtRest ==
  /\ \E held \in UNION {[1 .. n -> Items] : n \in 0 .. QueueLength} :
       /\ \A i, j \in DOMAIN held : held[i] = held[j] => i = j
       /\ tail = (head + Len(held)) % IndexLimit
       /\ q = [p \in Place |->
                LET i == 1 + (((p + QueueLength) - Mask(head)) % QueueLength)
                IN  IF i <= Len(held) THEN held[i] ELSE NULL]
  /\ monitor = [c \in Core |-> NULL]
  /\ op = [t \in Thread |-> Idle]

\* Somewhere in its life, empty as OSInitCoreQueue leaves it or with items.
Init == head = StartIndex /\ AtRest /\ calls = 0

(***************************************************************************)
(* The memory.  An SC may fail for no visible reason; one that succeeds    *)
(* clears the other core's reservation of the granule.                     *)
(***************************************************************************)
LoadLinked(t, granule) == monitor' = [monitor EXCEPT ![t[1]] = granule]

StoreFails(t) == monitor' = [monitor EXCEPT ![t[1]] = NULL]

StoreSucceeds(t, granule) ==
  /\ monitor[t[1]] = granule
  /\ monitor' = [c \in Core |-> IF c = t[1] \/ monitor[c] = granule THEN NULL
                                ELSE monitor[c]]

(***************************************************************************)
(* The threads.                                                            *)
(***************************************************************************)
Active(t) == op[t].pc # "idle"
Above(t) == {<<t[1], l>> : l \in t[2] + 1 .. MaxLevel}
At(t, pc) == op[t].pc = pc /\ \A u \in Above(t) : ~Active(u)
Goto(t, pc) == op' = [op EXCEPT ![t].pc = pc]

\* An item is enqueued by the one thread that has it.
Free(item) == (\A p \in Place : q[p] # item)
              /\ \A t \in Thread : item \notin {op[t].item, op[t].slot}

Call(t, kind, item) ==
  /\ \A u \in {t} \cup Above(t) : ~Active(u)
  /\ calls < MaxCalls /\ calls' = calls + 1
  /\ op' = [op EXCEPT ![t] = [Idle EXCEPT !.pc = "read", !.kind = kind, !.item = item]]
  /\ UNCHANGED <<queue, monitor>>

OSEnqueueCoreQueue(t, item) == Free(item) /\ Call(t, "enqueue", item)

OSDequeueCoreQueue(t) == Call(t, "dequeue", NULL)

\* The index the operation is after.
IndexOf(t) == IF op[t].kind = "enqueue" THEN tail ELSE head

\* E5, D5
ReadIndex(t) ==
  /\ At(t, "read")
  /\ op' = [op EXCEPT ![t].pc = "bound", ![t].index = IndexOf(t)]
  /\ UNCHANGED <<queue, monitor, calls>>

\* E6, D6: full, or empty.
Refused(t) ==
  IF op[t].kind = "enqueue" THEN op[t].index = (head + QueueLength) % IndexLimit
                            ELSE op[t].index = tail

TestBound(t) ==
  /\ At(t, "bound")
  /\ Goto(t, IF Refused(t) THEN "return" ELSE "link")
  /\ UNCHANGED <<queue, monitor, calls>>

\* E9, D9
LinkPlace(t) ==
  /\ At(t, "link")
  /\ op' = [op EXCEPT ![t].pc = "check", ![t].slot = q[Mask(op[t].index)]]
  /\ LoadLinked(t, Granule(Mask(op[t].index)))
  /\ UNCHANGED <<queue, calls>>

Moved(t) == op[t].index # IndexOf(t)

CheckIndex(t) ==
  /\ At(t, "check")
  /\ op' = [op EXCEPT
       ![t].pc = IF Moved(t) THEN "read"
                 ELSE IF (op[t].slot = NULL) = (op[t].kind = "dequeue") THEN "linkIndex"
                 ELSE "store",
       ![t].slot = IF Moved(t) \/ op[t].kind = "enqueue" THEN NULL ELSE @]
  /\ UNCHANGED <<queue, monitor, calls>>

\* E15, D15
StorePlace(t) ==
  /\ At(t, "store")
  /\ \/ /\ StoreSucceeds(t, Granule(Mask(op[t].index)))
        /\ q' = [q EXCEPT ![Mask(op[t].index)] = op[t].item]
        /\ op' = [op EXCEPT ![t].pc = "linkIndex", ![t].settled = TRUE]
     \/ /\ StoreFails(t)
        /\ op' = [op EXCEPT ![t].pc = "read", ![t].slot = NULL]
        /\ UNCHANGED q
  /\ UNCHANGED <<head, tail, calls>>

\* E12, D12 of a helper, E16, D16 of the operation itself.
LinkIndex(t) ==
  /\ At(t, "linkIndex")
  /\ LoadLinked(t, IndexGranule)
  /\ Goto(t, IF IndexOf(t) = op[t].index THEN "moveIndex"
             ELSE IF op[t].settled THEN "return" ELSE "read")
  /\ UNCHANGED <<queue, calls>>

\* Mutant of AfterFailure: an index is moved on once, as in the paper.
AfterFailureOnce(t) == IF op[t].settled THEN "return" ELSE "read"

AfterFailure(t) == IF op[t].settled THEN "linkIndex" ELSE "read"

\* E13, D13 of a helper, E17, D17 of the operation itself.
MoveIndex(t) ==
  LET next == (op[t].index + 1) % IndexLimit IN
  /\ At(t, "moveIndex")
  /\ \/ /\ StoreSucceeds(t, IndexGranule)
        /\ head' = IF op[t].kind = "dequeue" THEN next ELSE head
        /\ tail' = IF op[t].kind = "enqueue" THEN next ELSE tail
        /\ Goto(t, IF op[t].settled THEN "return" ELSE "read")
     \/ /\ StoreFails(t)
        /\ Goto(t, AfterFailure(t))
        /\ UNCHANGED <<head, tail>>
  /\ UNCHANGED <<q, calls>>

\* What a preempted thread finds of its reservation: nothing.
Return(t) ==
  /\ At(t, "return")
  /\ op' = [op EXCEPT ![t] = Idle]
  /\ monitor' = [monitor EXCEPT ![t[1]] = NULL]
  /\ UNCHANGED <<queue, calls>>

Next ==
  \E t \in Thread :
    \/ \E item \in Items : OSEnqueueCoreQueue(t, item)
    \/ OSDequeueCoreQueue(t)
    \/ ReadIndex(t) \/ TestBound(t) \/ LinkPlace(t) \/ CheckIndex(t) \/ StorePlace(t)
    \/ LinkIndex(t) \/ MoveIndex(t) \/ Return(t)

Spec == Init /\ [][Next]_coreVars
-----------------------------------------------------------------------------
\* Every variable has its type.
TypeOK ==
  /\ q \in [Place -> Items \cup {NULL}] /\ head \in Index /\ tail \in Index
  /\ monitor \in [Core -> {NULL} \cup 0 .. QueueLength]
  /\ op \in [Thread ->
       [pc : {"idle", "read", "bound", "link", "check", "store", "linkIndex",
              "moveIndex", "return"},
        kind : {"none", "enqueue", "dequeue"}, item : Items \cup {NULL},
        index : Index, slot : Items \cup {NULL}, settled : BOOLEAN]]
  /\ calls \in 0 .. MaxCalls

(* Some operation has made its store, and its index is not yet moved on.   *)
Lagging(kind) == \E t \in Thread : /\ op[t].settled /\ op[t].kind = kind
                                   /\ op[t].pc # "return" /\ op[t].index = IndexOf(t)

(* Each operation takes effect at one instant between its call and its     *)
(* return: the queue of two cores is the queue of EventQueue, without its  *)
(* signal.  An operation is effected as its index moves on, whoever moves  *)
(* it; until then the item taken out is still the oldest.                  *)
Effected(t) == \/ op[t].pc = "return"
               \/ op[t].settled /\ op[t].index # IndexOf(t)

AbstractCall(t) ==
  [kind |-> op[t].kind, item |-> op[t].item, effected |-> Effected(t),
   result |-> IF ~Effected(t) THEN NULL
              ELSE IF op[t].kind = "enqueue" THEN op[t].settled ELSE op[t].slot]

Oldest == IF Lagging("dequeue")
          THEN op[CHOOSE t \in Thread : /\ op[t].settled /\ op[t].kind = "dequeue"
                                        /\ op[t].pc # "return" /\ op[t].index = head].slot
          ELSE q[Mask(head)]

Contents == [i \in 1 .. (tail - head) % IndexLimit |->
               IF i = 1 THEN Oldest ELSE q[Mask(head + (i - 1))]]

Abstract == INSTANCE EventQueue WITH
  Level <- Thread, SIGNAL <- <<>>, marker <- NULL, signalled <- FALSE,
  contents <- Contents,
  call <- [t \in Thread |-> AbstractCall(t)]

AtomicCoreQueue == Abstract!Spec
=============================================================================

-------------------------- MODULE HardKernelProofs --------------------------
(***************************************************************************)
(* Proofs about the hard real-time kernel, for every set of tasks, every   *)
(* length of the clock's turn and every timing the creation of tasks       *)
(* accepts, any signals and any interleaving of the tasks, the context     *)
(* switch, the scheduler and the devices, under EDF and under DM.  First:  *)
(* what the insertion into a queue returns, that the state keeps its       *)
(* types, and that the turns and the remainder of each arrival time agree  *)
(* with time.  Second: the contexts on the one stack are those of the      *)
(* started tasks in the order of the ready queue, a TCB is linked in one   *)
(* place, the deadlines that EDF compares are the true ones, across the    *)
(* turns of the clock, and the processor goes to the most urgent task.     *)
(* Third: an event-driven task keeps its period; every time, the deadlines *)
(* of the server that serves the event-driven tasks included, stays within *)
(* two turns of the clock; and no release is missed or late: whenever the  *)
(* scheduler is neither at work nor asked for, every arrival lies ahead    *)
(* and no signal is left unserved.                                         *)
(***************************************************************************)
EXTENDS HardKernel, SequenceTheorems, FiniteSetTheorems, TLAPS

(***************************************************************************)
(* The queues.                                                             *)
(***************************************************************************)

(* The walk of InsertQueue comes to an end: there is a first place whose   *)
(* task the new one precedes, or else the end.  It is counted by the       *)
(* places before it.                                                       *)
LEMMA FirstPlace ==
  ASSUME NEW n \in Nat, NEW T, T \subseteq 1 .. n
  PROVE  \E i \in 1 .. n + 1 : /\ i = n + 1 \/ i \in T
                               /\ \A j \in 1 .. i - 1 : j \notin T
  <1> DEFINE Unchosen == {i \in 1 .. n : \A j \in 1 .. i : j \notin T}
             k == Cardinality(Unchosen)
  <1>1. IsFiniteSet(1 .. n) /\ Cardinality(1 .. n) = n
    BY FS_Interval
  <1>2. IsFiniteSet(Unchosen) /\ k \in Nat /\ k <= n
    BY <1>1, FS_Subset, FS_CardinalityType
  <1>3. ASSUME NEW i \in Unchosen
        PROVE  i <= k
    <2>1. 1 .. i \subseteq Unchosen
      OBVIOUS
    <2>2. Cardinality(1 .. i) = i
      BY FS_Interval
    <2> QED
      BY <2>1, <2>2, <1>2, FS_Subset
  <1>4. ASSUME NEW i \in 1 .. n, i \notin Unchosen
        PROVE  k < i
    <2>1. Unchosen \subseteq 1 .. i - 1
      BY <1>4
    <2>2. IsFiniteSet(1 .. i - 1) /\ Cardinality(1 .. i - 1) = i - 1
      BY FS_Interval
    <2>3. k <= i - 1
      BY <2>1, <2>2, FS_Subset
    <2> QED
      BY <2>3, <1>2
  <1>5. \A j \in 1 .. k : j \notin T
    BY <1>2, <1>4
  <1>6. k + 1 = n + 1 \/ k + 1 \in T
    <2> SUFFICES ASSUME k < n
                 PROVE  k + 1 \in T
      BY <1>2
    <2>1. k + 1 \in 1 .. n /\ k + 1 \notin Unchosen
      BY <1>2, <1>3
    <2>2. PICK j \in 1 .. k + 1 : j \in T
      BY <2>1
    <2> QED
      BY <2>2, <1>5, <1>2
  <1> HIDE DEF k
  <1> QED
    BY <1>2, <1>5, <1>6

(* InsertQueue puts the new task at one place, the first whose task it     *)
(* precedes, and moves those from there one place on.                      *)
PutAt(n, inserted, t, q, precedes) ==
  /\ Len(inserted) = Len(q) + 1
  /\ \A i \in 1 .. n - 1 : inserted[i] = q[i]
  /\ inserted[n] = t
  /\ \A i \in n + 1 .. Len(q) + 1 : inserted[i] = q[i - 1]
  /\ n = Len(q) + 1 \/ precedes[q[n]]
  /\ \A i \in 1 .. n - 1 : ~precedes[q[i]]

LEMMA InsertQueuePlaces ==
  ASSUME NEW S, NEW t \in S, NEW q \in Seq(S), NEW precedes
  PROVE  /\ InsertQueue(t, q, precedes) \in Seq(S)
         /\ \E n \in 1 .. Len(q) + 1 :
              PutAt(n, InsertQueue(t, q, precedes), t, q, precedes)
  <1> DEFINE Stop(i) == /\ i = Len(q) + 1 \/ precedes[q[i]]
                        /\ \A j \in 1 .. i - 1 : ~precedes[q[j]]
             n == CHOOSE i \in 1 .. Len(q) + 1 : Stop(i)
             front == SubSeq(q, 1, n - 1)
             back == SubSeq(q, n, Len(q))
  <1>0. Len(q) \in Nat /\ q \in [1 .. Len(q) -> S] /\ DOMAIN q = 1 .. Len(q)
    BY LenProperties
  <1>1. n \in 1 .. Len(q) + 1 /\ Stop(n)
    <2> DEFINE T == {i \in 1 .. Len(q) : precedes[q[i]]}
    <2>0. T \subseteq 1 .. Len(q)
      OBVIOUS
    <2> HIDE DEF T
    <2>1. \E i \in 1 .. Len(q) + 1 : /\ i = Len(q) + 1 \/ i \in T
                                     /\ \A j \in 1 .. i - 1 : j \notin T
      BY <1>0, <2>0, FirstPlace
    <2>2. \E i \in 1 .. Len(q) + 1 : Stop(i)
      BY <2>1, <1>0 DEF T
    <2> QED
      BY <2>2
  <1> HIDE DEF n
  <1>2. /\ front \in Seq(S) /\ Len(front) = n - 1
        /\ \A i \in 1 .. n - 1 : front[i] = q[i]
    BY <1>0, <1>1, SubSeqProperties
  <1>3. /\ back \in Seq(S) /\ Len(back) = Len(q) - n + 1
        /\ \A i \in 1 .. Len(q) - n + 1 : back[i] = q[n + i - 1]
    BY <1>0, <1>1, SubSeqProperties
  <1> HIDE DEF front, back
  <1> DEFINE head == front \o <<t>>
             r == head \o back
  <1>4. /\ <<t>> \in Seq(S) /\ Len(<<t>>) = 1 /\ <<t>>[1] = t
    OBVIOUS
  <1>5. /\ head \in Seq(S) /\ Len(head) = n
        /\ \A i \in 1 .. n - 1 : head[i] = q[i]
        /\ head[n] = t
    BY <1>1, <1>2, <1>4, ConcatProperties
  <1> HIDE DEF head
  <1>6. /\ r \in Seq(S) /\ Len(r) = Len(q) + 1
        /\ \A i \in 1 .. n - 1 : r[i] = q[i]
        /\ r[n] = t
        /\ \A i \in n + 1 .. Len(q) + 1 : r[i] = q[i - 1]
    <2>1. /\ r \in Seq(S) /\ Len(r) = Len(head) + Len(back)
          /\ \A i \in 1 .. Len(head) + Len(back) :
               r[i] = IF i <= Len(head) THEN head[i] ELSE back[i - Len(head)]
      BY <1>3, <1>5, ConcatProperties
    <2> HIDE DEF r
    <2>2. \A i \in n + 1 .. Len(q) + 1 : r[i] = q[i - 1]
      <3> SUFFICES ASSUME NEW i \in n + 1 .. Len(q) + 1
                   PROVE  r[i] = q[i - 1]
        OBVIOUS
      <3>1. i - n \in 1 .. Len(q) - n + 1 /\ r[i] = back[i - n]
        BY <2>1, <1>0, <1>1, <1>3, <1>5
      <3>2. back[i - n] = q[n + (i - n) - 1]
        BY <3>1, <1>3
      <3> QED
        BY <3>1, <3>2, <1>0, <1>1
    <2> QED
      BY <2>1, <2>2, <1>0, <1>1, <1>3, <1>5
  <1>7. InsertQueue(t, q, precedes) = r
    BY DEF InsertQueue, n, front, back, head
  <1> HIDE DEF r
  <1>8. PutAt(n, r, t, q, precedes)
    BY <1>1, <1>6 DEF PutAt
  <1> QED
    BY <1>1, <1>6, <1>7, <1>8, Zenon

(* InsertQueue keeps every task of the queue and adds the new one.         *)
LEMMA InsertQueueProperties ==
  ASSUME NEW S, NEW t \in S, NEW q \in Seq(S), NEW precedes
  PROVE  /\ InsertQueue(t, q, precedes) \in Seq(S)
         /\ \A u : InQueue(u, InsertQueue(t, q, precedes))
                     <=> u = t \/ InQueue(u, q)
  <1> DEFINE r == InsertQueue(t, q, precedes)
  <1>0. Len(q) \in Nat /\ DOMAIN q = 1 .. Len(q)
    BY LenProperties
  <1>a. PICK n \in 1 .. Len(q) + 1 : r \in Seq(S) /\ PutAt(n, r, t, q, precedes)
    BY InsertQueuePlaces
  <1> HIDE DEF r
  <1>1. /\ r \in Seq(S) /\ Len(r) = Len(q) + 1
        /\ \A i \in 1 .. n - 1 : r[i] = q[i]
        /\ r[n] = t
        /\ \A i \in n + 1 .. Len(q) + 1 : r[i] = q[i - 1]
        /\ n = Len(q) + 1 \/ precedes[q[n]]
        /\ \A i \in 1 .. n - 1 : ~precedes[q[i]]
    BY <1>a DEF PutAt
  <1>2. DOMAIN r = 1 .. Len(q) + 1
    BY <1>0, <1>1, LenProperties
  <1>3. ASSUME NEW u
        PROVE  InQueue(u, r) <=> u = t \/ InQueue(u, q)
    <2>1. ASSUME InQueue(u, r)
          PROVE  u = t \/ InQueue(u, q)
      <3>1. PICK i \in 1 .. Len(q) + 1 : r[i] = u
        BY <2>1, <1>2 DEF InQueue
      <3>2. CASE i < n
        BY <3>1, <3>2, <1>0, <1>1 DEF InQueue
      <3>3. CASE i > n
        <4>1. i - 1 \in DOMAIN q /\ q[i - 1] = u
          BY <3>1, <3>3, <1>0, <1>1
        <4> QED
          BY <4>1 DEF InQueue
      <3> QED
        BY <3>1, <3>2, <3>3, <1>0, <1>1
    <2>2. ASSUME u = t
          PROVE  InQueue(u, r)
      BY <2>2, <1>0, <1>1, <1>2 DEF InQueue
    <2>3. ASSUME InQueue(u, q)
          PROVE  InQueue(u, r)
      <3>1. PICK i \in 1 .. Len(q) : q[i] = u
        BY <2>3, <1>0 DEF InQueue
      <3>2. CASE i < n
        BY <3>1, <3>2, <1>0, <1>1, <1>2 DEF InQueue
      <3>3. CASE i >= n
        <4>1. i + 1 \in 1 .. Len(q) + 1 /\ r[i + 1] = u
          BY <3>1, <3>3, <1>0, <1>1
        <4> QED
          BY <4>1, <1>2 DEF InQueue
      <3> QED
        BY <3>2, <3>3, <3>1, <1>0, <1>1
    <2> QED
      BY <2>1, <2>2, <2>3
  <1>4. r \in Seq(S)
    BY <1>1
  <1> QED
    BY <1>3, <1>4 DEF r

(* A push puts a task before the others.                                   *)
LEMMA PushType ==
  ASSUME NEW S, NEW q \in Seq(S), NEW x \in S
  PROVE  /\ <<x>> \o q \in Seq(S)
         /\ \A u : InQueue(u, <<x>> \o q) => u = x \/ InQueue(u, q)
  <1> DEFINE r == <<x>> \o q
  <1>1. <<x>> \in Seq(S) /\ Len(<<x>>) = 1 /\ <<x>>[1] = x
    OBVIOUS
  <1>2. Len(q) \in Nat /\ DOMAIN q = 1 .. Len(q)
    BY LenProperties
  <1>3. /\ r \in Seq(S) /\ Len(r) = 1 + Len(q)
        /\ \A i \in 1 .. 1 + Len(q) : r[i] = IF i <= 1 THEN <<x>>[i] ELSE q[i - 1]
    BY <1>1, ConcatProperties
  <1> HIDE DEF r
  <1>4. DOMAIN r = 1 .. 1 + Len(q)
    BY <1>3, LenProperties
  <1>5. ASSUME NEW u, InQueue(u, r), u # x
        PROVE  InQueue(u, q)
    <2>1. PICK i \in 1 .. 1 + Len(q) : r[i] = u
      BY <1>4, <1>5 DEF InQueue
    <2>2. i - 1 \in 1 .. Len(q) /\ q[i - 1] = u
      BY <2>1, <1>1, <1>2, <1>3, <1>5
    <2> QED
      BY <2>2, <1>2 DEF InQueue
  <1> QED
    BY <1>3, <1>5 DEF r

(* Tail drops the first task and no other.                                 *)
LEMMA TailQueue ==
  ASSUME NEW S, NEW q \in Seq(S), q # <<>>
  PROVE  /\ q[1] \in S /\ Tail(q) \in Seq(S)
         /\ \A u : InQueue(u, q) <=> u = q[1] \/ InQueue(u, Tail(q))
  <1>1. /\ Tail(q) \in Seq(S) /\ Len(Tail(q)) = Len(q) - 1
        /\ \A i \in 1 .. Len(Tail(q)) : Tail(q)[i] = q[i + 1]
        /\ Len(q) \in Nat \ {0}
    BY HeadTailProperties, EmptySeq
  <1>2. /\ q \in [1 .. Len(q) -> S] /\ DOMAIN q = 1 .. Len(q)
        /\ DOMAIN Tail(q) = 1 .. Len(Tail(q))
    BY <1>1, LenProperties
  <1>3. ASSUME NEW u, InQueue(u, q), u # q[1]
        PROVE  InQueue(u, Tail(q))
    <2>1. PICK i \in 1 .. Len(q) : q[i] = u
      BY <1>2, <1>3 DEF InQueue
    <2>2. i - 1 \in 1 .. Len(Tail(q)) /\ Tail(q)[i - 1] = u
      BY <2>1, <1>1, <1>3
    <2> QED
      BY <2>2, <1>2 DEF InQueue
  <1>4. ASSUME NEW u, u = q[1] \/ InQueue(u, Tail(q))
        PROVE  InQueue(u, q)
    <2>1. CASE u = q[1]
      BY <2>1, <1>1, <1>2 DEF InQueue
    <2>2. CASE InQueue(u, Tail(q))
      <3>1. PICK i \in 1 .. Len(Tail(q)) : Tail(q)[i] = u
        BY <2>2, <1>2 DEF InQueue
      <3>2. i + 1 \in 1 .. Len(q) /\ q[i + 1] = u
        BY <3>1, <1>1
      <3> QED
        BY <3>2, <1>2 DEF InQueue
    <2> QED
      BY <1>4, <2>1, <2>2
  <1> QED
    BY <1>1, <1>2, <1>3, <1>4

(* What a task's link leads to is a queue.                                 *)
LEMMA AfterType ==
  ASSUME NEW S, NEW q \in Seq(S), NEW t
  PROVE  After(t, q) \in Seq(S)
  <1>0. Len(q) \in Nat /\ q \in [1 .. Len(q) -> S] /\ DOMAIN q = 1 .. Len(q)
    BY LenProperties
  <1>1. CASE InQueue(t, q)
    <2> DEFINE i == CHOOSE i \in DOMAIN q : q[i] = t
    <2>1. i \in 1 .. Len(q)
      BY <1>0, <1>1 DEF InQueue
    <2> HIDE DEF i
    <2>2. \A j \in i + 1 .. Len(q) : q[j] \in S
      BY <2>1, <1>0
    <2>3. SubSeq(q, i + 1, Len(q)) \in Seq(S)
      BY <2>1, <2>2, <1>0, SubSeqProperties
    <2> QED
      BY <2>3, <1>1 DEF After, i
  <1>2. CASE ~InQueue(t, q)
    BY <1>2 DEF After
  <1> QED
    BY <1>1, <1>2

-----------------------------------------------------------------------------
(***************************************************************************)
(* Types.                                                                  *)
(***************************************************************************)

USE DEF tcb, queues, events, cpu, handler, timer, history

(* A step is one of the actions, or changes nothing.                       *)
LEMMA StepCases ==
  ASSUME [Next]_vars
  PROVE  \/ IdleTask
         \/ \E t \in Task : \/ EndTaskZombie(t) \/ EndTaskNoSave(t)
                            \/ EndTaskUnlink(t) \/ EndTaskElect(t)
                            \/ ScheduleTask(t) \/ SuspendSynchronousTask(t)
                            \/ (\E e \in Event : SignalDequeue(t, e))
                            \/ SignalPush(t)
         \/ \E e \in Event : SignalByInterrupt(e)
         \/ Tick
         \/ Scheduler
         \/ ContextSwap
         \/ UNCHANGED vars
  BY DEF Next, EndTask, Signal

(* A signalling task that is about to push a task holds one.               *)
CarriesOne == \A t \in Task : tpc[t] = "push" => carried[t] # None

TypeInv == TypeOK /\ CarriesOne

LEMMA InitType == Init => TypeInv
  <1> SUFFICES ASSUME Init
               PROVE  TypeInv
    OBVIOUS
  <1> USE TaskAssumption, TimingAssumption DEF Init
  <1>1. Len(Created) \in Nat
    BY LenProperties
  <1>2. \A S : \A q \in UNION {[1 .. n -> S] : n \in 0 .. Len(Created)} : q \in Seq(S)
    BY <1>1
  <1>3. arrivalQ \in Seq(Task)
    <2>1. arrivalQ \in UNION {[1 .. n -> Periodic] : n \in 0 .. Len(Created)}
      BY DEF FirstArrivals, Arrangements
    <2>2. arrivalQ \in Seq(Periodic)
      BY <2>1, <1>2
    <2> QED
      BY <2>2, SeqMonotonic DEF Task
  <1>4. waiting \in [Event -> Seq(Synchronous)]
    <2>1. waiting \in [Event ->
                       UNION {Arrangements(S, LastCreated) : S \in SUBSET Synchronous}]
      BY DEF FirstWaiting
    <2>2. ASSUME NEW e \in Event
          PROVE  waiting[e] \in Seq(Synchronous)
      <3>1. PICK S \in SUBSET Synchronous : waiting[e] \in Arrangements(S, LastCreated)
        BY <2>1
      <3>2. waiting[e] \in UNION {[1 .. n -> S] : n \in 0 .. Len(Created)}
        BY <3>1 DEF Arrangements
      <3>3. waiting[e] \in Seq(S)
        BY <3>2, <1>2
      <3> QED
        BY <3>3, SeqMonotonic
    <2> QED
      BY <2>1, <2>2
  <1>5. readyQ \in Seq(Task) /\ reschedule \in Seq(Synchronous) /\ saved \in Seq(Place)
    OBVIOUS
  <1>6. /\ pendSwap \in BOOLEAN /\ pendSoft \in BOOLEAN /\ booted \in BOOLEAN
        /\ overflowFlag \in BOOLEAN /\ comparatorFlag \in BOOLEAN
        /\ noSave \in BOOLEAN
    BY Zenon
  <1>7. signaled \in [Event -> BOOLEAN]
    BY Zenon
  <1> QED
    BY <1>3, <1>4, <1>5, <1>6, <1>7 DEF TypeInv, TypeOK, CarriesOne, Place, Task

LEMMA TopType ==
  ASSUME NEW q \in Seq(Task)
  PROVE  Top(q) \in Task \cup {Idle}
  BY EmptySeq, LenProperties DEF Top

(* A step that moves tasks between the events and the list of tasks to     *)
(* reschedule keeps their types.                                           *)
LEMMA SuspendTypeStep ==
  ASSUME TypeInv, NEW t \in Task, SuspendSynchronousTask(t)
  PROVE  TypeInv'
  <1> DEFINE e == EventOf[t]
  <1>1. t \in Synchronous /\ e \in Event
    BY TaskAssumption DEF SuspendSynchronousTask
  <1>2. /\ reschedule \in Seq(Synchronous) /\ waiting \in [Event -> Seq(Synchronous)]
        /\ signaled \in [Event -> BOOLEAN] /\ readyQ \in Seq(Task)
    BY DEF TypeInv, TypeOK
  <1>3. /\ <<t>> \o reschedule \in Seq(Synchronous)
        /\ Append(waiting[e], t) \in Seq(Synchronous)
    BY <1>1, <1>2, PushType, AppendProperties
  <1>4. After(active, readyQ) \in Seq(Task)
    BY <1>2, AfterType
  <1>5. Top(After(active, readyQ)) \in Task \cup {Idle}
    BY <1>4, TopType
  <1>6. /\ reschedule' \in Seq(Synchronous) /\ waiting' \in [Event -> Seq(Synchronous)]
        /\ signaled' \in [Event -> BOOLEAN]
    BY <1>1, <1>2, <1>3 DEF SuspendSynchronousTask, EnqueueRescheduleQueue
  <1>7. pendSoft' \in BOOLEAN
    BY Zenon DEF SuspendSynchronousTask, EnqueueRescheduleQueue, TypeInv, TypeOK
  <1>8. /\ readyQ' \in Seq(Task) /\ active' \in Task \cup {Idle} /\ noSave' \in BOOLEAN
        /\ tpc' = [tpc EXCEPT ![t] = "pend"]
        /\ taskState' = [taskState EXCEPT ![active] = "zombie"]
        /\ UNCHANGED <<high, low, nextDeadline, serverDeadline, arrivalQ, carried,
                       cur, saved, swap, r1, handler, pendSwap, timer, history>>
    BY <1>4, <1>5 DEF SuspendSynchronousTask, Goto
  <1> QED
    BY <1>6, <1>7, <1>8, SMTT(90) DEF TypeInv, TypeOK, CarriesOne

LEMMA DequeueTypeStep ==
  ASSUME TypeInv, NEW t \in Task, NEW e \in Event, SignalDequeue(t, e)
  PROVE  TypeInv'
  <1>1. /\ waiting \in [Event -> Seq(Synchronous)] /\ signaled \in [Event -> BOOLEAN]
        /\ carried \in [Task -> Synchronous \cup {None}]
    BY DEF TypeInv, TypeOK
  <1>2. CASE waiting[e] # <<>>
    <2>1. waiting[e][1] \in Synchronous /\ Tail(waiting[e]) \in Seq(Synchronous)
      BY <1>1, <1>2, TailQueue
    <2>2. waiting[e][1] # None
      BY <2>1, TaskAssumption DEF Task
    <2>3. /\ carried' = [carried EXCEPT ![t] = waiting[e][1]]
          /\ waiting' = [waiting EXCEPT ![e] = Tail(@)]
          /\ tpc' = [tpc EXCEPT ![t] = "push"]
          /\ signaled' = signaled
          /\ UNCHANGED <<tcb, queues, reschedule, active, noSave, cur, saved,
                         swap, r1, handler, pendSwap, pendSoft, timer, history>>
      BY <1>2 DEF SignalDequeue, Goto
    <2>4. /\ carried' \in [Task -> Synchronous \cup {None}]
          /\ waiting' \in [Event -> Seq(Synchronous)]
      BY <1>1, <2>1, <2>3
    <2> QED
      BY <2>2, <2>3, <2>4, SMTT(90) DEF TypeInv, TypeOK, CarriesOne
  <1>3. CASE waiting[e] = <<>>
    <2>1. signaled' \in [Event -> BOOLEAN]
      BY <1>1, <1>3 DEF SignalDequeue
    <2>2. UNCHANGED <<tcb, queues, reschedule, waiting, carried, cpu, handler,
                      pendSwap, pendSoft, timer, history>>
      BY <1>3 DEF SignalDequeue
    <2> QED
      BY <2>1, <2>2, SMTT(90) DEF TypeInv, TypeOK, CarriesOne
  <1> QED
    BY <1>2, <1>3

LEMMA InterruptTypeStep ==
  ASSUME TypeInv, NEW e \in Event, SignalByInterrupt(e)
  PROVE  TypeInv'
  <1>1. /\ waiting \in [Event -> Seq(Synchronous)] /\ signaled \in [Event -> BOOLEAN]
        /\ reschedule \in Seq(Synchronous)
    BY DEF TypeInv, TypeOK
  <1>2. pendSoft' \in BOOLEAN
    BY Zenon DEF SignalByInterrupt, EnqueueRescheduleQueue, TypeInv, TypeOK
  <1>3. /\ waiting' \in [Event -> Seq(Synchronous)] /\ signaled' \in [Event -> BOOLEAN]
        /\ reschedule' \in Seq(Synchronous)
    <2>1. CASE waiting[e] # <<>>
      <3>1. waiting[e][1] \in Synchronous /\ Tail(waiting[e]) \in Seq(Synchronous)
        BY <1>1, <2>1, TailQueue
      <3>2. <<waiting[e][1]>> \o reschedule \in Seq(Synchronous)
        BY <1>1, <3>1, PushType
      <3> QED
        BY <1>1, <2>1, <3>1, <3>2 DEF SignalByInterrupt, EnqueueRescheduleQueue
    <2>2. CASE waiting[e] = <<>>
      BY <1>1, <2>2 DEF SignalByInterrupt
    <2> QED
      BY <2>1, <2>2
  <1>4. UNCHANGED <<tcb, queues, carried, cpu, handler, pendSwap, timer, history>>
    BY DEF SignalByInterrupt
  <1> QED
    BY <1>2, <1>3, <1>4 DEF TypeInv, TypeOK, CarriesOne

(* The steps of the tasks.                                                 *)
LEMMA TaskTypeStep ==
  ASSUME TypeInv, NEW t \in Task,
         \/ EndTaskZombie(t) \/ EndTaskNoSave(t)
         \/ EndTaskUnlink(t) \/ EndTaskElect(t)
         \/ ScheduleTask(t) \/ SuspendSynchronousTask(t)
         \/ (\E e \in Event : SignalDequeue(t, e))
         \/ SignalPush(t)
  PROVE  TypeInv'
  <1> USE TaskAssumption DEF TypeInv, TypeOK, CarriesOne, Goto
  <1>1. CASE EndTaskZombie(t)
    BY <1>1, SMTT(90) DEF EndTaskZombie
  <1>2. CASE EndTaskNoSave(t)
    BY <1>2 DEF EndTaskNoSave
  <1>3. CASE EndTaskUnlink(t)
    BY <1>3, AfterType, SMTT(90) DEF EndTaskUnlink
  <1>4. CASE EndTaskElect(t)
    BY <1>4, TopType DEF EndTaskElect
  <1>5. CASE ScheduleTask(t)
    BY <1>5 DEF ScheduleTask
  <1>6. CASE SuspendSynchronousTask(t)
    BY <1>6, SuspendTypeStep
  <1>7. ASSUME NEW e \in Event, SignalDequeue(t, e)
        PROVE  TypeInv'
    BY <1>7, DequeueTypeStep
  <1>8. CASE SignalPush(t)
    BY <1>8, SMTT(90) DEF SignalPush, At, EnqueueRescheduleQueue
  <1> QED
    BY <1>1, <1>2, <1>3, <1>4, <1>5, <1>6, <1>7, <1>8

(* The idle task, the devices and the clock.                               *)
LEMMA DeviceTypeStep ==
  ASSUME TypeInv, IdleTask \/ Tick \/ \E e \in Event : SignalByInterrupt(e)
  PROVE  TypeInv'
  <1> USE TaskAssumption, TimingAssumption DEF TypeInv, TypeOK, CarriesOne, Goto
  <1>1. CASE IdleTask
    BY <1>1 DEF IdleTask
  <1>2. CASE Tick
    <2>1. /\ now' \in 0 .. ShiftTimeLimit - 1 /\ alarm' \in Nat /\ latency' \in Nat
          /\ due' \in [Periodic -> Int] /\ left' \in [Periodic -> Int]
          /\ rest' \in [Synchronous -> Nat]
      BY <1>2, SMTT(90) DEF Tick, Wraps
    <2>2. /\ comparatorFlag' \in BOOLEAN /\ overflowFlag' \in BOOLEAN
          /\ pendSoft' \in BOOLEAN
      BY <1>2, Zenon DEF Tick
    <2> QED
      BY <1>2, <2>1, <2>2 DEF Tick
  <1>3. ASSUME NEW e \in Event, SignalByInterrupt(e)
        PROVE  TypeInv'
    BY <1>3, InterruptTypeStep
  <1> QED
    BY <1>1, <1>2, <1>3

LEMMA CreateTypeStep ==
  ASSUME TypeInv, SwapCreate
  PROVE  TypeInv'
  <1>1. /\ taskState \in [Task \cup {Idle} -> {"init", "running", "zombie"}]
        /\ tpc \in [Task \cup {Idle} ->
             {"run", "nosave", "unlink", "elect", "pend", "done", "push", "sleep"}]
    BY DEF TypeInv, TypeOK
  <1>2. /\ taskState' = [taskState EXCEPT ![r1] = "running"]
        /\ tpc' = [tpc EXCEPT ![r1] = "run"]
        /\ cur' = r1 /\ swap' = "out" /\ r1' = None
        /\ UNCHANGED <<high, low, nextDeadline, serverDeadline, queues,
                       reschedule, events, active, noSave, saved, handler,
                       pendSwap, pendSoft, timer, history>>
    BY DEF SwapCreate, Goto
  <1>3. /\ taskState' \in [Task \cup {Idle} -> {"init", "running", "zombie"}]
        /\ tpc' \in [Task \cup {Idle} ->
             {"run", "nosave", "unlink", "elect", "pend", "done", "push", "sleep"}]
        /\ \A t \in Task : tpc'[t] = "push" => tpc[t] = "push"
    BY <1>1, <1>2
  <1>4. r1' \in Place /\ cur' \in Place
    BY <1>2 DEF TypeInv, TypeOK, Place
  <1> QED
    BY <1>2, <1>3, <1>4 DEF TypeInv, TypeOK, CarriesOne

(* What a step of the switch leaves alone keeps its type.                  *)
LEMMA SwitchTypes ==
  ASSUME TypeInv,
         UNCHANGED <<tcb, queues, reschedule, events, active, tpc, handler,
                     pendSoft, timer, history>>,
         noSave' \in BOOLEAN, cur' \in Place, saved' \in Seq(Place),
         swap' \in {"out", "test", "switch"}, r1' \in Place, pendSwap' \in BOOLEAN
  PROVE  TypeInv'
  <1>1. UNCHANGED <<taskState, high, low, nextDeadline, serverDeadline, readyQ,
                    arrivalQ, reschedule, waiting, signaled, carried>>
    BY DEF tcb, queues, events
  <1>2. UNCHANGED <<active, tpc, soft, currentTime, pendSoft, booted, now, alarm,
                    overflowFlag, comparatorFlag, due, left, rest, latency>>
    BY DEF handler, timer, history
  <1> QED
    BY <1>1, <1>2, Zenon DEF TypeInv, TypeOK, CarriesOne

(* The context switch.                                                     *)
LEMMA ContextSwapTypeStep ==
  ASSUME TypeInv, ContextSwap
  PROVE  TypeInv'
  <1>0. /\ active \in Place /\ None \in Place /\ cur \in Place /\ r1 \in Place
        /\ saved \in Seq(Place) /\ noSave \in BOOLEAN /\ pendSwap \in BOOLEAN
    BY DEF TypeInv, TypeOK, Place
  <1>1. CASE SwapEnter
    BY <1>0, <1>1, SwitchTypes, Zenon DEF SwapEnter
  <1>2. CASE SwapReturn
    BY <1>0, <1>2, SwitchTypes, Zenon DEF SwapReturn
  <1>3. CASE SwapSave
    <2>1. <<cur>> \o saved \in Seq(Place)
      BY <1>0
    <2> QED
      BY <1>0, <1>3, <2>1, SwitchTypes, Zenon DEF SwapSave
  <1>4. CASE SwapClear
    BY <1>0, <1>4, SwitchTypes, Zenon DEF SwapClear
  <1>5. CASE SwapCreate
    BY <1>5, CreateTypeStep
  <1>6. CASE SwapRestore
    <2>1. saved[1] \in Place /\ Tail(saved) \in Seq(Place)
      BY <1>0, <1>6, TailQueue DEF SwapRestore
    <2> QED
      BY <1>0, <1>6, <2>1, SwitchTypes, Zenon DEF SwapRestore
  <1> QED
    BY <1>1, <1>2, <1>3, <1>4, <1>5, <1>6 DEF ContextSwap

(* The scheduler: a release puts the task into the ready queue, gives it   *)
(* times and moves it along the arrival queue.                             *)
LEMMA ReadyInsertType ==
  ASSUME readyQ \in Seq(Task), NEW t \in Task, NEW nd
  PROVE  ReadyQueueInsert(t, nd) \in Seq(Task)
  BY InsertQueueProperties DEF ReadyQueueInsert

LEMMA ArrivalInsertType ==
  ASSUME NEW t \in Task, NEW q \in Seq(Task), NEW h, NEW l
  PROVE  /\ ArrivalQueueInsert(t, q, h, l) \in Seq(Task)
         /\ \A u : InQueue(u, ArrivalQueueInsert(t, q, h, l))
                     <=> u = t \/ InQueue(u, q)
  BY InsertQueueProperties DEF ArrivalQueueInsert

LEMMA NextArrivalType ==
  ASSUME TypeInv, NEW t \in Periodic, arrivalQ # <<>>, NextPeriodicArrival(t)
  PROVE  /\ high' \in [Periodic -> Nat] /\ low' \in [Task -> Int]
         /\ arrivalQ' \in Seq(Task) /\ due' \in [Periodic -> Int]
  <1>1. /\ high \in [Periodic -> Nat] /\ low \in [Task -> Int]
        /\ arrivalQ \in Seq(Task) /\ due \in [Periodic -> Int] /\ t \in Task
    BY DEF TypeInv, TypeOK, Task
  <1>2. /\ PeriodHigh[t] \in Nat /\ PeriodLow[t] \in Int /\ ShiftTimeLimit \in Int
        /\ Period(t) \in Int
    BY TimingAssumption DEF Period
  <1>3. high' \in [Periodic -> Nat] /\ low' \in [Task -> Int] /\ due' \in [Periodic -> Int]
    <2> DEFINE sum == low[t] + PeriodLow[t]
               carry == sum >= ShiftTimeLimit
    <2>1. /\ PeriodHigh[t] + (IF carry THEN 1 ELSE 0) \in Nat
          /\ (IF carry THEN sum - ShiftTimeLimit ELSE sum) \in Int
      BY <1>1, <1>2, SMTT(90)
    <2>2. /\ high' = [high EXCEPT ![t] = PeriodHigh[t] + IF carry THEN 1 ELSE 0]
          /\ low' = [low EXCEPT ![t] = IF carry THEN sum - ShiftTimeLimit ELSE sum]
          /\ due' = [due EXCEPT ![t] = @ + Period(t)]
      BY DEF NextPeriodicArrival
    <2> HIDE DEF carry, sum
    <2> QED
      BY <1>1, <1>2, <2>1, <2>2, SMTT(90)
  <1>4. Tail(arrivalQ) \in Seq(Task)
    BY <1>1, TailQueue
  <1>5. arrivalQ' \in Seq(Task)
    BY <1>1, <1>4, ArrivalInsertType DEF NextPeriodicArrival
  <1> QED
    BY <1>3, <1>5

LEMMA ReleaseType ==
  ASSUME TypeInv, NEW s \in Synchronous, NEW base \in Int,
         ReleaseSynchronous(s, base)
  PROVE  /\ taskState' \in [Task \cup {Idle} -> {"init", "running", "zombie"}]
         /\ low' \in [Task -> Int] /\ nextDeadline' \in [Task -> Int]
         /\ serverDeadline' \in Nat /\ rest' \in [Synchronous -> Nat]
         /\ readyQ' \in Seq(Task)
  <1>1. /\ taskState \in [Task \cup {Idle} -> {"init", "running", "zombie"}]
        /\ low \in [Task -> Int] /\ nextDeadline \in [Task -> Int]
        /\ serverDeadline \in Nat /\ rest \in [Synchronous -> Nat]
        /\ readyQ \in Seq(Task) /\ s \in Task
        /\ currentTime \in Nat /\ now \in Nat
    BY TimingAssumption, SMTT(90) DEF TypeInv, TypeOK, Task
  <1>2. WorkLoad[s] \in Nat /\ ShiftTimeLimit \in Nat
    BY TimingAssumption
  <1>3. Age \in Int
    BY <1>1, <1>2 DEF Age
  <1>4. ASSUME NEW until \in Int, Entitled(s, until)
        PROVE  rest' \in [Synchronous -> Nat]
    BY <1>1, <1>3, <1>4 DEF Entitled
  <1>5. CASE Mode = "EDF"
    <2>1. GetSuspendedSchedulingDeadline(s) \in Nat
      BY <1>1, <1>2 DEF GetSuspendedSchedulingDeadline
    <2>2. /\ serverDeadline' \in Nat /\ nextDeadline' \in [Task -> Int] /\ low' = low
          /\ Entitled(s, serverDeadline')
      BY <1>1, <1>5, <2>1 DEF ReleaseSynchronous
    <2>3. rest' \in [Synchronous -> Nat]
      BY <1>4, <2>2
    <2> QED
      BY <1>1, <2>2, <2>3, ReadyInsertType DEF ReleaseSynchronous
  <1>6. CASE Mode # "EDF"
    <2>1. base + WorkLoad[s] \in Int
      BY <1>2
    <2>2. /\ serverDeadline' = serverDeadline /\ nextDeadline' = nextDeadline
          /\ low' \in [Task -> Int] /\ Entitled(s, base + WorkLoad[s])
      BY <1>1, <1>6, <2>1 DEF ReleaseSynchronous
    <2>3. rest' \in [Synchronous -> Nat]
      BY <1>4, <2>1, <2>2
    <2> QED
      BY <1>1, <2>2, <2>3, ReadyInsertType DEF ReleaseSynchronous
  <1> QED
    BY <1>5, <1>6

LEMMA SchedulerTypeStep ==
  ASSUME TypeInv, Scheduler
  PROVE  TypeInv'
  <1> USE DEF SoftAt
  <1>0. /\ taskState \in [Task \cup {Idle} -> {"init", "running", "zombie"}]
        /\ high \in [Periodic -> Nat] /\ low \in [Task -> Int]
        /\ nextDeadline \in [Task -> Int] /\ serverDeadline \in Nat
        /\ readyQ \in Seq(Task) /\ arrivalQ \in Seq(Task)
        /\ reschedule \in Seq(Synchronous)
        /\ Synchronous \subseteq Task /\ Periodic \subseteq Task
        /\ now \in Nat /\ left \in [Periodic -> Int] /\ due \in [Periodic -> Int]
    BY TimingAssumption, SMTT(90) DEF TypeInv, TypeOK, Task
  <1>1. CASE SoftTimerInterrupt
    <2>1. readyQ' \in Seq(Task) /\ noSave' \in BOOLEAN
      <3>1. CASE readyQ # <<>> /\ taskState[readyQ[1]] = "zombie"
        <4>1. Tail(readyQ) \in Seq(Task)
          BY <1>0, <3>1, TailQueue
        <4> QED
          BY <1>1, <3>1, <4>1 DEF SoftTimerInterrupt
      <3>2. CASE ~(readyQ # <<>> /\ taskState[readyQ[1]] = "zombie")
        BY <1>1, <3>2 DEF SoftTimerInterrupt, TypeInv, TypeOK
      <3> QED
        BY <3>1, <3>2
    <2>2. active' \in Task \cup {Idle}
      BY <1>1, <2>1, TopType DEF SoftTimerInterrupt
    <2> QED
      BY <1>1, <2>1, <2>2 DEF SoftTimerInterrupt, TypeInv, TypeOK, CarriesOne
  <1>2. CASE TestOverflow
    <2>1. /\ high' \in [Periodic -> Nat] /\ low' \in [Task -> Int]
          /\ nextDeadline' \in [Task -> Int] /\ serverDeadline' \in Nat
      <3>1. CASE overflowFlag
        <4>1. ShiftTimes
          BY <1>2, <3>1 DEF TestOverflow
        <4>2. high' \in [Periodic -> Nat]
          BY <1>0, <4>1 DEF ShiftTimes
        <4>3. /\ low' \in [Task -> Int] /\ nextDeadline' \in [Task -> Int]
              /\ serverDeadline' \in Nat
          BY <1>0, <4>1, TimingAssumption DEF ShiftTimes, SubOrZeroIfNeg
        <4> QED
          BY <4>2, <4>3
      <3>2. CASE ~overflowFlag
        BY <1>0, <1>2, <3>2 DEF TestOverflow
      <3> QED
        BY <3>1, <3>2
    <2> QED
      BY <1>2, <2>1 DEF TestOverflow, TypeInv, TypeOK, CarriesOne
  <1>3. CASE ClearComparatorFlag
    BY <1>3 DEF ClearComparatorFlag, TypeInv, TypeOK, CarriesOne
  <1>4. CASE ReadTime
    BY <1>4 DEF ReadTime, TypeInv, TypeOK, CarriesOne
  <1>5. ASSUME NEW t \in Task, ReleasePeriodic(t)
        PROVE  TypeInv'
    <2>1. t \in Periodic /\ arrivalQ # <<>> /\ NextPeriodicArrival(t)
      BY <1>5 DEF ReleasePeriodic, Arrives
    <2>2. Deadline[t] \in Int
      BY <2>1, TimingAssumption
    <2>3. readyQ' \in Seq(Task)
      BY <1>0, <1>5, ReadyInsertType DEF ReleasePeriodic
    <2>4. /\ taskState' \in [Task \cup {Idle} -> {"init", "running", "zombie"}]
          /\ nextDeadline' \in [Task -> Int] /\ left' \in [Periodic -> Int]
      BY <1>0, <1>5, <2>1, <2>2, SMTT(90) DEF ReleasePeriodic
    <2>5. /\ high' \in [Periodic -> Nat] /\ low' \in [Task -> Int]
          /\ arrivalQ' \in Seq(Task) /\ due' \in [Periodic -> Int]
      BY <2>1, NextArrivalType
    <2>6. UNCHANGED <<serverDeadline, reschedule, events, cpu, handler, pendSwap,
                      pendSoft, timer, rest, latency>>
      BY <1>5 DEF ReleasePeriodic
    <2> QED
      BY <2>3, <2>4, <2>5, <2>6, SMTT(120) DEF TypeInv, TypeOK, CarriesOne
  <1>6. ASSUME NEW t \in Task, Overrun(t)
        PROVE  TypeInv'
    <2>1. t \in Periodic /\ arrivalQ # <<>> /\ NextPeriodicArrival(t)
      BY <1>6 DEF Overrun, Arrives
    <2> QED
      BY <1>6, <2>1, NextArrivalType, ZenonT(60) DEF Overrun, TypeInv, TypeOK, CarriesOne
  <1>7. ASSUME NEW s \in Task, ArriveSynchronous(s)
        PROVE  TypeInv'
    <2>1. s \in Synchronous /\ ReleaseSynchronous(s, low[s]) /\ low[s] \in Int
      BY <1>0, <1>7 DEF ArriveSynchronous
    <2>2. arrivalQ' \in Seq(Task)
      BY <1>0, <1>7, TailQueue DEF ArriveSynchronous, Arrives
    <2>3. /\ taskState' \in [Task \cup {Idle} -> {"init", "running", "zombie"}]
          /\ low' \in [Task -> Int] /\ nextDeadline' \in [Task -> Int]
          /\ serverDeadline' \in Nat /\ rest' \in [Synchronous -> Nat]
          /\ readyQ' \in Seq(Task)
      BY <2>1, ReleaseType
    <2>4. UNCHANGED <<high, reschedule, events, cpu, handler, pendSwap, pendSoft,
                      timer, due, left, latency>>
      BY <1>7 DEF ArriveSynchronous
    <2> QED
      BY <2>2, <2>3, <2>4, SMTT(90) DEF TypeInv, TypeOK, CarriesOne
  <1>8. CASE ArrivalsDone
    BY <1>8 DEF ArrivalsDone, TypeInv, TypeOK, CarriesOne
  <1>9. ASSUME NEW s \in Synchronous, RescheduleLater(s)
        PROVE  TypeInv'
    <2>1. reschedule' \in Seq(Synchronous)
      BY <1>0, <1>9, TailQueue DEF RescheduleLater
    <2>2. low' \in [Task -> Int]
      BY <1>0, <1>9 DEF RescheduleLater
    <2>3. arrivalQ' \in Seq(Task)
      BY <1>0, <1>9, ArrivalInsertType DEF RescheduleLater
    <2> QED
      BY <1>9, <2>1, <2>2, <2>3 DEF RescheduleLater, TypeInv, TypeOK, CarriesOne
  <1>10. ASSUME NEW s \in Synchronous, RescheduleNow(s)
         PROVE  TypeInv'
    <2>1. ReleaseSynchronous(s, currentTime) /\ currentTime \in Int
      BY <1>10, TimingAssumption DEF RescheduleNow, TypeInv, TypeOK
    <2>2. reschedule' \in Seq(Synchronous)
      BY <1>0, <1>10, TailQueue DEF RescheduleNow
    <2> QED
      BY <1>10, <2>1, <2>2, ReleaseType, ZenonT(60) DEF RescheduleNow, TypeInv, TypeOK, CarriesOne
  <1>11. CASE RescheduleDone
    BY <1>11 DEF RescheduleDone, TypeInv, TypeOK, CarriesOne
  <1>12. CASE SetTimer
    <2>1. alarm' \in Nat
      <3>1. CASE arrivalQ = <<>>
        BY <1>12, <3>1 DEF SetTimer, TypeInv, TypeOK
      <3>2. CASE arrivalQ # <<>>
        <4>1. low[arrivalQ[1]] \in Int
          BY <1>0, <3>2, TailQueue
        <4> QED
          BY <1>0, <1>12, <4>1, SMTT(90) DEF SetTimer, TypeInv, TypeOK
      <3> QED
        BY <3>1, <3>2
    <2>2. soft' \in {"clear", "pending"}
      BY <1>12 DEF SetTimer
    <2> QED
      BY <1>12, <2>1, <2>2, ZenonT(60) DEF SetTimer, TypeInv, TypeOK, CarriesOne
  <1>13. CASE ClearSoftTimerInterrupt
    BY <1>13 DEF ClearSoftTimerInterrupt, TypeInv, TypeOK, CarriesOne
  <1>14. CASE Again
    BY <1>14 DEF Again, TypeInv, TypeOK, CarriesOne
  <1>15. CASE Leave
    <2>1. active' \in Task \cup {Idle}
      BY <1>0, <1>15, TopType DEF Leave
    <2> QED
      BY <1>15, <2>1, TimingAssumption DEF Leave, TypeInv, TypeOK, CarriesOne
  <1> QED
    BY <1>1, <1>2, <1>3, <1>4, <1>5, <1>6, <1>7, <1>8, <1>9, <1>10, <1>11, <1>12,
       <1>13, <1>14, <1>15 DEF Scheduler

LEMMA TypeStep ==
  ASSUME TypeInv, [Next]_vars
  PROVE  TypeInv'
  <1>1. CASE UNCHANGED vars
    BY <1>1 DEF vars, TypeInv, TypeOK, CarriesOne
  <1> QED
    BY <1>1, StepCases, TaskTypeStep, DeviceTypeStep, SchedulerTypeStep,
       ContextSwapTypeStep

(* Every variable keeps its type in every execution, whatever the tasks,   *)
(* their timing and the length of the clock's turn.                        *)
THEOREM TypeCorrect == Spec => []TypeOK
  <1>1. Init => TypeInv
    BY InitType
  <1>2. TypeInv /\ [Next]_vars => TypeInv'
    BY TypeStep
  <1>3. TypeInv => TypeOK
    BY DEF TypeInv
  <1> QED
    BY <1>1, <1>2, <1>3, PTL DEF Spec

-----------------------------------------------------------------------------
(***************************************************************************)
(* The clock.                                                              *)
(***************************************************************************)

(* The idle task starts the timer once: it is created once, and a context  *)
(* of it is on the stack only once it is.                                  *)
IdleOnce ==
  /\ ~booted => now = 0 /\ ~overflowFlag
  /\ booted => taskState[Idle] # "init" /\ tpc[Idle] # "run"
  /\ taskState[Idle] = "init" => cur # Idle /\ ~InQueue(Idle, saved)

(* A periodic task never leaves the arrival queue, so that every turn of   *)
(* the clock moves its arrival time.                                       *)
AlwaysArriving == \A t \in Periodic : InQueue(t, arrivalQ)

ClockInv == TypeInv /\ IdleOnce /\ AlwaysArriving /\ ArrivalTimesAgree

LEMMA InitClock == Init => ClockInv
  <1> SUFFICES ASSUME Init
               PROVE  ClockInv
    OBVIOUS
  <1>1. TypeInv
    BY InitType
  <1>2. IdleOnce
    BY TaskAssumption DEF Init, IdleOnce, InQueue
  <1>3. AlwaysArriving
    BY DEF Init, AlwaysArriving, FirstArrivals, Arrangements
  <1>4. ArrivalTimesAgree
    <2>1. /\ now = 0 /\ ~overflowFlag /\ ShiftTimeLimit \in Int
          /\ \A t \in Periodic : high[t] = 0 /\ low[t] = 0 /\ due[t] = 0
      BY TimingAssumption DEF Init, Task
    <2>2. 0 * ShiftTimeLimit + 0 - 0 - 0 = 0
      BY <2>1
    <2> QED
      BY <2>1, <2>2 DEF ArrivalTimesAgree, TrueTime, Unmoved
  <1> QED
    BY <1>1, <1>2, <1>3, <1>4 DEF ClockInv

(* The idle task and the stack.                                            *)
LEMMA IdleOnceStep ==
  ASSUME TypeInv, IdleOnce, [Next]_vars
  PROVE  IdleOnce'
  <1> USE TaskAssumption DEF IdleOnce, Goto
  <1>0. /\ taskState \in [Task \cup {Idle} -> {"init", "running", "zombie"}]
        /\ tpc \in [Task \cup {Idle} ->
             {"run", "nosave", "unlink", "elect", "pend", "done", "push", "sleep"}]
        /\ saved \in Seq(Place) /\ cur \in Place
    BY DEF TypeInv, TypeOK
  <1>1. CASE IdleTask
    BY <1>0, <1>1 DEF IdleTask, At, Runs
  <1>2. ASSUME NEW t \in Task,
               \/ EndTaskZombie(t) \/ EndTaskNoSave(t)
               \/ EndTaskUnlink(t) \/ EndTaskElect(t)
               \/ ScheduleTask(t) \/ SuspendSynchronousTask(t)
               \/ (\E e \in Event : SignalDequeue(t, e))
               \/ SignalPush(t)
        PROVE  IdleOnce'
    <2>1. t # Idle
      BY <1>2
    <2>2. /\ tpc'[Idle] = tpc[Idle]
          /\ UNCHANGED <<booted, now, overflowFlag, cur, saved>>
          /\ taskState' = taskState \/ taskState' = [taskState EXCEPT ![active] = "zombie"]
      BY <1>0, <1>2, <2>1
      DEF EndTaskZombie, EndTaskNoSave, EndTaskUnlink, EndTaskElect, ScheduleTask,
          SuspendSynchronousTask, SignalDequeue, SignalPush
    <2> QED
      BY <1>0, <2>2
  <1>3. ASSUME NEW e \in Event, SignalByInterrupt(e)
        PROVE  IdleOnce'
    BY <1>3 DEF SignalByInterrupt
  <1>4. CASE Tick
    BY <1>4 DEF Tick
  <1>5. CASE Scheduler
    <2>1. UNCHANGED <<booted, now, cur, saved, tpc>>
      BY <1>5
      DEF Scheduler, SoftTimerInterrupt, TestOverflow, ClearComparatorFlag, ReadTime,
          ReleasePeriodic, Overrun, ArriveSynchronous, ArrivalsDone, RescheduleLater,
          RescheduleNow, RescheduleDone, SetTimer, ClearSoftTimerInterrupt, Again, Leave
    <2>2. overflowFlag' = overflowFlag \/ ~overflowFlag'
      BY <1>5
      DEF Scheduler, SoftTimerInterrupt, TestOverflow, ClearComparatorFlag, ReadTime,
          ReleasePeriodic, Overrun, ArriveSynchronous, ArrivalsDone, RescheduleLater,
          RescheduleNow, RescheduleDone, SetTimer, ClearSoftTimerInterrupt, Again, Leave
    <2>3. taskState'[Idle] = taskState[Idle]
      BY <1>0, <1>5
      DEF Scheduler, SoftTimerInterrupt, TestOverflow, ClearComparatorFlag, ReadTime,
          ReleasePeriodic, Overrun, ArriveSynchronous, ArrivalsDone, RescheduleLater,
          RescheduleNow, RescheduleDone, SetTimer, ClearSoftTimerInterrupt, Again, Leave,
          ReleaseSynchronous, Task
    <2> QED
      BY <2>1, <2>2, <2>3
  <1>6. CASE ContextSwap
    <2>1. CASE SwapEnter
      BY <2>1 DEF SwapEnter
    <2>2. CASE SwapReturn
      BY <2>2 DEF SwapReturn
    <2>3. CASE SwapSave
      <3>1. InQueue(Idle, saved') => Idle = cur \/ InQueue(Idle, saved)
        BY <1>0, <2>3, PushType DEF SwapSave
      <3> QED
        BY <2>3, <3>1 DEF SwapSave
    <2>4. CASE SwapClear
      BY <2>4 DEF SwapClear
    <2>5. CASE SwapCreate
      BY <1>0, <2>5 DEF SwapCreate, HasRun
    <2>6. CASE SwapRestore
      <3>1. InQueue(Idle, saved) <=> Idle = saved[1] \/ InQueue(Idle, Tail(saved))
        BY <1>0, <2>6, TailQueue DEF SwapRestore
      <3> QED
        BY <2>6, <3>1 DEF SwapRestore
    <2> QED
      BY <1>6, <2>1, <2>2, <2>3, <2>4, <2>5, <2>6 DEF ContextSwap
  <1>7. CASE UNCHANGED vars
    BY <1>7 DEF vars
  <1> QED
    BY <1>1, <1>2, <1>3, <1>4, <1>5, <1>6, <1>7, StepCases

(* A step that leaves the arrival times, the arrival queue and the clock.  *)
clockVars == <<high, low, arrivalQ, now, overflowFlag, due>>

LEMMA ClockUnchanged ==
  ASSUME AlwaysArriving, ArrivalTimesAgree, UNCHANGED clockVars
  PROVE  AlwaysArriving' /\ ArrivalTimesAgree'
  BY DEF clockVars, AlwaysArriving, ArrivalTimesAgree, TrueTime, Unmoved

LEMMA ClockTypes ==
  ASSUME TypeInv
  PROVE  /\ high \in [Periodic -> Nat] /\ low \in [Task -> Int]
         /\ arrivalQ \in Seq(Task) /\ due \in [Periodic -> Int]
         /\ Periodic \subseteq Task /\ now \in Int /\ ShiftTimeLimit \in Nat
         /\ overflowFlag \in BOOLEAN
  BY TimingAssumption DEF TypeInv, TypeOK, Task

(* What ArrivalTimesAgree says of one task, the products spelled out.      *)
LEMMA AgreeUnfolded ==
  ASSUME ClockInv, NEW t \in Periodic
  PROVE  (high[t] * ShiftTimeLimit + low[t]) - now - Unmoved = due[t]
  BY Zenon DEF ClockInv, ArrivalTimesAgree, TrueTime

(* The task released comes back into the arrival queue, one period later   *)
(* by its turns and its remainder as by its true time.                     *)
LEMMA NextArrivalClock ==
  ASSUME ClockInv, NEW t \in Periodic, Arrives(t), NextPeriodicArrival(t),
         UNCHANGED <<now, overflowFlag>>
  PROVE  AlwaysArriving' /\ ArrivalTimesAgree'
  <1>1. /\ high \in [Periodic -> Nat] /\ low \in [Task -> Int]
        /\ arrivalQ \in Seq(Task) /\ due \in [Periodic -> Int]
        /\ t \in Task /\ Periodic \subseteq Task /\ now \in Int
    BY ClockTypes DEF ClockInv
  <1>2. /\ ShiftTimeLimit \in Nat /\ PeriodHigh[t] \in Nat /\ PeriodLow[t] \in Nat
    BY TimingAssumption
  <1>3. arrivalQ # <<>> /\ t = arrivalQ[1] /\ high[t] = 0
    BY DEF Arrives, HasArrived
  <1>4. AlwaysArriving'
    <2>1. /\ Tail(arrivalQ) \in Seq(Task)
          /\ \A u : InQueue(u, arrivalQ) <=> u = t \/ InQueue(u, Tail(arrivalQ))
      BY <1>1, <1>3, TailQueue
    <2>2. \A u : InQueue(u, arrivalQ') <=> u = t \/ InQueue(u, Tail(arrivalQ))
      <3>1. arrivalQ' = ArrivalQueueInsert(t, Tail(arrivalQ), high', low')
        BY DEF NextPeriodicArrival
      <3> QED
        BY <1>1, <2>1, <3>1, ArrivalInsertType
    <2> QED
      BY <2>1, <2>2 DEF ClockInv, AlwaysArriving
  <1>5. ASSUME NEW u \in Periodic
        PROVE  TrueTime(high[u] * ShiftTimeLimit + low[u])' = due'[u]
    <2>0. /\ (high[u] * ShiftTimeLimit + low[u]) - now - Unmoved = due[u]
          /\ Unmoved' = Unmoved /\ now' = now /\ Unmoved \in Int
      BY <1>2, AgreeUnfolded DEF Unmoved
    <2>1. CASE u = t
      <3> DEFINE sum == low[t] + PeriodLow[t]
                 carry == sum >= ShiftTimeLimit
                 turns == IF carry THEN 1 ELSE 0
      <3>1. /\ high'[t] = PeriodHigh[t] + turns
            /\ low'[t] = IF carry THEN sum - ShiftTimeLimit ELSE sum
            /\ due'[t] = due[t] + Period(t)
        BY <1>1 DEF NextPeriodicArrival
      <3>2. turns * ShiftTimeLimit + low'[t] = low[t] + PeriodLow[t]
        BY <1>1, <1>2, <3>1
      <3>3. turns \in Nat /\ low'[t] \in Int
        BY <1>1, <1>2, <3>1
      <3> HIDE DEF turns
      <3>4. high'[t] * ShiftTimeLimit = PeriodHigh[t] * ShiftTimeLimit + turns * ShiftTimeLimit
        BY <1>2, <3>1, <3>3
      <3>5. PeriodHigh[t] * ShiftTimeLimit \in Int /\ turns * ShiftTimeLimit \in Int
        BY <1>2, <3>3
      <3> HIDE DEF sum, carry
      <3> QED
        <4>1. (high'[t] * ShiftTimeLimit + low'[t]) - now - Unmoved = due'[t]
          <5> DEFINE before == high[t] * ShiftTimeLimit
                     after == high'[t] * ShiftTimeLimit
                     full == PeriodHigh[t] * ShiftTimeLimit
                     one == turns * ShiftTimeLimit
                     ticks == low[t]
                     ticksAfter == low'[t]
                     more == PeriodLow[t]
                     n == now
                     m == Unmoved
                     d == due[t]
          <5>1. (before + ticks) - n - m = d
            BY <2>0, <2>1
          <5>2. after = full + one /\ one + ticksAfter = ticks + more
            BY <3>2, <3>4
          <5>3. before = 0
            BY <1>2, <1>3
          <5>4. /\ full \in Int /\ one \in Int /\ ticks \in Int /\ ticksAfter \in Int
                /\ more \in Int /\ n \in Int /\ m \in Int /\ d \in Int
            BY <1>1, <1>2, <2>0, <3>3, <3>5, SMTT(90)
          <5>5. due'[t] = d + (full + more)
            BY <3>1 DEF Period
          <5> HIDE DEF before, after, full, one, ticks, ticksAfter, more, n, m, d
          <5>6. (after + ticksAfter) - n - m = d + (full + more)
            BY <5>1, <5>2, <5>3, <5>4
          <5> QED
            BY <5>5, <5>6 DEF after, ticksAfter, n, m
        <4> QED
          BY <2>0, <2>1, <4>1, Zenon DEF TrueTime
    <2>2. CASE u # t
      <3>1. high'[u] = high[u] /\ low'[u] = low[u] /\ due'[u] = due[u]
        BY <1>1, <2>2 DEF NextPeriodicArrival
      <3> QED
        BY <2>0, <3>1, Zenon DEF TrueTime
    <2> QED
      BY <2>1, <2>2
  <1> QED
    BY <1>4, <1>5 DEF ArrivalTimesAgree

(* A turn of the clock moves each arrival time by one turn, by its turns   *)
(* if it has any.                                                          *)
LEMMA ShiftClock ==
  ASSUME ClockInv, TestOverflow
  PROVE  AlwaysArriving' /\ ArrivalTimesAgree'
  <1>1. /\ high \in [Periodic -> Nat] /\ low \in [Task -> Int]
        /\ due \in [Periodic -> Int] /\ now \in Int /\ Periodic \subseteq Task
        /\ ShiftTimeLimit \in Nat
    BY ClockTypes DEF ClockInv
  <1>2. CASE ~overflowFlag
    <2>1. ~overflowFlag' /\ UNCHANGED <<high, low, arrivalQ, now, due>>
      BY <1>2 DEF TestOverflow
    <2>2. Unmoved' = Unmoved
      BY <1>2, <2>1 DEF Unmoved
    <2> QED
      BY <2>1, <2>2 DEF ClockInv, AlwaysArriving, ArrivalTimesAgree, TrueTime
  <1>3. CASE overflowFlag
    <2>1. ShiftTimes /\ ~overflowFlag' /\ UNCHANGED <<arrivalQ, now, due>>
      BY <1>3 DEF TestOverflow
    <2>2. AlwaysArriving'
      BY <2>1 DEF ClockInv, AlwaysArriving
    <2>3. ASSUME NEW t \in Periodic
          PROVE  TrueTime(high[t] * ShiftTimeLimit + low[t])' = due'[t]
      <3>0. /\ InQueue(t, arrivalQ)
            /\ (high[t] * ShiftTimeLimit + low[t]) - now - ShiftTimeLimit = due[t]
        BY <1>3, AgreeUnfolded DEF ClockInv, AlwaysArriving, Unmoved
      <3>1. t \notin Synchronous
        BY TaskAssumption
      <3>2. CASE high[t] > 0
        <4>1. high'[t] = high[t] - 1 /\ low'[t] = low[t]
          BY <1>1, <2>1, <3>0, <3>1, <3>2 DEF ShiftTimes
        <4>2. /\ high'[t] * ShiftTimeLimit = high[t] * ShiftTimeLimit - ShiftTimeLimit
              /\ high[t] * ShiftTimeLimit \in Int
          BY <1>1, <4>1
        <4> QED
          BY <1>1, <2>1, <3>0, <4>1, <4>2 DEF TrueTime, Unmoved
      <3>3. CASE high[t] = 0
        <4>1. high'[t] = high[t] /\ low'[t] = low[t] - ShiftTimeLimit
          BY <1>1, <2>1, <3>0, <3>1, <3>3 DEF ShiftTimes
        <4>2. high[t] * ShiftTimeLimit = 0 /\ high'[t] * ShiftTimeLimit = 0
          BY <1>1, <3>3, <4>1
        <4> QED
          BY <1>1, <2>1, <3>0, <4>1, <4>2 DEF TrueTime, Unmoved
      <3> QED
        BY <1>1, <3>2, <3>3
    <2> QED
      BY <2>2, <2>3 DEF ArrivalTimesAgree
  <1> QED
    BY <1>2, <1>3

(* The clock and the turn that the times are not yet moved to, together.   *)
LEMMA TickTime ==
  ASSUME TypeInv, Tick
  PROVE  now' + Unmoved' = now + Unmoved + 1
  <1>1. now \in Int /\ ShiftTimeLimit \in Nat /\ overflowFlag \in BOOLEAN
    BY ClockTypes
  <1>2. CASE Wraps
    <2>1. ~overflowFlag
      BY <1>2 DEF Tick, InTime
    <2>2. overflowFlag'
      BY <1>2, Zenon DEF Tick
    <2>3. now = ShiftTimeLimit - 1 /\ now' = 0
      BY <1>2 DEF Tick, Wraps
    <2> QED
      BY <1>1, <2>1, <2>2, <2>3 DEF Unmoved
  <1>3. CASE ~Wraps
    <2>1. overflowFlag' = overflowFlag
      BY <1>1, <1>3, Zenon DEF Tick
    <2>2. now' = now + 1
      BY <1>3 DEF Tick
    <2> QED
      BY <1>1, <2>1, <2>2 DEF Unmoved
  <1> QED
    BY <1>2, <1>3

(* A tick takes one from every true time, and the turn it may begin is     *)
(* counted by the overflow flag until the times are moved.                 *)
LEMMA TickClock ==
  ASSUME ClockInv, Tick
  PROVE  AlwaysArriving' /\ ArrivalTimesAgree'
  <1>1. /\ high \in [Periodic -> Nat] /\ low \in [Task -> Int]
        /\ due \in [Periodic -> Int] /\ now \in Int /\ Periodic \subseteq Task
        /\ ShiftTimeLimit \in Nat /\ overflowFlag \in BOOLEAN
    BY ClockTypes DEF ClockInv
  <1>2. now' + Unmoved' = now + Unmoved + 1
    BY TickTime DEF ClockInv
  <1>3. Unmoved \in Int /\ Unmoved' \in Int /\ now' \in Int
    BY <1>1 DEF Unmoved, Tick
  <1>4. AlwaysArriving'
    BY DEF Tick, ClockInv, AlwaysArriving
  <1>5. ASSUME NEW t \in Periodic
        PROVE  TrueTime(high[t] * ShiftTimeLimit + low[t])' = due'[t]
    <2>1. /\ (high[t] * ShiftTimeLimit + low[t]) - now - Unmoved = due[t]
          /\ high' = high /\ low' = low /\ due'[t] = due[t] - 1
      BY AgreeUnfolded DEF Tick
    <2>2. high[t] * ShiftTimeLimit \in Int /\ low[t] \in Int /\ due[t] \in Int
      BY <1>1
    <2> QED
      <3>1. (high[t] * ShiftTimeLimit + low[t]) - now' - Unmoved' = due'[t]
        <4> DEFINE x == high[t] * ShiftTimeLimit + low[t]
                   n == now
                   n1 == now'
                   u == Unmoved
                   u1 == Unmoved'
                   d == due[t]
        <4>1. x - n - u = d /\ n1 + u1 = n + u + 1
          BY <1>2, <2>1
        <4>2. /\ x \in Int /\ n \in Int /\ n1 \in Int /\ u \in Int /\ u1 \in Int
              /\ d \in Int
          BY <1>1, <1>3, <2>2
        <4>3. due'[t] = d - 1
          BY <2>1
        <4> HIDE DEF x, n, n1, u, u1, d
        <4>4. x - n1 - u1 = d - 1
          BY <4>1, <4>2
        <4> QED
          BY <4>3, <4>4 DEF x, n1, u1
      <3> QED
        BY <2>1, <3>1, Zenon DEF TrueTime
  <1> QED
    BY <1>4, <1>5 DEF ArrivalTimesAgree

(* The other steps of the scheduler leave the clock, and the arrival times *)
(* of periodic tasks.                                                      *)
LEMMA SchedulerClock ==
  ASSUME ClockInv, Scheduler
  PROVE  AlwaysArriving' /\ ArrivalTimesAgree'
  <1>0. /\ AlwaysArriving /\ ArrivalTimesAgree /\ TypeInv
        /\ low \in [Task -> Int] /\ arrivalQ \in Seq(Task)
        /\ Periodic \cap Synchronous = {}
        /\ Synchronous \subseteq Task /\ Periodic \subseteq Task
    BY ClockTypes, TaskAssumption DEF ClockInv, Task
  <1>1. ASSUME UNCHANGED <<high, now, overflowFlag, due>>,
               \A t \in Periodic : low'[t] = low[t],
               AlwaysArriving'
        PROVE  AlwaysArriving' /\ ArrivalTimesAgree'
    <2>1. Unmoved' = Unmoved
      BY <1>1 DEF Unmoved
    <2> QED
      BY <1>0, <1>1, <2>1 DEF ArrivalTimesAgree, TrueTime
  <1>2. ASSUME NEW s \in Synchronous, NEW base, ReleaseSynchronous(s, base)
        PROVE  \A t \in Periodic : low'[t] = low[t]
    <2>1. low' = low \/ low' = [low EXCEPT ![s] = base + WorkLoad[s]]
      BY <1>2 DEF ReleaseSynchronous
    <2>2. \A t \in Periodic : t # s
      BY <1>0
    <2> QED
      BY <1>0, <2>1, <2>2
  <1>3. CASE TestOverflow
    BY <1>3, ShiftClock
  <1>4. ASSUME NEW t \in Task, ReleasePeriodic(t) \/ Overrun(t)
        PROVE  AlwaysArriving' /\ ArrivalTimesAgree'
    <2>1. /\ t \in Periodic /\ Arrives(t) /\ NextPeriodicArrival(t)
          /\ UNCHANGED <<now, overflowFlag>>
      BY <1>4 DEF ReleasePeriodic, Overrun
    <2> QED
      BY <2>1, NextArrivalClock
  <1>5. ASSUME NEW s \in Task, ArriveSynchronous(s)
        PROVE  AlwaysArriving' /\ ArrivalTimesAgree'
    <2>1. /\ s \in Synchronous /\ arrivalQ # <<>> /\ s = arrivalQ[1]
          /\ arrivalQ' = Tail(arrivalQ) /\ ReleaseSynchronous(s, low[s])
          /\ UNCHANGED <<high, now, overflowFlag, due>>
      BY <1>5 DEF ArriveSynchronous, Arrives
    <2>2. \A u : InQueue(u, arrivalQ) <=> u = s \/ InQueue(u, Tail(arrivalQ))
      BY <1>0, <2>1, TailQueue
    <2>3. AlwaysArriving'
      BY <1>0, <2>1, <2>2 DEF AlwaysArriving
    <2> QED
      BY <1>1, <1>2, <2>1, <2>3
  <1>6. ASSUME NEW s \in Synchronous, RescheduleLater(s)
        PROVE  AlwaysArriving' /\ ArrivalTimesAgree'
    <2>1. /\ arrivalQ' = ArrivalQueueInsert(s, arrivalQ, high, low')
          /\ UNCHANGED <<high, now, overflowFlag, due>>
          /\ low' = low \/ low' = [low EXCEPT ![s] = nextDeadline[s]]
      BY <1>6 DEF RescheduleLater
    <2>2. AlwaysArriving'
      BY <1>0, <2>1, ArrivalInsertType DEF AlwaysArriving
    <2>3. \A t \in Periodic : t # s
      BY <1>0
    <2>4. \A t \in Periodic : low'[t] = low[t]
      BY <1>0, <2>1, <2>3
    <2> QED
      BY <1>1, <2>1, <2>2, <2>4
  <1>7. ASSUME NEW s \in Synchronous, RescheduleNow(s)
        PROVE  AlwaysArriving' /\ ArrivalTimesAgree'
    <2>1. /\ ReleaseSynchronous(s, currentTime)
          /\ UNCHANGED <<high, now, overflowFlag, due, arrivalQ>>
      BY <1>7 DEF RescheduleNow
    <2>2. AlwaysArriving'
      BY <1>0, <2>1 DEF AlwaysArriving
    <2> QED
      BY <1>1, <1>2, <2>1, <2>2
  <1>8. CASE \/ SoftTimerInterrupt \/ ClearComparatorFlag \/ ReadTime \/ ArrivalsDone
             \/ RescheduleDone \/ SetTimer \/ ClearSoftTimerInterrupt \/ Again \/ Leave
    <2>1. UNCHANGED clockVars
      BY <1>8
      DEF SoftTimerInterrupt, ClearComparatorFlag, ReadTime, ArrivalsDone, RescheduleDone,
          SetTimer, ClearSoftTimerInterrupt, Again, Leave, clockVars
    <2> QED
      BY <1>0, <2>1, ClockUnchanged
  <1> QED
    BY <1>3, <1>4, <1>5, <1>6, <1>7, <1>8 DEF Scheduler

LEMMA ClockStep ==
  ASSUME ClockInv, [Next]_vars
  PROVE  ClockInv'
  <1>0. TypeInv /\ IdleOnce /\ AlwaysArriving /\ ArrivalTimesAgree
    BY DEF ClockInv
  <1>1. TypeInv' /\ IdleOnce'
    BY <1>0, TypeStep, IdleOnceStep
  <1>2. CASE IdleTask
    <2>1. now = 0 /\ now' = 0
      BY <1>0, <1>2 DEF IdleTask, IdleOnce, At, Runs
    <2>2. UNCHANGED clockVars
      BY <1>2, <2>1 DEF IdleTask, clockVars
    <2> QED
      BY <1>0, <1>1, <2>2, ClockUnchanged DEF ClockInv
  <1>3. ASSUME \/ \E t \in Task : \/ EndTaskZombie(t) \/ EndTaskNoSave(t)
                                  \/ EndTaskUnlink(t) \/ EndTaskElect(t)
                                  \/ ScheduleTask(t) \/ SuspendSynchronousTask(t)
                                  \/ (\E e \in Event : SignalDequeue(t, e))
                                  \/ SignalPush(t)
               \/ \E e \in Event : SignalByInterrupt(e)
        PROVE  ClockInv'
    <2>1. UNCHANGED clockVars
      BY <1>3
      DEF EndTaskZombie, EndTaskNoSave, EndTaskUnlink, EndTaskElect, ScheduleTask,
          SuspendSynchronousTask, SignalDequeue, SignalPush, SignalByInterrupt, clockVars
    <2> QED
      BY <1>0, <1>1, <2>1, ClockUnchanged DEF ClockInv
  <1>4. CASE ContextSwap
    <2>1. UNCHANGED clockVars
      BY <1>4
      DEF ContextSwap, SwapEnter, SwapReturn, SwapSave, SwapClear, SwapCreate,
          SwapRestore, clockVars
    <2> QED
      BY <1>0, <1>1, <2>1, ClockUnchanged DEF ClockInv
  <1>5. CASE UNCHANGED vars
    <2>1. UNCHANGED clockVars
      BY <1>5 DEF vars, clockVars
    <2> QED
      BY <1>0, <1>1, <2>1, ClockUnchanged DEF ClockInv
  <1>6. CASE Tick
    BY <1>1, <1>6, TickClock DEF ClockInv
  <1>7. CASE Scheduler
    BY <1>1, <1>7, SchedulerClock DEF ClockInv
  <1> QED
    BY <1>2, <1>3, <1>4, <1>5, <1>6, <1>7, StepCases

(* The kernel's account of time is right for ever: across any number of    *)
(* turns of the clock, however long the period and however late a release, *)
(* the turns and the remainder that the code keeps of the next arrival of  *)
(* a periodic task are those of its true arrival time.                     *)
THEOREM ArrivalTimes == Spec => []ArrivalTimesAgree
  <1>1. Init => ClockInv
    BY InitClock
  <1>2. ClockInv /\ [Next]_vars => ClockInv'
    BY ClockStep
  <1>3. ClockInv => ArrivalTimesAgree
    BY DEF ClockInv
  <1> QED
    BY <1>1, <1>2, <1>3, PTL DEF Spec

(* The timer is started once: the clock does not go back to zero under way,*)
(* which ArrivalTimes rests on, and no periodic task leaves the arrival    *)
(* queue.                                                                  *)
THEOREM NeverForgotten == Spec => [](AlwaysArriving /\ IdleOnce)
  <1>1. Init => ClockInv
    BY InitClock
  <1>2. ClockInv /\ [Next]_vars => ClockInv'
    BY ClockStep
  <1>3. ClockInv => AlwaysArriving /\ IdleOnce
    BY DEF ClockInv
  <1> QED
    BY <1>1, <1>2, <1>3, PTL DEF Spec

(***************************************************************************)
(* The queues.                                                             *)
(***************************************************************************)

NoDup(q) == \A i, j \in DOMAIN q : q[i] = q[j] => i = j

(* Taking the first task out leaves the others in their order.             *)
LEMMA TailOrder ==
  ASSUME NEW S, NEW q \in Seq(S), q # <<>>, NoDup(q)
  PROVE  /\ Tail(q) \in Seq(S) /\ NoDup(Tail(q))
         /\ \A u : InQueue(u, Tail(q)) <=> InQueue(u, q) /\ u # q[1]
         /\ \A t, u : Before(t, u, Tail(q)) <=> Before(t, u, q) /\ t # q[1]
  <1>1. /\ Tail(q) \in Seq(S) /\ Len(Tail(q)) = Len(q) - 1
        /\ \A i \in 1 .. Len(Tail(q)) : Tail(q)[i] = q[i + 1]
        /\ Len(q) \in Nat \ {0}
    BY HeadTailProperties, EmptySeq
  <1>2. DOMAIN q = 1 .. Len(q) /\ DOMAIN Tail(q) = 1 .. Len(Tail(q))
    BY <1>1, LenProperties
  <1>3. NoDup(Tail(q))
    BY <1>1, <1>2 DEF NoDup
  <1>4. ASSUME NEW u
        PROVE  InQueue(u, Tail(q)) <=> InQueue(u, q) /\ u # q[1]
    <2>1. InQueue(u, q) <=> u = q[1] \/ InQueue(u, Tail(q))
      BY TailQueue
    <2>2. ~InQueue(q[1], Tail(q))
      BY <1>1, <1>2 DEF InQueue, NoDup
    <2> QED
      BY <2>1, <2>2
  <1>5. ASSUME NEW t, NEW u
        PROVE  Before(t, u, Tail(q)) <=> Before(t, u, q) /\ t # q[1]
    <2>1. ASSUME Before(t, u, Tail(q))
          PROVE  Before(t, u, q) /\ t # q[1]
      <3>1. PICK i \in 1 .. Len(Tail(q)) :
              /\ Tail(q)[i] = t
              /\ u = Idle \/ \E j \in 1 .. Len(Tail(q)) : i < j /\ Tail(q)[j] = u
        BY <2>1, <1>2 DEF Before
      <3>2. i + 1 \in DOMAIN q /\ q[i + 1] = t /\ t # q[1]
        BY <3>1, <1>1, <1>2 DEF NoDup
      <3>3. u = Idle \/ \E j \in DOMAIN q : i + 1 < j /\ q[j] = u
        <4>1. CASE u = Idle
          BY <4>1
        <4>2. ASSUME NEW j \in 1 .. Len(Tail(q)), i < j, Tail(q)[j] = u
              PROVE  \E k \in DOMAIN q : i + 1 < k /\ q[k] = u
          <5>1. j + 1 \in DOMAIN q /\ i + 1 < j + 1 /\ q[j + 1] = u
            BY <4>2, <3>1, <1>1, <1>2
          <5> QED
            BY <5>1
        <4> QED
          BY <3>1, <4>1, <4>2
      <3> QED
        BY <3>2, <3>3 DEF Before
    <2>2. ASSUME Before(t, u, q), t # q[1]
          PROVE  Before(t, u, Tail(q))
      <3>1. PICK i \in 1 .. Len(q) :
              q[i] = t /\ (u = Idle \/ \E j \in 1 .. Len(q) : i < j /\ q[j] = u)
        BY <2>2, <1>2 DEF Before
      <3>2. i - 1 \in DOMAIN Tail(q) /\ Tail(q)[i - 1] = t
        BY <3>1, <2>2, <1>1, <1>2
      <3>3. u = Idle \/ \E j \in DOMAIN Tail(q) : i - 1 < j /\ Tail(q)[j] = u
        <4>1. CASE u = Idle
          BY <4>1
        <4>2. ASSUME NEW j \in 1 .. Len(q), i < j, q[j] = u
              PROVE  \E k \in DOMAIN Tail(q) : i - 1 < k /\ Tail(q)[k] = u
          <5>1. j - 1 \in DOMAIN Tail(q) /\ i - 1 < j - 1 /\ Tail(q)[j - 1] = u
            BY <4>2, <3>1, <1>1, <1>2
          <5> QED
            BY <5>1
        <4> QED
          BY <3>1, <4>1, <4>2
      <3> QED
        BY <3>2, <3>3 DEF Before
    <2> QED
      BY <2>1, <2>2
  <1> QED
    BY <1>1, <1>3, <1>4, <1>5

(* A task inserted into a queue it is not in leaves the others in their    *)
(* order.                                                                  *)
LEMMA InsertOrder ==
  ASSUME NEW S, NEW t \in S, NEW q \in Seq(S), NEW precedes,
         NoDup(q), ~InQueue(t, q)
  PROVE  LET r == InsertQueue(t, q, precedes)
         IN  /\ r \in Seq(S) /\ NoDup(r)
             /\ \A u : InQueue(u, r) <=> u = t \/ InQueue(u, q)
             /\ \A u, v : u # t /\ v # t => (Before(u, v, r) <=> Before(u, v, q))
  <1> DEFINE r == InsertQueue(t, q, precedes)
             to(n, i) == IF i < n THEN i ELSE i + 1
  <1>0. Len(q) \in Nat /\ DOMAIN q = 1 .. Len(q)
    BY LenProperties
  <1>a. PICK n \in 1 .. Len(q) + 1 : r \in Seq(S) /\ PutAt(n, r, t, q, precedes)
    BY InsertQueuePlaces
  <1>1. /\ r \in Seq(S) /\ Len(r) = Len(q) + 1
        /\ \A i \in 1 .. n - 1 : r[i] = q[i]
        /\ r[n] = t
        /\ \A i \in n + 1 .. Len(q) + 1 : r[i] = q[i - 1]
    BY <1>a DEF PutAt
  <1>2. \A u : InQueue(u, r) <=> u = t \/ InQueue(u, q)
    BY InsertQueueProperties
  <1> HIDE DEF r
  <1>3. DOMAIN r = 1 .. Len(q) + 1
    BY <1>1, <1>0, LenProperties
  <1>4. \A i \in 1 .. Len(q) : to(n, i) \in DOMAIN r /\ r[to(n, i)] = q[i]
    BY <1>0, <1>1, <1>3
  <1>5. \A k \in DOMAIN r : k = n \/ \E i \in 1 .. Len(q) : k = to(n, i)
    <2> SUFFICES ASSUME NEW k \in 1 .. Len(q) + 1, k # n
                 PROVE  \E i \in 1 .. Len(q) : k = to(n, i)
      BY <1>3
    <2>1. CASE k < n
      BY <2>1, <1>0, <1>1
    <2>2. CASE k > n
      <3>1. k - 1 \in 1 .. Len(q) /\ k = to(n, k - 1)
        BY <2>2, <1>0, <1>1
      <3> QED
        BY <3>1
    <2> QED
      BY <2>1, <2>2, <1>0, <1>1
  <1>6. \A i, j \in 1 .. Len(q) : (to(n, i) < to(n, j)) <=> i < j
    BY <1>0, <1>1
  <1>7. \A i \in 1 .. Len(q) : q[i] # t
    BY <1>0 DEF InQueue
  <1> HIDE DEF to
  <1>8. NoDup(r)
    <2> SUFFICES ASSUME NEW k \in DOMAIN r, NEW l \in DOMAIN r, r[k] = r[l]
                 PROVE  k = l
      BY DEF NoDup
    <2>0. \A m \in DOMAIN r : r[m] = t => m = n
      <3> SUFFICES ASSUME NEW m \in DOMAIN r, m # n
                   PROVE  r[m] # t
        OBVIOUS
      <3>1. PICK i \in 1 .. Len(q) : m = to(n, i)
        BY <1>5
      <3> QED
        BY <3>1, <1>4, <1>7
    <2>1. CASE k = n \/ l = n
      BY <2>0, <2>1, <1>1
    <2>2. CASE k # n /\ l # n
      <3>1. PICK i \in 1 .. Len(q) : k = to(n, i)
        BY <2>2, <1>5
      <3>2. PICK j \in 1 .. Len(q) : l = to(n, j)
        BY <2>2, <1>5
      <3> QED
        BY <3>1, <3>2, <1>0, <1>4 DEF NoDup
    <2> QED
      BY <2>1, <2>2
  <1>9. ASSUME NEW u, NEW v, u # t, v # t
        PROVE  Before(u, v, r) <=> Before(u, v, q)
    <2>1. ASSUME Before(u, v, q)
          PROVE  Before(u, v, r)
      <3>1. PICK i \in 1 .. Len(q) :
              q[i] = u /\ (v = Idle \/ \E j \in 1 .. Len(q) : i < j /\ q[j] = v)
        BY <2>1, <1>0 DEF Before
      <3> QED
        BY <3>1, <1>4, <1>6 DEF Before
    <2>2. ASSUME Before(u, v, r)
          PROVE  Before(u, v, q)
      <3>1. PICK k \in DOMAIN r :
              r[k] = u /\ (v = Idle \/ \E l \in DOMAIN r : k < l /\ r[l] = v)
        BY <2>2 DEF Before
      <3>2. PICK i \in 1 .. Len(q) : k = to(n, i)
        BY <3>1, <1>1, <1>5, <1>9
      <3>3. \A l \in DOMAIN r : r[l] = v => \E j \in 1 .. Len(q) : l = to(n, j)
        BY <1>1, <1>5, <1>9
      <3> QED
        BY <3>1, <3>2, <3>3, <1>0, <1>4, <1>6 DEF Before
    <2> QED
      BY <2>1, <2>2
  <1> QED
    BY <1>1, <1>2, <1>8, <1>9 DEF r

(* A task pushed before, or queued after, those of a queue it is not in.   *)
LEMMA PushOrder ==
  ASSUME NEW S, NEW q \in Seq(S), NEW x \in S, NoDup(q), ~InQueue(x, q)
  PROVE  /\ <<x>> \o q \in Seq(S) /\ NoDup(<<x>> \o q)
         /\ \A u : InQueue(u, <<x>> \o q) <=> u = x \/ InQueue(u, q)
  <1> DEFINE r == <<x>> \o q
  <1>1. <<x>> \in Seq(S) /\ Len(<<x>>) = 1 /\ <<x>>[1] = x
    OBVIOUS
  <1>2. Len(q) \in Nat /\ DOMAIN q = 1 .. Len(q)
    BY LenProperties
  <1>3. /\ r \in Seq(S) /\ Len(r) = 1 + Len(q)
        /\ \A i \in 1 .. 1 + Len(q) : r[i] = IF i <= 1 THEN <<x>>[i] ELSE q[i - 1]
    BY <1>1, ConcatProperties
  <1> HIDE DEF r
  <1>4. /\ DOMAIN r = 1 .. 1 + Len(q)
        /\ r[1] = x /\ \A i \in 1 .. Len(q) : r[i + 1] = q[i]
        /\ \A i \in 2 .. 1 + Len(q) : i - 1 \in DOMAIN q /\ r[i] = q[i - 1]
    BY <1>1, <1>2, <1>3, LenProperties
  <1>5. NoDup(r)
    <2> SUFFICES ASSUME NEW i \in DOMAIN r, NEW j \in DOMAIN r, r[i] = r[j]
                 PROVE  i = j
      BY DEF NoDup
    <2>0. \A k \in DOMAIN r : r[k] = x => k = 1
      <3> SUFFICES ASSUME NEW k \in 2 .. 1 + Len(q)
                   PROVE  r[k] # x
        BY <1>2, <1>4
      <3> QED
        BY <1>4 DEF InQueue
    <2>1. CASE i = 1 \/ j = 1
      BY <2>0, <2>1, <1>4
    <2>2. CASE i # 1 /\ j # 1
      <3>1. i \in 2 .. 1 + Len(q) /\ j \in 2 .. 1 + Len(q)
        BY <2>2, <1>2, <1>4
      <3>2. i - 1 \in DOMAIN q /\ j - 1 \in DOMAIN q /\ q[i - 1] = q[j - 1]
        BY <3>1, <1>4
      <3>3. i - 1 = j - 1
        BY <3>2 DEF NoDup
      <3> QED
        BY <3>1, <3>3, <1>2
    <2> QED
      BY <2>1, <2>2
  <1>6. \A u : InQueue(u, r) => u = x \/ InQueue(u, q)
    BY PushType DEF r
  <1>7. InQueue(x, r)
    BY <1>2, <1>4 DEF InQueue
  <1>8. ASSUME NEW u, InQueue(u, q)
        PROVE  InQueue(u, r)
    <2>1. PICK i \in 1 .. Len(q) : q[i] = u
      BY <1>2, <1>8 DEF InQueue
    <2>2. i + 1 \in DOMAIN r /\ r[i + 1] = u
      BY <2>1, <1>2, <1>4
    <2> QED
      BY <2>2 DEF InQueue
  <1> QED
    BY <1>3, <1>5, <1>6, <1>7, <1>8 DEF r

LEMMA AppendOrder ==
  ASSUME NEW S, NEW q \in Seq(S), NEW x \in S, NoDup(q), ~InQueue(x, q)
  PROVE  /\ Append(q, x) \in Seq(S) /\ NoDup(Append(q, x))
         /\ \A u : InQueue(u, Append(q, x)) <=> u = x \/ InQueue(u, q)
  <1> DEFINE r == Append(q, x)
  <1>1. Len(q) \in Nat /\ DOMAIN q = 1 .. Len(q)
    BY LenProperties
  <1>2. /\ r \in Seq(S) /\ Len(r) = Len(q) + 1
        /\ \A i \in 1 .. Len(q) : r[i] = q[i]
        /\ r[Len(q) + 1] = x
    BY AppendProperties
  <1> HIDE DEF r
  <1>3. DOMAIN r = 1 .. Len(q) + 1
    BY <1>1, <1>2, LenProperties
  <1>4. NoDup(r)
    BY <1>1, <1>2, <1>3 DEF NoDup, InQueue
  <1>5. \A u : InQueue(u, r) <=> u = x \/ InQueue(u, q)
    BY <1>1, <1>2, <1>3 DEF InQueue
  <1> QED
    BY <1>2, <1>4, <1>5 DEF r

(* What the first task's link leads to is the rest of the queue.           *)
LEMMA AfterTop ==
  ASSUME NEW S, NEW q \in Seq(S), q # <<>>, NoDup(q)
  PROVE  After(q[1], q) = Tail(q)
  <1>1. Len(q) \in Nat \ {0} /\ DOMAIN q = 1 .. Len(q)
    BY LenProperties, EmptySeq
  <1>2. /\ InQueue(q[1], q)
        /\ \A i \in DOMAIN q : q[i] = q[1] <=> i = 1
    BY <1>1 DEF InQueue, NoDup
  <1>3. (CHOOSE i \in DOMAIN q : q[i] = q[1]) = 1
    BY <1>1, <1>2
  <1>4. After(q[1], q) = SubSeq(q, 2, Len(q))
    BY <1>2, <1>3 DEF After
  <1>5. Tail(q) = SubSeq(q, 2, Len(q))
    OBVIOUS
  <1> QED
    BY <1>4, <1>5

(* Nothing comes before the head of the queue.                             *)
LEMMA TopFirst ==
  ASSUME NEW q \in Seq(Task), NoDup(q)
  PROVE  /\ \A t : ~Before(t, Top(q), q)
         /\ q # <<>> => InQueue(Top(q), q) /\ Top(q) = q[1]
         /\ Top(q) # Idle => q # <<>>
  <1>1. Len(q) \in Nat /\ DOMAIN q = 1 .. Len(q) /\ (q = <<>> <=> Len(q) = 0)
    BY LenProperties, EmptySeq
  <1>2. \A i \in DOMAIN q : q[i] # Idle
    BY <1>1, TaskAssumption DEF Task
  <1> QED
    BY <1>1, <1>2 DEF Before, Top, NoDup, InQueue

(* Two tasks of the queue, or the idle task and one of them, have an order.*)
LEMMA OneBefore ==
  ASSUME NEW q \in Seq(Task), NEW t, NEW u, t # u,
         t = Idle \/ InQueue(t, q), u = Idle \/ InQueue(u, q)
  PROVE  Before(t, u, q) \/ Before(u, t, q)
  <1>1. Len(q) \in Nat /\ DOMAIN q = 1 .. Len(q)
    BY LenProperties
  <1>2. CASE t = Idle \/ u = Idle
    BY <1>2 DEF Before, InQueue
  <1>3. CASE InQueue(t, q) /\ InQueue(u, q)
    <2>1. PICK i \in DOMAIN q : q[i] = t
      BY <1>3 DEF InQueue
    <2>2. PICK j \in DOMAIN q : q[j] = u
      BY <1>3 DEF InQueue
    <2>3. i < j \/ j < i
      BY <2>1, <2>2, <1>1
    <2> QED
      BY <2>1, <2>2, <2>3 DEF Before
  <1> QED
    BY <1>2, <1>3

(* The order of the queue has no cycle of two.                             *)
LEMMA NotBoth ==
  ASSUME NEW q \in Seq(Task), NoDup(q), NEW t
  PROVE  ~Before(t, t, q)
  <1>1. Len(q) \in Nat /\ DOMAIN q = 1 .. Len(q)
    BY LenProperties
  <1>2. \A i \in DOMAIN q : q[i] # Idle
    BY <1>1, TaskAssumption DEF Task
  <1> QED
    BY <1>1, <1>2 DEF Before, NoDup

-----------------------------------------------------------------------------
(***************************************************************************)
(* The inductive invariant.                                                *)
(***************************************************************************)

(* A task's code runs: neither the scheduler nor the context switch is     *)
(* under way, and no switch is asked for.                                  *)
Quiet == soft = "out" /\ swap = "out" /\ ~pendSwap

(* Where the code of a task can be: a started task has not begun to end,   *)
(* and what it holds of a queue it holds while it is started.              *)
Code ==
  /\ taskState[Idle] # "zombie" /\ tpc[Idle] \in {"run", "sleep"}
  /\ \A s \in Synchronous : tpc[s] \notin {"nosave", "unlink", "elect"}
  /\ \A t \in Task : tpc[t] # "sleep"
  /\ \A t \in Task : Started(t) => tpc[t] \in {"run", "push"}
  /\ \A t \in Task : tpc[t] = "push" => Started(t)

(* A task that has ended and is still linked: the head of the ready queue, *)
(* between two steps of its OSEndTask with nothing come in between.        *)
Ending(t) ==
  /\ Quiet
  /\ cur = t /\ active = t /\ Top(readyQ) = t /\ tpc[t] \in {"nosave", "unlink"}

Ready ==
  /\ NoDup(readyQ)
  /\ \A t \in Task : taskState[t] # "zombie" => InQueue(t, readyQ)
  /\ \A t \in Task : InQueue(t, readyQ) => taskState[t] # "zombie" \/ Ending(t)

(* While a task's code runs, the task is the one elected and the head of   *)
(* the ready queue, until its end has taken it out and elected the next.   *)
CodeRuns ==
  Quiet =>
    /\ cur # None /\ tpc[cur] # "done"
    /\ tpc[cur] \in {"run", "push", "sleep"} =>
         Started(cur) /\ active = cur /\ cur = Top(readyQ) /\ ~noSave
    /\ tpc[cur] \in {"nosave", "unlink"} =>
         taskState[cur] = "zombie" /\ active = cur /\ cur = Top(readyQ)
    /\ tpc[cur] = "nosave" => ~noSave
    /\ tpc[cur] \in {"unlink", "elect", "pend"} => taskState[cur] = "zombie" /\ noSave
    /\ tpc[cur] = "elect" => active = cur
    /\ tpc[cur] = "pend" => active = Top(readyQ)

(* Otherwise the registers are those of a started task, or its context is  *)
(* not to be saved.  A switch asked for is a switch to the head of the     *)
(* ready queue; one under way is to a task that no started task precedes,  *)
(* whatever the scheduler released since.                                  *)
Switch ==
  /\ ~Quiet /\ ~noSave /\ cur # None => Started(cur)
  /\ cur = None => noSave \/ swap = "switch"
  /\ swap = "switch" => cur = None /\ ~noSave
  /\ soft = "out" /\ pendSwap => active = Top(readyQ)
  /\ soft = "out" /\ swap # "out" /\ ~pendSwap => r1 = Top(readyQ) /\ active = r1
  /\ swap # "out" => /\ r1 # None /\ taskState[r1] # "zombie"
                     /\ \A t \in Task : Before(t, r1, readyQ) => ~Started(t)

StackInv == Code /\ Ready /\ CodeRuns /\ Switch /\ ContextsMatch

(* The places of an event-driven task exclude each other, and it is in one.*)
Carries(s) == \E t \in Task : carried[t] = s

Linked(s) ==
  /\ InQueue(s, readyQ) =>
       /\ ~InQueue(s, arrivalQ) /\ ~InQueue(s, reschedule)
       /\ ~InQueue(s, waiting[EventOf[s]]) /\ ~Carries(s)
  /\ InQueue(s, arrivalQ) =>
       /\ ~InQueue(s, reschedule)
       /\ ~InQueue(s, waiting[EventOf[s]]) /\ ~Carries(s)
  /\ InQueue(s, reschedule) => ~InQueue(s, waiting[EventOf[s]]) /\ ~Carries(s)
  /\ InQueue(s, waiting[EventOf[s]]) => ~Carries(s)
  /\ \/ InQueue(s, readyQ) \/ InQueue(s, arrivalQ) \/ InQueue(s, reschedule)
     \/ InQueue(s, waiting[EventOf[s]]) \/ Carries(s)

Links ==
  /\ NoDup(arrivalQ) /\ NoDup(reschedule) /\ \A e \in Event : NoDup(waiting[e])
  /\ \A e \in Event : \A s \in Synchronous : InQueue(s, waiting[e]) => EventOf[s] = e
  /\ \A t \in Task : carried[t] # None => tpc[t] = "push"
  /\ \A t, u \in Task : carried[t] = carried[u] /\ carried[t] # None => t = u
  /\ \A s \in Synchronous : Linked(s)

KernelInv == ClockInv /\ StackInv /\ Links

LEMMA KernelTypes ==
  ASSUME TypeInv
  PROVE  /\ taskState \in [Task \cup {Idle} -> {"init", "running", "zombie"}]
         /\ tpc \in [Task \cup {Idle} ->
              {"run", "nosave", "unlink", "elect", "pend", "done", "push", "sleep"}]
         /\ readyQ \in Seq(Task) /\ arrivalQ \in Seq(Task)
         /\ reschedule \in Seq(Synchronous)
         /\ waiting \in [Event -> Seq(Synchronous)]
         /\ carried \in [Task -> Synchronous \cup {None}]
         /\ active \in Task \cup {Idle} /\ cur \in Place /\ r1 \in Place
         /\ saved \in Seq(Place)
         /\ Synchronous \subseteq Task /\ Periodic \subseteq Task
         /\ Periodic \cap Synchronous = {}
         /\ Idle \notin Task /\ None \notin Task /\ None # Idle
         /\ Place = Task \cup {Idle, None}
         /\ EventOf \in [Synchronous -> Event]
  BY TaskAssumption DEF TypeInv, TypeOK, Place, Task

-----------------------------------------------------------------------------
(***************************************************************************)
(* The contexts on the stack.                                              *)
(***************************************************************************)

LEMMA LiveType ==
  ASSUME TypeInv
  PROVE  LiveContexts \in Seq(Place)
  <1>1. cur \in Place /\ saved \in Seq(Place)
    BY KernelTypes
  <1>2. <<cur>> \o saved \in Seq(Place)
    BY <1>1, PushType
  <1> QED
    BY <1>1, <1>2 DEF LiveContexts

(* A context is not on the stack twice.                                    *)
LEMMA LiveOnce ==
  ASSUME TypeInv, NoDup(readyQ), ContextsMatch
  PROVE  NoDup(LiveContexts)
  <1>1. LiveContexts \in Seq(Place) /\ readyQ \in Seq(Task)
    BY LiveType, KernelTypes
  <1>2. DOMAIN LiveContexts = 1 .. Len(LiveContexts) /\ Len(LiveContexts) \in Nat
    BY <1>1, LenProperties
  <1> SUFFICES ASSUME NEW i \in DOMAIN LiveContexts, NEW j \in DOMAIN LiveContexts,
                      LiveContexts[i] = LiveContexts[j], i < j
               PROVE  FALSE
    BY <1>2 DEF NoDup
  <1>3. Before(LiveContexts[i], LiveContexts[j], readyQ)
    BY DEF ContextsMatch
  <1> QED
    BY <1>1, <1>3, NotBoth

(* The first of the started tasks is the one on top.                       *)
LEMMA LiveTop ==
  ASSUME TypeInv, ContextsMatch, NEW r \in Place, Started(r),
         \A t \in Task : Before(t, r, readyQ) => ~Started(t)
  PROVE  LiveContexts # <<>> /\ LiveContexts[1] = r
  <1>1. LiveContexts \in Seq(Place) /\ readyQ \in Seq(Task)
    BY LiveType, KernelTypes
  <1>2. /\ DOMAIN LiveContexts = 1 .. Len(LiveContexts) /\ Len(LiveContexts) \in Nat
        /\ DOMAIN readyQ = 1 .. Len(readyQ)
    BY <1>1, LenProperties
  <1>3. PICK k \in DOMAIN LiveContexts : LiveContexts[k] = r
    BY DEF ContextsMatch, InQueue
  <1>4. LiveContexts # <<>> /\ 1 \in DOMAIN LiveContexts
    BY <1>1, <1>2, <1>3
  <1>5. CASE k # 1
    <2>1. Before(LiveContexts[1], r, readyQ)
      BY <1>2, <1>3, <1>4, <1>5 DEF ContextsMatch
    <2>2. LiveContexts[1] \in Task
      BY <2>1, <1>1, <1>2 DEF Before
    <2>3. Started(LiveContexts[1])
      BY <2>2, <1>4 DEF ContextsMatch, InQueue, Place
    <2> QED
      BY <2>1, <2>2, <2>3
  <1> QED
    BY <1>3, <1>4, <1>5

(* A step that keeps the contexts and the order of their tasks.            *)
LEMMA LiveKept ==
  ASSUME TypeInv, ContextsMatch, LiveContexts' = LiveContexts,
         \A t \in Place : Started(t)' <=> Started(t),
         \A t, u \in Place : Started(t) /\ Started(u) /\ Before(t, u, readyQ)
                               => Before(t, u, readyQ')
  PROVE  ContextsMatch'
  <1> DEFINE live == LiveContexts
  <1>1. live \in Seq(Place)
    BY LiveType
  <1>2. DOMAIN live = 1 .. Len(live)
    BY <1>1, LenProperties
  <1>3. ASSUME NEW i \in DOMAIN live, NEW j \in DOMAIN live, i < j
        PROVE  Before(live[i], live[j], readyQ')
    <2>1. live[i] \in Place /\ live[j] \in Place
      BY <1>1, <1>2
    <2>2. Started(live[i]) /\ Started(live[j])
      BY <2>1 DEF ContextsMatch, InQueue
    <2> QED
      BY <2>1, <2>2, <1>3 DEF ContextsMatch
  <1> QED
    BY <1>3 DEF ContextsMatch

(* The context on top goes.                                                *)
LEMMA LiveDropped ==
  ASSUME TypeInv, NoDup(readyQ), ContextsMatch, UNCHANGED saved,
         LiveContexts = <<cur>> \o saved, LiveContexts' = saved,
         \A t \in Place : Started(t)' <=> Started(t) /\ t # cur,
         \A t, u \in Place :
           Started(t) /\ Started(u) /\ t # cur /\ Before(t, u, readyQ)
             => Before(t, u, readyQ')
  PROVE  ContextsMatch'
  <1>1. cur \in Place /\ saved \in Seq(Place)
    BY KernelTypes
  <1>2. NoDup(<<cur>> \o saved)
    BY LiveOnce
  <1>3. /\ Len(saved) \in Nat /\ DOMAIN saved = 1 .. Len(saved)
        /\ DOMAIN (<<cur>> \o saved) = 1 .. Len(saved) + 1
        /\ (<<cur>> \o saved)[1] = cur
        /\ \A i \in DOMAIN saved : (<<cur>> \o saved)[i + 1] = saved[i]
    BY <1>1
  <1>4. ~InQueue(cur, saved)
    <2> SUFFICES ASSUME NEW i \in DOMAIN saved, saved[i] = cur
                 PROVE  FALSE
      BY DEF InQueue
    <2>1. (<<cur>> \o saved)[i + 1] = (<<cur>> \o saved)[1]
      BY <1>3
    <2>2. i + 1 = 1
      BY <2>1, <1>2, <1>3 DEF NoDup
    <2> QED
      BY <2>2, <1>3
  <1>5. \A t : InQueue(t, <<cur>> \o saved) <=> t = cur \/ InQueue(t, saved)
    <2>1. ASSUME NEW i \in DOMAIN saved, NEW j \in DOMAIN saved, saved[i] = saved[j]
          PROVE  i = j
      <3>1. (<<cur>> \o saved)[i + 1] = (<<cur>> \o saved)[j + 1]
        BY <2>1, <1>3
      <3>2. i + 1 = j + 1
        BY <3>1, <1>2, <1>3 DEF NoDup
      <3> QED
        BY <3>2, <1>3
    <2>2. NoDup(saved)
      BY <2>1 DEF NoDup
    <2> QED
      BY <2>2, <1>1, <1>4, PushOrder
  <1>6. \A t \in Place : InQueue(t, saved) <=> Started(t)'
    BY <1>4, <1>5 DEF ContextsMatch
  <1>7. ASSUME NEW i \in DOMAIN saved, NEW j \in DOMAIN saved, i < j
        PROVE  Before(saved[i], saved[j], readyQ')
    <2>1. saved[i] \in Place /\ saved[j] \in Place
      BY <1>1, <1>3
    <2>2. Started(saved[i]) /\ Started(saved[j]) /\ saved[i] # cur
      BY <2>1, <1>6 DEF InQueue
    <2>3. Before(LiveContexts[i + 1], LiveContexts[j + 1], readyQ)
      <3>1. /\ i + 1 \in DOMAIN LiveContexts /\ j + 1 \in DOMAIN LiveContexts
            /\ i + 1 < j + 1
        BY <1>3, <1>7
      <3> QED
        BY <3>1 DEF ContextsMatch
    <2> QED
      BY <2>1, <2>2, <2>3, <1>3
  <1> QED
    BY <1>6, <1>7 DEF ContextsMatch

(* A context comes on top, of a task that precedes all those started.      *)
LEMMA LiveAdded ==
  ASSUME TypeInv, NoDup(readyQ), ContextsMatch, UNCHANGED <<readyQ, saved>>,
         NEW x \in Place, ~Started(x),
         LiveContexts = saved, LiveContexts' = <<x>> \o saved,
         \A t \in Place : Started(t)' <=> Started(t) \/ t = x,
         \A t \in Place : Started(t) => Before(x, t, readyQ)
  PROVE  ContextsMatch'
  <1>1. saved \in Seq(Place)
    BY KernelTypes
  <1>2. NoDup(saved) /\ ~InQueue(x, saved)
    BY LiveOnce DEF ContextsMatch
  <1>3. /\ Len(saved) \in Nat /\ DOMAIN saved = 1 .. Len(saved)
        /\ DOMAIN (<<x>> \o saved) = 1 .. Len(saved) + 1
        /\ (<<x>> \o saved)[1] = x
        /\ \A i \in 2 .. Len(saved) + 1 :
             i - 1 \in DOMAIN saved /\ (<<x>> \o saved)[i] = saved[i - 1]
    BY <1>1
  <1>4. \A t : InQueue(t, <<x>> \o saved) <=> t = x \/ InQueue(t, saved)
    BY <1>1, <1>2, PushOrder
  <1>5. \A t \in Place : InQueue(t, <<x>> \o saved) <=> Started(t)'
    BY <1>4 DEF ContextsMatch
  <1>6. ASSUME NEW i \in 1 .. Len(saved) + 1, NEW j \in 1 .. Len(saved) + 1, i < j
        PROVE  Before((<<x>> \o saved)[i], (<<x>> \o saved)[j], readyQ)
    <2>1. j \in 2 .. Len(saved) + 1
      BY <1>3, <1>6
    <2>2. saved[j - 1] \in Place /\ InQueue(saved[j - 1], saved)
      BY <2>1, <1>1, <1>3 DEF InQueue
    <2>3. CASE i = 1
      <3>1. (<<x>> \o saved)[i] = x /\ (<<x>> \o saved)[j] = saved[j - 1]
        BY <2>1, <2>3, <1>3
      <3>2. Started(saved[j - 1])
        BY <2>2 DEF ContextsMatch
      <3>3. Before(x, saved[j - 1], readyQ)
        BY <2>2, <3>2
      <3> QED
        BY <3>1, <3>3
    <2>4. CASE i # 1
      <3>1. i \in 2 .. Len(saved) + 1 /\ i - 1 < j - 1
        BY <2>1, <2>4, <1>3, <1>6
      <3>2. Before(saved[i - 1], saved[j - 1], readyQ)
        BY <2>1, <3>1, <1>3 DEF ContextsMatch
      <3> QED
        BY <2>1, <3>1, <3>2, <1>3
    <2> QED
      BY <2>3, <2>4
  <1> QED
    BY <1>3, <1>5, <1>6 DEF ContextsMatch

-----------------------------------------------------------------------------
(***************************************************************************)
(* The steps of the tasks.                                                 *)
(***************************************************************************)

stackVars == <<taskState, readyQ, active, noSave, cur, saved, tpc, swap, r1, pendSwap>>

(* A step that touches neither the contexts nor the ready queue.           *)
LEMMA StackFrame ==
  ASSUME TypeInv, StackInv, UNCHANGED stackVars, soft' = "out" <=> soft = "out"
  PROVE  StackInv'
  <1> USE DEF stackVars
  <1>1. Quiet' <=> Quiet
    BY DEF Quiet
  <1>2. \A t : Started(t)' <=> Started(t)
    BY DEF Started
  <1>3. Code'
    BY <1>2 DEF StackInv, Code
  <1>4. Ready'
    BY <1>1 DEF StackInv, Ready, Ending
  <1>5. CodeRuns'
    BY <1>1, <1>2 DEF StackInv, CodeRuns
  <1>6. Switch'
    BY <1>1, <1>2 DEF StackInv, Switch
  <1>7. ContextsMatch'
    BY <1>2, LiveKept DEF StackInv, LiveContexts
  <1> QED
    BY <1>3, <1>4, <1>5, <1>6, <1>7 DEF StackInv

(* What holds while the code of a task runs.                               *)
LEMMA RunningTask ==
  ASSUME TypeInv, StackInv, NEW t \in Task, Runs(t), tpc[t] \in {"run", "push"}
  PROVE  /\ Quiet /\ cur = t /\ active = t /\ Started(t) /\ ~noSave
         /\ readyQ # <<>> /\ readyQ[1] = t /\ Top(readyQ) = t /\ InQueue(t, readyQ)
         /\ LiveContexts = <<cur>> \o saved
  <1>1. Quiet /\ cur = t
    BY DEF Runs, Quiet
  <1>2. active = t /\ Started(t) /\ ~noSave /\ Top(readyQ) = t
    BY <1>1 DEF StackInv, CodeRuns
  <1>3. readyQ # <<>> /\ readyQ[1] = t /\ InQueue(t, readyQ)
    BY <1>2, KernelTypes, TopFirst DEF StackInv, Ready
  <1>4. LiveContexts = <<cur>> \o saved
    BY <1>1, <1>2 DEF LiveContexts, Started
  <1> QED
    BY <1>1, <1>2, <1>3, <1>4

LEMMA EndZombieStack ==
  ASSUME TypeInv, StackInv, NEW t \in Task, EndTaskZombie(t)
  PROVE  StackInv'
  <1>1. t \in Periodic /\ Runs(t) /\ tpc[t] = "run"
    BY DEF EndTaskZombie, At
  <1>2. /\ Quiet /\ cur = t /\ active = t /\ Started(t) /\ ~noSave
        /\ Top(readyQ) = t /\ LiveContexts = <<cur>> \o saved
    BY <1>1, RunningTask
  <1>3. /\ taskState' = [taskState EXCEPT ![t] = "zombie"]
        /\ tpc' = [tpc EXCEPT ![t] = "nosave"]
        /\ UNCHANGED <<readyQ, active, noSave, cur, saved, swap, r1, soft, pendSwap>>
    BY <1>2 DEF EndTaskZombie, Goto
  <1>4. /\ \A u \in Task \cup {Idle} :
             /\ taskState'[u] = IF u = t THEN "zombie" ELSE taskState[u]
             /\ tpc'[u] = IF u = t THEN "nosave" ELSE tpc[u]
        /\ \A u \in Place : Started(u)' <=> Started(u) /\ u # t
    BY <1>3, KernelTypes DEF Started
  <1>5. Quiet'
    BY <1>2, <1>3 DEF Quiet
  <1>6. Code'
    BY <1>1, <1>4, KernelTypes DEF StackInv, Code
  <1>7. Ready'
    <2>1. NoDup(readyQ')
      BY <1>3 DEF StackInv, Ready
    <2>2. Ending(t)'
      BY <1>2, <1>3, <1>4, <1>5 DEF Ending
    <2>3. ASSUME NEW u \in Task, u # t, InQueue(u, readyQ)
          PROVE  taskState[u] # "zombie"
      BY <1>2, <2>3 DEF StackInv, Ready, Ending
    <2> QED
      BY <2>1, <2>2, <2>3, <1>3, <1>4 DEF StackInv, Ready
  <1>8. CodeRuns'
    BY <1>2, <1>3, <1>4, KernelTypes DEF StackInv, CodeRuns
  <1>9. Switch'
    BY <1>2, <1>3, <1>5, KernelTypes DEF StackInv, Switch, Quiet
  <1>10. ContextsMatch'
    <2>1. LiveContexts' = saved
      BY <1>2, <1>3, <1>4 DEF LiveContexts
    <2> QED
      <3>1. NoDup(readyQ) /\ ContextsMatch /\ UNCHANGED saved
        BY <1>3 DEF StackInv, Ready
      <3>2. \A u \in Place : Started(u)' <=> Started(u) /\ u # cur
        BY <1>2, <1>4
      <3>3. \A u, v \in Place :
              Started(u) /\ Started(v) /\ u # cur /\ Before(u, v, readyQ)
                => Before(u, v, readyQ')
        BY <1>3
      <3>4. NoDup(readyQ) /\ LiveContexts = <<cur>> \o saved
        BY <1>2 DEF StackInv, Ready
      <3> QED
        BY <2>1, <3>4, <3>1, <3>2, <3>3, LiveDropped
  <1> QED
    BY <1>6, <1>7, <1>8, <1>9, <1>10 DEF StackInv

LEMMA EndNoSaveStack ==
  ASSUME TypeInv, StackInv, NEW t \in Task, EndTaskNoSave(t)
  PROVE  StackInv'
  <1>1. Quiet /\ cur = t /\ tpc[t] = "nosave"
    BY DEF EndTaskNoSave, At, Runs, Quiet
  <1>2. taskState[t] = "zombie" /\ active = t /\ Top(readyQ) = t /\ t \in Periodic
    BY <1>1, KernelTypes DEF StackInv, CodeRuns, Code, Task
  <1>3. /\ noSave' = TRUE /\ tpc' = [tpc EXCEPT ![t] = "unlink"]
        /\ UNCHANGED <<taskState, readyQ, active, cur, saved, swap, r1, soft, pendSwap>>
    BY DEF EndTaskNoSave, Goto
  <1>4. /\ \A u \in Task \cup {Idle} : tpc'[u] = IF u = t THEN "unlink" ELSE tpc[u]
        /\ \A u : Started(u)' <=> Started(u)
        /\ Quiet'
    BY <1>1, <1>3, KernelTypes DEF Started, Quiet
  <1>5. Code'
    BY <1>2, <1>3, <1>4, KernelTypes DEF StackInv, Code, Started
  <1>6. Ready'
    <2>1. \A u \in Task : Ending(u) => Ending(u)'
      BY <1>3, <1>4 DEF Ending
    <2> QED
      BY <2>1, <1>3 DEF StackInv, Ready
  <1>7. CodeRuns'
    BY <1>1, <1>2, <1>3, <1>4, KernelTypes DEF StackInv, CodeRuns
  <1>8. Switch'
    BY <1>1, <1>3, <1>4, KernelTypes DEF StackInv, Switch, Quiet
  <1>9. ContextsMatch'
    <2>1. LiveContexts' = LiveContexts
      BY <1>1, <1>2, <1>3 DEF LiveContexts
    <2> QED
      BY <2>1, <1>3, <1>4, LiveKept DEF StackInv
  <1> QED
    BY <1>5, <1>6, <1>7, <1>8, <1>9 DEF StackInv

LEMMA EndUnlinkStack ==
  ASSUME TypeInv, StackInv, NEW t \in Task, EndTaskUnlink(t)
  PROVE  StackInv' /\ readyQ # <<>> /\ t = readyQ[1] /\ readyQ' = Tail(readyQ)
                   /\ t \in Periodic
  <1>1. Quiet /\ cur = t /\ tpc[t] = "unlink"
    BY DEF EndTaskUnlink, At, Runs, Quiet
  <1>2. /\ taskState[t] = "zombie" /\ active = t /\ Top(readyQ) = t /\ noSave
        /\ t \in Periodic
    BY <1>1, KernelTypes DEF StackInv, CodeRuns, Code, Task
  <1>3. NoDup(readyQ) /\ readyQ # <<>> /\ readyQ[1] = t
    BY <1>2, KernelTypes, TopFirst DEF StackInv, Ready
  <1>4. /\ readyQ' = Tail(readyQ) /\ tpc' = [tpc EXCEPT ![t] = "elect"]
        /\ UNCHANGED <<taskState, active, noSave, cur, saved, swap, r1, soft, pendSwap>>
    BY <1>2, <1>3, KernelTypes, AfterTop DEF EndTaskUnlink, Goto
  <1>5. /\ \A u \in Task \cup {Idle} : tpc'[u] = IF u = t THEN "elect" ELSE tpc[u]
        /\ \A u : Started(u)' <=> Started(u)
        /\ Quiet'
    BY <1>1, <1>4, KernelTypes DEF Started, Quiet
  <1>6. Code'
    BY <1>2, <1>4, <1>5, KernelTypes DEF StackInv, Code, Started
  <1>7. /\ NoDup(readyQ') /\ \A u : InQueue(u, readyQ') <=> InQueue(u, readyQ) /\ u # t
        /\ \A u, v : Before(u, v, readyQ') <=> Before(u, v, readyQ) /\ u # t
    BY <1>3, <1>4, KernelTypes, TailOrder
  <1>8. Ready'
    <2>1. \A u \in Task : Ending(u) => u = t
      BY <1>1 DEF Ending
    <2> QED
      BY <2>1, <1>2, <1>4, <1>7 DEF StackInv, Ready
  <1>9. CodeRuns'
    BY <1>1, <1>2, <1>4, <1>5, KernelTypes DEF StackInv, CodeRuns
  <1>10. Switch'
    BY <1>1, <1>4, <1>5, KernelTypes DEF StackInv, Switch, Quiet
  <1>11. ContextsMatch'
    <2>1. LiveContexts' = LiveContexts
      BY <1>4 DEF LiveContexts
    <2>2. ~Started(t)
      BY <1>2 DEF Started
    <2> QED
      BY <2>1, <2>2, <1>5, <1>7, LiveKept DEF StackInv
  <1> QED
    BY <1>2, <1>3, <1>4, <1>6, <1>8, <1>9, <1>10, <1>11 DEF StackInv

LEMMA EndElectStack ==
  ASSUME TypeInv, StackInv, NEW t \in Task, EndTaskElect(t)
  PROVE  StackInv'
  <1>1. Quiet /\ cur = t /\ tpc[t] = "elect"
    BY DEF EndTaskElect, At, Runs, Quiet
  <1>2. taskState[t] = "zombie" /\ noSave /\ t \in Periodic
    BY <1>1, KernelTypes DEF StackInv, CodeRuns, Code, Task
  <1>3. /\ active' = Top(readyQ) /\ tpc' = [tpc EXCEPT ![t] = "pend"]
        /\ UNCHANGED <<taskState, readyQ, noSave, cur, saved, swap, r1, soft, pendSwap>>
    BY DEF EndTaskElect, Goto
  <1>4. /\ \A u \in Task \cup {Idle} : tpc'[u] = IF u = t THEN "pend" ELSE tpc[u]
        /\ \A u : Started(u)' <=> Started(u)
        /\ Quiet'
    BY <1>1, <1>3, KernelTypes DEF Started, Quiet
  <1>5. Code'
    BY <1>2, <1>3, <1>4, KernelTypes DEF StackInv, Code, Started
  <1>6. Ready'
    <2>1. \A u \in Task : ~Ending(u)
      BY <1>1 DEF Ending
    <2> QED
      BY <2>1, <1>3 DEF StackInv, Ready
  <1>7. CodeRuns'
    BY <1>1, <1>2, <1>3, <1>4, KernelTypes DEF StackInv, CodeRuns
  <1>8. Switch'
    BY <1>1, <1>3, <1>4, KernelTypes DEF StackInv, Switch, Quiet
  <1>9. ContextsMatch'
    BY <1>3, <1>4, LiveKept DEF StackInv, LiveContexts
  <1> QED
    BY <1>5, <1>6, <1>7, <1>8, <1>9 DEF StackInv

LEMMA ScheduleStack ==
  ASSUME TypeInv, StackInv, NEW t \in Task, ScheduleTask(t)
  PROVE  StackInv'
  <1>1. Quiet /\ cur = t /\ tpc[t] = "pend"
    BY DEF ScheduleTask, At, Runs, Quiet
  <1>2. taskState[t] = "zombie" /\ noSave /\ active = Top(readyQ)
    BY <1>1 DEF StackInv, CodeRuns
  <1>3. /\ pendSwap' = TRUE /\ tpc' = [tpc EXCEPT ![t] = "done"]
        /\ UNCHANGED <<taskState, readyQ, active, noSave, cur, saved, swap, r1, soft>>
    BY DEF ScheduleTask, Goto
  <1>4. /\ \A u \in Task \cup {Idle} : tpc'[u] = IF u = t THEN "done" ELSE tpc[u]
        /\ \A u : Started(u)' <=> Started(u)
        /\ ~Quiet'
    BY <1>1, <1>3, KernelTypes DEF Started, Quiet
  <1>5. Code'
    BY <1>2, <1>3, <1>4, KernelTypes DEF StackInv, Code, Started
  <1>6. Ready'
    <2>1. \A u \in Task : ~Ending(u)
      BY <1>1 DEF Ending
    <2> QED
      BY <2>1, <1>3 DEF StackInv, Ready
  <1>7. CodeRuns'
    BY <1>4 DEF StackInv, CodeRuns
  <1>8. Switch'
    BY <1>1, <1>2, <1>3, KernelTypes DEF StackInv, Switch, Quiet
  <1>9. ContextsMatch'
    BY <1>3, <1>4, LiveKept DEF StackInv, LiveContexts
  <1> QED
    BY <1>5, <1>6, <1>7, <1>8, <1>9 DEF StackInv

LEMMA SuspendStack ==
  ASSUME TypeInv, StackInv, NEW t \in Task, SuspendSynchronousTask(t)
  PROVE  StackInv' /\ readyQ # <<>> /\ t = readyQ[1] /\ readyQ' = Tail(readyQ)
                   /\ Started(t) /\ InQueue(t, readyQ)
  <1>1. t \in Synchronous /\ Runs(t) /\ tpc[t] = "run"
    BY DEF SuspendSynchronousTask, At
  <1>2. /\ Quiet /\ cur = t /\ active = t /\ Started(t) /\ ~noSave
        /\ readyQ # <<>> /\ readyQ[1] = t /\ InQueue(t, readyQ)
        /\ LiveContexts = <<cur>> \o saved
    BY <1>1, RunningTask
  <1>3. NoDup(readyQ)
    BY DEF StackInv, Ready
  <1>4. After(active, readyQ) = Tail(readyQ)
    BY <1>2, <1>3, KernelTypes, AfterTop
  <1>5. /\ taskState' = [taskState EXCEPT ![t] = "zombie"]
        /\ tpc' = [tpc EXCEPT ![t] = "pend"]
        /\ noSave' = TRUE /\ readyQ' = Tail(readyQ) /\ active' = Top(readyQ')
        /\ UNCHANGED <<cur, saved, swap, r1, soft, pendSwap>>
    BY <1>2, <1>4 DEF SuspendSynchronousTask, Goto
  <1>6. /\ \A u \in Task \cup {Idle} :
             /\ taskState'[u] = IF u = t THEN "zombie" ELSE taskState[u]
             /\ tpc'[u] = IF u = t THEN "pend" ELSE tpc[u]
        /\ \A u \in Place : Started(u)' <=> Started(u) /\ u # t
        /\ Quiet'
    BY <1>2, <1>5, KernelTypes DEF Started, Quiet
  <1>7. Code'
    BY <1>6, KernelTypes DEF StackInv, Code
  <1>8. /\ NoDup(readyQ') /\ \A u : InQueue(u, readyQ') <=> InQueue(u, readyQ) /\ u # t
        /\ \A u, v : Before(u, v, readyQ') <=> Before(u, v, readyQ) /\ u # t
    BY <1>2, <1>3, <1>5, KernelTypes, TailOrder
  <1>9. Ready'
    <2>1. \A u \in Task : ~Ending(u)
      BY <1>1, <1>2 DEF Ending
    <2> QED
      BY <2>1, <1>6, <1>8 DEF StackInv, Ready
  <1>10. CodeRuns'
    BY <1>2, <1>5, <1>6, KernelTypes DEF StackInv, CodeRuns
  <1>11. Switch'
    BY <1>2, <1>5, <1>6, KernelTypes DEF StackInv, Switch, Quiet
  <1>12. ContextsMatch'
    <2>1. LiveContexts' = saved
      BY <1>5 DEF LiveContexts
    <2> QED
      <3>1. ContextsMatch /\ UNCHANGED saved
        BY <1>5 DEF StackInv
      <3>2. \A u \in Place : Started(u)' <=> Started(u) /\ u # cur
        BY <1>2, <1>6
      <3>3. \A u, v \in Place :
              Started(u) /\ Started(v) /\ u # cur /\ Before(u, v, readyQ)
                => Before(u, v, readyQ')
        BY <1>2, <1>8
      <3>4. NoDup(readyQ) /\ LiveContexts = <<cur>> \o saved
        BY <1>2, <1>3
      <3> QED
        BY <2>1, <3>4, <3>1, <3>2, <3>3, LiveDropped
  <1> QED
    BY <1>2, <1>5, <1>7, <1>9, <1>10, <1>11, <1>12 DEF StackInv

(* A step of a running task within its code.                               *)
LEMMA CodeStack ==
  ASSUME TypeInv, StackInv, NEW t \in Task \cup {Idle}, Runs(t), NEW x,
         \/ t \in Task /\ tpc[t] \in {"run", "push"} /\ x \in {"run", "push"}
         \/ t = Idle /\ tpc[t] = "run" /\ x = "sleep",
         tpc' = [tpc EXCEPT ![t] = x],
         UNCHANGED <<taskState, readyQ, active, noSave, cur, saved, swap, r1, soft,
                     pendSwap>>
  PROVE  StackInv'
  <1>1. Quiet /\ cur = t /\ Quiet'
    BY DEF Runs, Quiet
  <1>2. Started(t)
    BY <1>1, KernelTypes DEF StackInv, CodeRuns
  <1>3. /\ \A u \in Task \cup {Idle} : tpc'[u] = IF u = t THEN x ELSE tpc[u]
        /\ \A u : Started(u)' <=> Started(u)
    BY KernelTypes DEF Started
  <1>4. Code'
    BY <1>2, <1>3, KernelTypes DEF StackInv, Code
  <1>5. Ready'
    <2>1. \A u \in Task : ~Ending(u)
      BY <1>1 DEF Ending
    <2> QED
      BY <2>1 DEF StackInv, Ready
  <1>6. CodeRuns'
    BY <1>1, <1>2, <1>3 DEF StackInv, CodeRuns
  <1>7. Switch'
    BY <1>1, <1>3, KernelTypes DEF StackInv, Switch, Quiet
  <1>8. ContextsMatch'
    BY <1>3, LiveKept DEF StackInv, LiveContexts
  <1> QED
    BY <1>4, <1>5, <1>6, <1>7, <1>8 DEF StackInv

-----------------------------------------------------------------------------
(***************************************************************************)
(* The steps of the context switch.                                        *)
(***************************************************************************)

LEMMA NoneEnding ==
  ASSUME StackInv, ~Quiet
  PROVE  \A t \in Task : InQueue(t, readyQ) <=> taskState[t] # "zombie"
  BY DEF StackInv, Ready, Ending

LEMMA SwapEnterStack ==
  ASSUME TypeInv, StackInv, SwapEnter
  PROVE  StackInv'
  <1>1. /\ soft = "out" /\ swap = "out" /\ pendSwap
        /\ ~pendSwap' /\ swap' = "test" /\ r1' = active
        /\ UNCHANGED <<taskState, readyQ, active, noSave, cur, saved, tpc, soft>>
    BY DEF SwapEnter, SwapAt
  <1>2. ~Quiet /\ ~Quiet'
    BY <1>1 DEF Quiet
  <1>3. \A t : Started(t)' <=> Started(t)
    BY <1>1 DEF Started
  <1>4. active = Top(readyQ)
    BY <1>1 DEF StackInv, Switch
  <1>5. /\ active # None /\ taskState[active] # "zombie"
        /\ \A t : ~Before(t, active, readyQ)
    <2>1. readyQ \in Seq(Task) /\ NoDup(readyQ) /\ active \in Task \cup {Idle}
      BY KernelTypes DEF StackInv, Ready
    <2>2. active # Idle => InQueue(active, readyQ)
      BY <2>1, <1>4, TopFirst
    <2> QED
      BY <2>1, <2>2, <1>2, <1>4, KernelTypes, TopFirst, NoneEnding DEF StackInv, Code
  <1>6. Code'
    BY <1>1, <1>3 DEF StackInv, Code
  <1>7. Ready'
    BY <1>1, <1>2 DEF StackInv, Ready, Ending
  <1>8. CodeRuns'
    BY <1>2 DEF CodeRuns
  <1>9. Switch'
    BY <1>1, <1>2, <1>3, <1>4, <1>5 DEF StackInv, Switch
  <1>10. ContextsMatch'
    BY <1>1, <1>3, LiveKept DEF StackInv, LiveContexts
  <1> QED
    BY <1>6, <1>7, <1>8, <1>9, <1>10 DEF StackInv

(* The task the switch goes to, if it has run, is the one on top.          *)
LEMMA OnTop ==
  ASSUME TypeInv, StackInv, swap # "out", HasRun(r1)
  PROVE  Started(r1) /\ LiveContexts # <<>> /\ LiveContexts[1] = r1
  <1>1. /\ r1 # None /\ taskState[r1] # "zombie"
        /\ \A t \in Task : Before(t, r1, readyQ) => ~Started(t)
    BY DEF StackInv, Switch
  <1>2. r1 \in Place /\ taskState[r1] \in {"init", "running", "zombie"}
    BY <1>1, KernelTypes
  <1>3. Started(r1)
    BY <1>1, <1>2 DEF HasRun, Started
  <1> QED
    BY <1>1, <1>2, <1>3, LiveTop DEF StackInv

(* Before the switch has left the task interrupted, it is a started one.   *)
LEMMA Interrupted ==
  ASSUME TypeInv, StackInv, swap = "test", ~noSave
  PROVE  cur # None /\ Started(cur) /\ LiveContexts = <<cur>> \o saved
  <1>1. cur # None /\ Started(cur)
    BY DEF StackInv, Switch, Quiet
  <1> QED
    BY <1>1 DEF Started, LiveContexts

(* Once it has, the registers are nobody's.                                *)
LEMMA Switching ==
  ASSUME TypeInv, StackInv, swap = "switch"
  PROVE  cur = None /\ ~noSave /\ LiveContexts = saved
  BY DEF StackInv, Switch, LiveContexts

LEMMA SwapReturnStack ==
  ASSUME TypeInv, StackInv, SwapReturn
  PROVE  StackInv'
  <1>1. /\ soft = "out" /\ swap = "test" /\ ~noSave /\ HasRun(r1)
        /\ swap' = "out" /\ r1' = None
        /\ UNCHANGED <<taskState, readyQ, active, noSave, cur, saved, tpc, soft, pendSwap>>
    BY DEF SwapReturn, SwapAt
  <1>2. ~Quiet /\ (Quiet' <=> ~pendSwap)
    BY <1>1 DEF Quiet
  <1>3. \A t : Started(t)' <=> Started(t)
    BY <1>1 DEF Started
  <1>4. cur = r1 /\ Started(cur)
    <2>1. cur \in Place /\ saved \in Seq(Place)
      BY KernelTypes
    <2>2. (<<cur>> \o saved)[1] = cur
      BY <2>1
    <2> QED
      BY <2>2, <1>1, OnTop, Interrupted
  <1>5. Code'
    BY <1>1, <1>3 DEF StackInv, Code
  <1>6. Ready'
    BY <1>1, <1>2, NoneEnding DEF StackInv, Ready
  <1>7. CodeRuns'
    <2> SUFFICES ASSUME Quiet'
                 PROVE  CodeRuns'
      BY DEF CodeRuns
    <2>1. cur = Top(readyQ) /\ active = cur
      BY <1>1, <1>2, <1>4 DEF StackInv, Switch
    <2>2. cur # None /\ tpc[cur] \in {"run", "push", "sleep"}
      BY <1>4, KernelTypes DEF StackInv, Code, Started
    <2> QED
      BY <2>1, <2>2, <1>1, <1>3, <1>4 DEF CodeRuns
  <1>8. Switch'
    BY <1>1, <1>3, <1>4, Interrupted DEF StackInv, Switch
  <1>9. ContextsMatch'
    BY <1>1, <1>3, LiveKept DEF StackInv, LiveContexts
  <1> QED
    BY <1>5, <1>6, <1>7, <1>8, <1>9 DEF StackInv

(* The task interrupted is put away, or its context is wiped.              *)
LEMMA SwapLeaveStack ==
  ASSUME TypeInv, StackInv, SwapSave \/ SwapClear
  PROVE  StackInv'
  <1>1. /\ soft = "out" /\ swap = "test"
        /\ swap' = "switch" /\ cur' = None /\ ~noSave'
        /\ UNCHANGED <<taskState, readyQ, active, tpc, r1, soft, pendSwap>>
    BY DEF SwapSave, SwapClear, SwapAt
  <1>2. ~Quiet /\ ~Quiet'
    BY <1>1 DEF Quiet
  <1>3. \A t : Started(t)' <=> Started(t)
    BY <1>1 DEF Started
  <1>4. LiveContexts' = LiveContexts
    <2>1. LiveContexts' = saved'
      BY <1>1 DEF LiveContexts
    <2>2. CASE SwapSave
      BY <2>1, <2>2, <1>1, Interrupted DEF SwapSave
    <2>3. CASE SwapClear
      BY <2>1, <2>3 DEF SwapClear, LiveContexts
    <2> QED
      BY <2>2, <2>3
  <1>5. Code'
    BY <1>1, <1>3 DEF StackInv, Code
  <1>6. Ready'
    BY <1>1, <1>2 DEF StackInv, Ready, Ending
  <1>7. CodeRuns'
    BY <1>2 DEF CodeRuns
  <1>8. Switch'
    BY <1>1, <1>3 DEF StackInv, Switch
  <1>9. ContextsMatch'
    BY <1>1, <1>3, <1>4, LiveKept DEF StackInv
  <1> QED
    BY <1>5, <1>6, <1>7, <1>8, <1>9 DEF StackInv

LEMMA SwapCreateStack ==
  ASSUME TypeInv, StackInv, SwapCreate
  PROVE  StackInv'
  <1>1. /\ soft = "out" /\ swap = "switch" /\ taskState[r1] = "init"
        /\ taskState' = [taskState EXCEPT ![r1] = "running"]
        /\ cur' = r1 /\ tpc' = [tpc EXCEPT ![r1] = "run"]
        /\ swap' = "out" /\ r1' = None
        /\ UNCHANGED <<readyQ, active, noSave, saved, soft, pendSwap>>
    BY DEF SwapCreate, SwapAt, HasRun, Goto
  <1>2. ~Quiet /\ (Quiet' <=> ~pendSwap)
    BY <1>1 DEF Quiet
  <1>3. /\ r1 \in Task \cup {Idle}
        /\ \A t \in Task : Before(t, r1, readyQ) => ~Started(t)
    BY <1>1, KernelTypes DEF StackInv, Switch
  <1>4. /\ \A t \in Task \cup {Idle} :
             /\ taskState'[t] = IF t = r1 THEN "running" ELSE taskState[t]
             /\ tpc'[t] = IF t = r1 THEN "run" ELSE tpc[t]
        /\ \A t \in Place : Started(t)' <=> Started(t) \/ t = r1
        /\ ~Started(r1)
    BY <1>1, <1>3, KernelTypes DEF Started
  <1>5. cur = None /\ ~noSave /\ LiveContexts = saved /\ LiveContexts' = <<r1>> \o saved
    <2>1. cur = None /\ ~noSave /\ LiveContexts = saved
      BY <1>1, Switching
    <2>2. cur' = r1 /\ r1 # None /\ ~noSave' /\ taskState'[r1] # "zombie" /\ saved' = saved
      BY <2>1, <1>1, <1>3, <1>4, KernelTypes
    <2> QED
      BY <2>1, <2>2 DEF LiveContexts
  <1>6. Code'
    BY <1>3, <1>4, KernelTypes DEF StackInv, Code
  <1>7. Ready'
    <2>1. \A t \in Task : taskState'[t] = "zombie" <=> taskState[t] = "zombie"
      BY <1>1, <1>4
    <2> QED
      BY <2>1, <1>1, <1>2, NoneEnding DEF StackInv, Ready
  <1>8. CodeRuns'
    <2> SUFFICES ASSUME Quiet'
                 PROVE  CodeRuns'
      BY DEF CodeRuns
    <2>1. r1 = Top(readyQ) /\ active = r1
      BY <1>1, <1>2 DEF StackInv, Switch
    <2>2. cur' = r1 /\ r1 # None /\ tpc'[r1] = "run" /\ Started(cur)' /\ ~noSave'
      BY <1>1, <1>3, <1>4, <1>5, KernelTypes DEF Started
    <2> QED
      BY <2>1, <2>2, <1>1 DEF CodeRuns
  <1>9. Switch'
    <2>1. Started(cur)' /\ r1 # None
      BY <1>1, <1>3, <1>4, KernelTypes DEF Started
    <2> QED
      BY <2>1, <1>1 DEF StackInv, Switch
  <1>10. ContextsMatch'
    <2>1. ASSUME NEW t \in Place, Started(t)
          PROVE  Before(r1, t, readyQ)
      <3>1. readyQ \in Seq(Task) /\ t \in Task \cup {Idle} /\ t # r1
        BY <2>1, <1>4, KernelTypes DEF Started
      <3>2. /\ t = Idle \/ InQueue(t, readyQ)
            /\ r1 = Idle \/ InQueue(r1, readyQ)
        BY <2>1, <3>1, <1>1, <1>2, <1>3, NoneEnding DEF Started
      <3>3. ~Before(t, r1, readyQ)
        <4>1. t = Idle => ~Before(t, r1, readyQ)
          BY <3>1, KernelTypes, LenProperties DEF Before
        <4> QED
          BY <4>1, <2>1, <3>1, <1>3
      <3> QED
        BY <3>1, <3>2, <3>3, OneBefore
    <2>2. r1 \in Place /\ NoDup(readyQ) /\ ContextsMatch
      BY <1>3 DEF Place, StackInv, Ready
    <2> QED
      BY <2>1, <2>2, <1>1, <1>4, <1>5, LiveAdded
  <1> QED
    BY <1>6, <1>7, <1>8, <1>9, <1>10 DEF StackInv

LEMMA SwapRestoreStack ==
  ASSUME TypeInv, StackInv, SwapRestore
  PROVE  StackInv'
  <1>1. /\ soft = "out" /\ swap = "switch" /\ HasRun(r1) /\ saved # <<>>
        /\ cur' = saved[1] /\ saved' = Tail(saved)
        /\ swap' = "out" /\ r1' = None
        /\ UNCHANGED <<taskState, readyQ, active, noSave, tpc, soft, pendSwap>>
    BY DEF SwapRestore, SwapAt
  <1>2. ~Quiet /\ (Quiet' <=> ~pendSwap)
    BY <1>1 DEF Quiet
  <1>3. \A t : Started(t)' <=> Started(t)
    BY <1>1 DEF Started
  <1>4. /\ cur' = r1 /\ Started(r1) /\ ~noSave /\ LiveContexts = saved
        /\ r1 \in Task \cup {Idle}
    BY <1>1, OnTop, Switching, KernelTypes DEF Started
  <1>5. LiveContexts' = LiveContexts
    <2>1. LiveContexts' = <<cur'>> \o saved'
      BY <1>1, <1>4 DEF LiveContexts, Started
    <2>2. saved \in Seq(Place)
      BY KernelTypes
    <2>3. <<saved[1]>> \o Tail(saved) = saved
      BY <2>2, <1>1
    <2> QED
      BY <2>1, <2>3, <1>1, <1>4
  <1>6. Code'
    BY <1>1, <1>3 DEF StackInv, Code
  <1>7. Ready'
    BY <1>1, <1>2, NoneEnding DEF StackInv, Ready
  <1>8. CodeRuns'
    <2> SUFFICES ASSUME Quiet'
                 PROVE  CodeRuns'
      BY DEF CodeRuns
    <2>1. r1 = Top(readyQ) /\ active = r1
      BY <1>1, <1>2 DEF StackInv, Switch
    <2>2. r1 # None /\ tpc[r1] \in {"run", "push", "sleep"}
      BY <1>4, KernelTypes DEF StackInv, Code, Started
    <2> QED
      BY <2>1, <2>2, <1>1, <1>3, <1>4 DEF CodeRuns
  <1>9. Switch'
    BY <1>1, <1>3, <1>4, KernelTypes DEF StackInv, Switch
  <1>10. ContextsMatch'
    BY <1>1, <1>3, <1>5, LiveKept DEF StackInv
  <1> QED
    BY <1>6, <1>7, <1>8, <1>9, <1>10 DEF StackInv

-----------------------------------------------------------------------------
(***************************************************************************)
(* The steps of the scheduler.                                             *)
(***************************************************************************)

(* The task that was ending is taken out on entry, so that no other        *)
(* release comes between its flags and its link.                           *)
LEMMA SoftEnterStack ==
  ASSUME TypeInv, StackInv, SoftTimerInterrupt
  PROVE  /\ StackInv'
         /\ \/ readyQ' = readyQ
            \/ readyQ # <<>> /\ readyQ[1] \in Periodic /\ readyQ' = Tail(readyQ)
  <1>1. /\ soft = "out" /\ soft' = "overflow" /\ active' = Top(readyQ')
        /\ UNCHANGED <<taskState, cur, saved, tpc, swap, r1, pendSwap>>
    BY DEF SoftTimerInterrupt, SoftAt
  <1>2. ~Quiet'
    BY <1>1 DEF Quiet
  <1>3. \A t : Started(t)' <=> Started(t)
    BY <1>1 DEF Started
  <1>4. readyQ \in Seq(Task) /\ NoDup(readyQ) /\ (readyQ # <<>> => readyQ[1] \in Task)
    BY KernelTypes, TopFirst DEF StackInv, Ready, Top
  <1>5. Code'
    BY <1>1, <1>3 DEF StackInv, Code
  <1>6. CodeRuns'
    BY <1>2 DEF CodeRuns
  <1>7. CASE readyQ # <<>> /\ taskState[readyQ[1]] = "zombie"
    <2>1. readyQ' = Tail(readyQ) /\ noSave'
      BY <1>7, Zenon DEF SoftTimerInterrupt
    <2> DEFINE z == readyQ[1]
    <2>2. z \in Task /\ InQueue(z, readyQ)
      BY <1>4, <1>7, TopFirst
    <2>3. Ending(z) /\ (\A u \in Task : Ending(u) => u = z)
      BY <2>2, <1>7 DEF StackInv, Ready, Ending
    <2>4. /\ NoDup(readyQ') /\ \A u : InQueue(u, readyQ') <=> InQueue(u, readyQ) /\ u # z
          /\ \A u, v : Before(u, v, readyQ') <=> Before(u, v, readyQ) /\ u # z
      BY <1>4, <1>7, <2>1, TailOrder
    <2>5. Ready'
      BY <2>3, <2>4, <1>1, <1>7 DEF StackInv, Ready
    <2>6. cur = z /\ cur # None /\ swap = "out" /\ z \in Periodic
      BY <2>2, <2>3, KernelTypes DEF Ending, Quiet, StackInv, Code, Task
    <2>7. Switch'
      BY <2>1, <2>6, <1>1 DEF Switch
    <2>8. LiveContexts' = LiveContexts
      BY <2>6, <1>1, <1>7 DEF LiveContexts
    <2>9. ~Started(z)
      BY <1>7 DEF Started
    <2>10. ContextsMatch'
      BY <2>4, <2>8, <2>9, <1>3, LiveKept DEF StackInv
    <2> QED
      BY <2>1, <2>5, <2>6, <2>7, <2>10, <1>5, <1>6, <1>7 DEF StackInv
  <1>8. CASE ~(readyQ # <<>> /\ taskState[readyQ[1]] = "zombie")
    <2>1. readyQ' = readyQ /\ noSave' = noSave
      BY <1>8 DEF SoftTimerInterrupt
    <2>2. \A u \in Task : ~Ending(u)
      <3> SUFFICES ASSUME NEW u \in Task, Ending(u)
                   PROVE  FALSE
        OBVIOUS
      <3>1. Top(readyQ) = u /\ u # Idle /\ tpc[u] \in {"nosave", "unlink"} /\ cur = u /\ Quiet
        BY KernelTypes DEF Ending
      <3>2. taskState[u] = "zombie"
        BY <3>1 DEF StackInv, CodeRuns
      <3> QED
        BY <3>1, <3>2, <1>4, <1>8, TopFirst
    <2>3. Ready'
      BY <2>1, <2>2, <1>1, <1>2 DEF StackInv, Ready
    <2>4. ~noSave /\ cur # None => Started(cur)
      <3> SUFFICES ASSUME ~noSave, cur # None, Quiet
                   PROVE  Started(cur)
        BY DEF StackInv, Switch
      <3>1. tpc[cur] \in {"run", "nosave", "push", "sleep"}
        <4>1. tpc[cur] \in {"run", "nosave", "unlink", "elect", "pend", "done", "push", "sleep"}
          BY KernelTypes
        <4> QED
          BY <4>1 DEF StackInv, CodeRuns
      <3>2. tpc[cur] # "nosave"
        <4> SUFFICES ASSUME tpc[cur] = "nosave"
                     PROVE  FALSE
          OBVIOUS
        <4>1. taskState[cur] = "zombie" /\ cur = Top(readyQ) /\ active = cur
          BY DEF StackInv, CodeRuns
        <4>2. cur \in Task
          BY KernelTypes DEF StackInv, Code
        <4> QED
          BY <4>1, <4>2, <2>2 DEF Ending
      <3> QED
        BY <3>1, <3>2 DEF StackInv, CodeRuns
    <2>5. cur = None => noSave \/ swap = "switch"
      BY DEF StackInv, CodeRuns, Switch
    <2>6. Switch'
      BY <2>1, <2>4, <2>5, <1>1, <1>2, <1>3 DEF StackInv, Switch
    <2>7. ContextsMatch'
      BY <2>1, <1>1, <1>3, LiveKept DEF StackInv, LiveContexts
    <2> QED
      BY <2>1, <2>3, <2>6, <2>7, <1>5, <1>6 DEF StackInv
  <1> QED
    BY <1>7, <1>8

(* A task released, that was in no queue of tasks to run.                  *)
LEMMA ReleaseStack ==
  ASSUME TypeInv, StackInv, soft # "out", soft' # "out",
         NEW t \in Task, ~InQueue(t, readyQ), NEW precedes,
         taskState' = [taskState EXCEPT ![t] = "init"],
         readyQ' = InsertQueue(t, readyQ, precedes),
         UNCHANGED <<cpu, pendSwap>>
  PROVE  StackInv'
  <1>1. UNCHANGED <<active, noSave, cur, saved, tpc, swap, r1, pendSwap>>
    OBVIOUS
  <1>2. ~Quiet /\ ~Quiet'
    BY DEF Quiet
  <1>3. readyQ \in Seq(Task) /\ NoDup(readyQ) /\ t # Idle
    BY KernelTypes DEF StackInv, Ready
  <1>4. taskState[t] = "zombie"
    BY <1>2, NoneEnding
  <1>5. /\ \A u \in Task \cup {Idle} : taskState'[u] = IF u = t THEN "init" ELSE taskState[u]
        /\ \A u \in Place : Started(u)' <=> Started(u)
        /\ ~Started(t)
    BY <1>4, KernelTypes DEF Started
  <1>6. /\ NoDup(readyQ') /\ \A u : InQueue(u, readyQ') <=> u = t \/ InQueue(u, readyQ)
        /\ \A u, v : u # t /\ v # t => (Before(u, v, readyQ') <=> Before(u, v, readyQ))
    BY <1>3, InsertOrder
  <1>7. Code'
    BY <1>1, <1>3, <1>5, KernelTypes DEF StackInv, Code
  <1>8. Ready'
    BY <1>2, <1>5, <1>6, NoneEnding DEF StackInv, Ready
  <1>9. CodeRuns'
    BY <1>2 DEF CodeRuns
  <1>10. Switch'
    <2>1. cur \in Place /\ (cur # None => Started(cur)' <=> Started(cur))
      BY <1>1, <1>5, KernelTypes
    <2>2. ASSUME swap # "out"
          PROVE  /\ r1 # None /\ taskState'[r1] # "zombie"
                 /\ \A u \in Task : Before(u, r1, readyQ') => ~Started(u)'
      <3>1. r1 # None /\ r1 # t /\ r1 \in Task \cup {Idle}
        BY <2>2, <1>4, KernelTypes DEF StackInv, Switch
      <3>2. ASSUME NEW u \in Task, Before(u, r1, readyQ')
            PROVE  ~Started(u)'
        BY <2>2, <3>1, <3>2, <1>5, <1>6, KernelTypes DEF StackInv, Switch
      <3> QED
        BY <2>2, <3>1, <3>2, <1>5 DEF StackInv, Switch
    <2> QED
      BY <2>1, <2>2, <1>1, <1>2 DEF StackInv, Switch
  <1>11. ContextsMatch'
    <2>1. LiveContexts' = LiveContexts
      <3>1. cur # None => (taskState'[cur] = "zombie" <=> taskState[cur] = "zombie" /\ cur # t)
        BY <1>1, <1>5, KernelTypes
      <3>2. noSave \/ cur # t
        BY <1>2, <1>5, KernelTypes DEF StackInv, Switch
      <3> QED
        BY <3>1, <3>2, <1>1 DEF LiveContexts
    <2>2. \A u, v \in Place : Started(u) /\ Started(v) /\ Before(u, v, readyQ)
                                => Before(u, v, readyQ')
      BY <1>5, <1>6
    <2> QED
      BY <2>1, <2>2, <1>5, LiveKept DEF StackInv
  <1> QED
    BY <1>7, <1>8, <1>9, <1>10, <1>11 DEF StackInv

LEMMA LeaveStack ==
  ASSUME TypeInv, StackInv, Leave
  PROVE  StackInv'
  <1>1. /\ soft = "check" /\ soft' = "out" /\ active' = Top(readyQ) /\ pendSwap'
        /\ UNCHANGED <<taskState, readyQ, noSave, cur, saved, tpc, swap, r1>>
    BY DEF Leave, SoftAt
  <1>2. ~Quiet /\ ~Quiet'
    BY <1>1 DEF Quiet
  <1>3. \A t : Started(t)' <=> Started(t)
    BY <1>1 DEF Started
  <1>4. Code'
    BY <1>1, <1>3 DEF StackInv, Code
  <1>5. Ready'
    BY <1>1, <1>2, NoneEnding DEF StackInv, Ready
  <1>6. CodeRuns'
    BY <1>2 DEF CodeRuns
  <1>7. Switch'
    BY <1>1, <1>2, <1>3 DEF StackInv, Switch
  <1>8. ContextsMatch'
    BY <1>1, <1>3, LiveKept DEF StackInv, LiveContexts
  <1> QED
    BY <1>4, <1>5, <1>6, <1>7, <1>8 DEF StackInv

LEMMA SchedulerStack ==
  ASSUME TypeInv, StackInv, Links, Scheduler
  PROVE  StackInv'
  <1> USE DEF SoftAt, Arrives
  <1>1. CASE SoftTimerInterrupt
    BY <1>1, SoftEnterStack
  <1>2. ASSUME NEW t \in Task, ReleasePeriodic(t)
        PROVE  StackInv'
    <2>1. /\ soft = "arrivals" /\ soft' = soft /\ taskState[t] = "zombie"
          /\ taskState' = [taskState EXCEPT ![t] = "init"]
          /\ readyQ' = InsertQueue(t, readyQ, ReadyQueueInsertTestKey(t, nextDeadline'))
          /\ UNCHANGED <<cpu, pendSwap>>
      BY <1>2 DEF ReleasePeriodic, ReadyQueueInsert
    <2>2. ~InQueue(t, readyQ)
      BY <2>1, NoneEnding DEF Quiet
    <2> QED
      BY <2>1, <2>2, ReleaseStack
  <1>3. ASSUME NEW s \in Synchronous, NEW base, ReleaseSynchronous(s, base),
               ~InQueue(s, readyQ), soft # "out", UNCHANGED <<cpu, soft, pendSwap>>
        PROVE  StackInv'
    <2>1. /\ taskState' = [taskState EXCEPT ![s] = "init"] /\ s \in Task
          /\ readyQ' = InsertQueue(s, readyQ, ReadyQueueInsertTestKey(s, nextDeadline'))
      BY <1>3, KernelTypes DEF ReleaseSynchronous, ReadyQueueInsert
    <2> QED
      BY <2>1, <1>3, ReleaseStack
  <1>4. ASSUME NEW s \in Task, ArriveSynchronous(s)
        PROVE  StackInv'
    <2>1. /\ s \in Synchronous /\ ReleaseSynchronous(s, low[s]) /\ soft = "arrivals"
          /\ arrivalQ # <<>> /\ s = arrivalQ[1] /\ UNCHANGED <<cpu, soft, pendSwap>>
      BY <1>4 DEF ArriveSynchronous
    <2>2. InQueue(s, arrivalQ)
      BY <2>1, KernelTypes, LenProperties, EmptySeq DEF InQueue
    <2>3. ~InQueue(s, readyQ)
      BY <2>1, <2>2 DEF Links, Linked
    <2> QED
      BY <2>1, <2>3, <1>3
  <1>5. ASSUME NEW s \in Synchronous, RescheduleNow(s)
        PROVE  StackInv'
    <2>1. /\ ReleaseSynchronous(s, currentTime) /\ soft = "reschedule"
          /\ reschedule # <<>> /\ s = reschedule[1] /\ UNCHANGED <<cpu, soft, pendSwap>>
      BY <1>5 DEF RescheduleNow
    <2>2. InQueue(s, reschedule)
      BY <2>1, KernelTypes, LenProperties, EmptySeq DEF InQueue
    <2>3. ~InQueue(s, readyQ)
      BY <2>2 DEF Links, Linked
    <2> QED
      BY <2>1, <2>3, <1>3
  <1>6. CASE Leave
    BY <1>6, LeaveStack
  <1>7. ASSUME \/ TestOverflow \/ ClearComparatorFlag \/ ReadTime \/ ArrivalsDone
               \/ \E t \in Task : Overrun(t)
               \/ \E s \in Synchronous : RescheduleLater(s)
               \/ RescheduleDone \/ SetTimer \/ ClearSoftTimerInterrupt \/ Again
        PROVE  StackInv'
    <2>1. UNCHANGED stackVars /\ soft # "out" /\ soft' # "out"
      BY <1>7
      DEF TestOverflow, ClearComparatorFlag, ReadTime, ArrivalsDone, Overrun,
          RescheduleLater, RescheduleDone, SetTimer, ClearSoftTimerInterrupt, Again,
          stackVars
    <2> QED
      BY <2>1, StackFrame
  <1> QED
    BY <1>1, <1>2, <1>4, <1>5, <1>6, <1>7 DEF Scheduler

LEMMA StackStep ==
  ASSUME TypeInv, StackInv, Links, [Next]_vars
  PROVE  StackInv'
  <1>1. CASE IdleTask
    <2>1. /\ Runs(Idle) /\ tpc[Idle] = "run" /\ tpc' = [tpc EXCEPT ![Idle] = "sleep"]
          /\ UNCHANGED <<taskState, readyQ, active, noSave, cur, saved, swap, r1, soft,
                         pendSwap>>
      BY <1>1 DEF IdleTask, At, Goto
    <2> QED
      BY <2>1, CodeStack
  <1>2. ASSUME NEW t \in Task, EndTask(t) \/ ScheduleTask(t) \/ SuspendSynchronousTask(t)
        PROVE  StackInv'
    BY <1>2, EndZombieStack, EndNoSaveStack, EndUnlinkStack, EndElectStack,
       ScheduleStack, SuspendStack DEF EndTask
  <1>3. ASSUME NEW t \in Task, NEW e \in Event, SignalDequeue(t, e)
        PROVE  StackInv'
    <2>1. /\ Runs(t) /\ tpc[t] = "run"
          /\ tpc' = [tpc EXCEPT ![t] = "push"] \/ tpc' = tpc
          /\ UNCHANGED <<taskState, readyQ, active, noSave, cur, saved, swap, r1, soft,
                         pendSwap>>
      BY <1>3 DEF SignalDequeue, At, Goto
    <2> QED
      BY <2>1, CodeStack, StackFrame DEF stackVars
  <1>4. ASSUME NEW t \in Task, SignalPush(t)
        PROVE  StackInv'
    <2>1. /\ Runs(t) /\ tpc[t] = "push" /\ tpc' = [tpc EXCEPT ![t] = "run"]
          /\ UNCHANGED <<taskState, readyQ, active, noSave, cur, saved, swap, r1, soft,
                         pendSwap>>
      BY <1>4 DEF SignalPush, At, Goto
    <2> QED
      BY <2>1, CodeStack
  <1>5. CASE Tick \/ (\E e \in Event : SignalByInterrupt(e)) \/ UNCHANGED vars
    <2>1. UNCHANGED stackVars /\ soft' = soft
      BY <1>5 DEF Tick, SignalByInterrupt, vars, stackVars
    <2> QED
      BY <2>1, StackFrame
  <1>6. CASE Scheduler
    BY <1>6, SchedulerStack
  <1>7. CASE ContextSwap
    BY <1>7, SwapEnterStack, SwapReturnStack, SwapLeaveStack, SwapCreateStack,
       SwapRestoreStack DEF ContextSwap
  <1> QED
    BY <1>1, <1>2, <1>3, <1>4, <1>5, <1>6, <1>7 DEF Next, Signal

-----------------------------------------------------------------------------
(***************************************************************************)
(* The links.                                                              *)
(***************************************************************************)

(* A step that leaves every event-driven task where it is.                 *)
LEMMA LinksKept ==
  ASSUME TypeInv, Links, UNCHANGED <<reschedule, waiting, carried>>,
         NoDup(arrivalQ'),
         \A s \in Synchronous : /\ InQueue(s, readyQ') <=> InQueue(s, readyQ)
                                /\ InQueue(s, arrivalQ') <=> InQueue(s, arrivalQ),
         \A t \in Task : carried[t] # None => tpc'[t] = "push"
  PROVE  Links'
  <1>1. \A s \in Synchronous : Carries(s)' <=> Carries(s)
    BY DEF Carries
  <1>2. ASSUME NEW s \in Synchronous
        PROVE  Linked(s)'
    BY <1>1 DEF Links, Linked
  <1> QED
    BY <1>2 DEF Links

(* Of a task's code, only what pushes a task holds one.                    *)
LEMMA StackLinks ==
  ASSUME TypeInv, StackInv, Links,
         \/ IdleTask \/ Tick \/ ContextSwap \/ UNCHANGED vars
         \/ \E t \in Task : \/ EndTaskZombie(t) \/ EndTaskNoSave(t) \/ EndTaskElect(t)
                            \/ ScheduleTask(t)
  PROVE  Links'
  <1>1. UNCHANGED <<reschedule, waiting, carried, readyQ, arrivalQ>>
    BY DEF IdleTask, Tick, vars, EndTaskZombie, EndTaskNoSave, EndTaskElect, ScheduleTask,
           ContextSwap, SwapEnter, SwapReturn, SwapSave, SwapClear, SwapCreate, SwapRestore
  <1>2. \/ tpc' = tpc
        \/ \E t \in Task \cup {Idle} : \E x : tpc[t] # "push" /\ tpc' = [tpc EXCEPT ![t] = x]
    <2>1. CASE SwapCreate
      <3>1. tpc' = [tpc EXCEPT ![r1] = "run"] /\ swap = "switch" /\ taskState[r1] = "init"
        BY <2>1 DEF SwapCreate, SwapAt, HasRun, Goto
      <3>2. r1 \in Task \cup {Idle}
        BY <3>1, KernelTypes DEF StackInv, Switch
      <3>3. tpc[r1] # "push"
        BY <3>1, <3>2 DEF StackInv, Code, Started
      <3> QED
        BY <3>1, <3>2, <3>3
    <2>2. CASE ~SwapCreate
      BY <2>2 DEF IdleTask, Tick, vars, EndTaskZombie, EndTaskNoSave, EndTaskElect,
           ScheduleTask, At, Goto,
           ContextSwap, SwapEnter, SwapReturn, SwapSave, SwapClear, SwapRestore
    <2> QED
      BY <2>1, <2>2
  <1>3. \A t \in Task : carried[t] # None => tpc'[t] = "push"
    BY <1>2, KernelTypes DEF Links
  <1> QED
    BY <1>1, <1>3, LinksKept DEF Links

LEMMA UnlinkLinks ==
  ASSUME TypeInv, StackInv, Links,
         SoftTimerInterrupt \/ \E t \in Task : EndTaskUnlink(t)
  PROVE  Links'
  <1>1. UNCHANGED <<reschedule, waiting, carried, arrivalQ>>
    BY DEF SoftTimerInterrupt, EndTaskUnlink
  <1>2. \/ readyQ' = readyQ
        \/ readyQ # <<>> /\ readyQ[1] \in Periodic /\ readyQ' = Tail(readyQ)
    BY SoftEnterStack, EndUnlinkStack
  <1>3. readyQ \in Seq(Task) /\ NoDup(readyQ)
    BY KernelTypes DEF StackInv, Ready
  <1>4. \A s \in Synchronous : InQueue(s, readyQ') <=> InQueue(s, readyQ)
    <2>1. \A s \in Synchronous : s \notin Periodic
      BY KernelTypes
    <2>2. CASE readyQ # <<>> /\ readyQ[1] \in Periodic /\ readyQ' = Tail(readyQ)
      BY <2>1, <2>2, <1>3, TailOrder
    <2> QED
      BY <2>2, <1>2
  <1>5. \A t \in Task : carried[t] # None => tpc'[t] = "push"
    <2>1. tpc' = tpc \/ \E t \in Task : tpc[t] # "push" /\ tpc' = [tpc EXCEPT ![t] = "elect"]
      BY DEF SoftTimerInterrupt, EndTaskUnlink, At, Goto
    <2> QED
      BY <2>1, KernelTypes DEF Links
  <1> QED
    BY <1>1, <1>4, <1>5, LinksKept DEF Links

(* A task put on the list of those to reschedule.                          *)
LEMMA PushLinks ==
  ASSUME TypeInv, Links, NEW s \in Synchronous,
         ~InQueue(s, reschedule), EnqueueRescheduleQueue(s)
  PROVE  /\ NoDup(reschedule')
         /\ \A u : InQueue(u, reschedule') <=> u = s \/ InQueue(u, reschedule)
  <1>1. reschedule' = <<s>> \o reschedule
    BY DEF EnqueueRescheduleQueue
  <1> QED
    BY <1>1, KernelTypes, PushOrder DEF Links

(* The first task that waits for an event leaves its queue.                *)
LEMMA DequeueLinks ==
  ASSUME TypeInv, Links, NEW e \in Event, waiting[e] # <<>>,
         waiting' = [waiting EXCEPT ![e] = Tail(@)]
  PROVE  /\ waiting[e][1] \in Synchronous /\ EventOf[waiting[e][1]] = e
         /\ InQueue(waiting[e][1], waiting[e])
         /\ \A f \in Event : NoDup(waiting'[f])
         /\ \A f \in Event : \A u : InQueue(u, waiting'[f]) <=>
                                  InQueue(u, waiting[f]) /\ (f = e => u # waiting[e][1])
  <1>1. /\ waiting[e] \in Seq(Synchronous) /\ NoDup(waiting[e])
        /\ \A f \in Event : waiting'[f] = IF f = e THEN Tail(waiting[e]) ELSE waiting[f]
    BY KernelTypes DEF Links
  <1>2. waiting[e][1] \in Synchronous /\ InQueue(waiting[e][1], waiting[e])
    BY <1>1, LenProperties, EmptySeq DEF InQueue
  <1>3. /\ NoDup(Tail(waiting[e]))
        /\ \A u : InQueue(u, Tail(waiting[e])) <=> InQueue(u, waiting[e]) /\ u # waiting[e][1]
    BY <1>1, TailOrder
  <1> QED
    BY <1>1, <1>2, <1>3 DEF Links

LEMMA SuspendLinks ==
  ASSUME TypeInv, StackInv, Links, NEW t \in Task, SuspendSynchronousTask(t)
  PROVE  Links'
  <1> DEFINE e == EventOf[t]
  <1>1. /\ t \in Synchronous /\ tpc[t] = "run" /\ e \in Event
        /\ tpc' = [tpc EXCEPT ![t] = "pend"] /\ UNCHANGED <<carried, arrivalQ>>
    BY KernelTypes DEF SuspendSynchronousTask, At, Goto
  <1>2. InQueue(t, readyQ) /\ \A s : InQueue(s, readyQ') <=> InQueue(s, readyQ) /\ s # t
    <2>1. readyQ \in Seq(Task) /\ NoDup(readyQ)
      BY KernelTypes DEF StackInv, Ready
    <2>2. readyQ # <<>> /\ t = readyQ[1] /\ readyQ' = Tail(readyQ) /\ InQueue(t, readyQ)
      BY SuspendStack
    <2> QED
      BY <2>1, <2>2, TailOrder
  <1>3. /\ ~InQueue(t, arrivalQ) /\ ~InQueue(t, reschedule)
        /\ ~InQueue(t, waiting[e]) /\ ~Carries(t)
    BY <1>1, <1>2 DEF Links, Linked
  <1>4. \A s \in Synchronous : Carries(s)' <=> Carries(s)
    BY <1>1 DEF Carries
  <1>5. \A u \in Task : carried'[u] # None => tpc'[u] = "push"
    BY <1>1, KernelTypes DEF Links
  <1>6. CASE EnqueueRescheduleQueue(t) /\ waiting' = waiting
    <2>1. /\ NoDup(reschedule')
          /\ \A u : InQueue(u, reschedule') <=> u = t \/ InQueue(u, reschedule)
      BY <1>1, <1>3, <1>6, PushLinks
    <2>2. ASSUME NEW s \in Synchronous
          PROVE  Linked(s)'
      BY <2>1, <1>1, <1>2, <1>3, <1>4, <1>6 DEF Links, Linked
    <2> QED
      BY <2>1, <2>2, <1>1, <1>5, <1>6 DEF Links
  <1>7. CASE waiting' = [waiting EXCEPT ![e] = Append(@, t)] /\ reschedule' = reschedule
    <2>1. /\ NoDup(Append(waiting[e], t))
          /\ \A u : InQueue(u, Append(waiting[e], t)) <=> u = t \/ InQueue(u, waiting[e])
      BY <1>1, <1>3, KernelTypes, AppendOrder DEF Links
    <2>2. \A f \in Event : waiting'[f] = IF f = e THEN Append(waiting[e], t) ELSE waiting[f]
      BY <1>1, <1>7, KernelTypes
    <2>3. /\ \A f \in Event : NoDup(waiting'[f])
          /\ \A f \in Event : \A u : InQueue(u, waiting'[f]) <=>
                                   InQueue(u, waiting[f]) \/ (f = e /\ u = t)
      BY <2>1, <2>2 DEF Links
    <2>4. ASSUME NEW s \in Synchronous
          PROVE  Linked(s)'
      <3>1. EventOf[s] \in Event
        BY KernelTypes
      <3>2. /\ InQueue(s, waiting'[EventOf[s]]) <=> InQueue(s, waiting[EventOf[s]]) \/ s = t
            /\ InQueue(s, readyQ') <=> InQueue(s, readyQ) /\ s # t
            /\ Carries(s)' <=> Carries(s)
        BY <3>1, <2>3, <1>2, <1>4
      <3> QED
        BY <3>2, <1>1, <1>2, <1>3, <1>7 DEF Links, Linked
    <2> QED
      BY <2>3, <2>4, <1>1, <1>5, <1>7 DEF Links
  <1> QED
    BY <1>6, <1>7 DEF SuspendSynchronousTask

LEMMA SignalDequeueLinks ==
  ASSUME TypeInv, StackInv, Links, NEW t \in Task, NEW e \in Event, SignalDequeue(t, e)
  PROVE  Links'
  <1>1. tpc[t] = "run" /\ UNCHANGED <<readyQ, arrivalQ, reschedule>>
    BY DEF SignalDequeue, At
  <1>2. CASE waiting[e] = <<>>
    BY <1>1, <1>2, LinksKept DEF SignalDequeue, Links
  <1>3. CASE waiting[e] # <<>>
    <2> DEFINE s == waiting[e][1]
    <2>1. /\ carried' = [carried EXCEPT ![t] = s]
          /\ waiting' = [waiting EXCEPT ![e] = Tail(@)]
          /\ tpc' = [tpc EXCEPT ![t] = "push"]
      BY <1>3 DEF SignalDequeue, Goto
    <2>2. /\ s \in Synchronous /\ EventOf[s] = e /\ InQueue(s, waiting[e])
          /\ \A f \in Event : NoDup(waiting'[f])
          /\ \A f \in Event : \A u : InQueue(u, waiting'[f]) <=>
                                   InQueue(u, waiting[f]) /\ (f = e => u # s)
      BY <1>3, <2>1, DequeueLinks
    <2>3. \A u \in Task : /\ carried'[u] = IF u = t THEN s ELSE carried[u]
                          /\ tpc'[u] = IF u = t THEN "push" ELSE tpc[u]
      BY <2>1, KernelTypes
    <2>4. /\ carried[t] = None /\ ~Carries(s) /\ s # None
          /\ ~InQueue(s, readyQ) /\ ~InQueue(s, arrivalQ) /\ ~InQueue(s, reschedule)
      BY <1>1, <2>2, KernelTypes DEF Links, Linked
    <2> HIDE DEF s
    <2>5. \A u \in Synchronous : Carries(u)' <=> Carries(u) \/ u = s
      BY <2>3, <2>4, KernelTypes DEF Carries
    <2>6. ASSUME NEW u \in Synchronous
          PROVE  Linked(u)'
      <3>1. EventOf[u] \in Event
        BY KernelTypes
      <3>2. /\ InQueue(u, waiting'[EventOf[u]]) <=> InQueue(u, waiting[EventOf[u]]) /\ u # s
            /\ Carries(u)' <=> Carries(u) \/ u = s
        BY <3>1, <2>2, <2>5
      <3> QED
        BY <3>2, <2>2, <2>4, <1>1 DEF Links, Linked
    <2>7. \A u, v \in Task : carried'[u] = carried'[v] /\ carried'[u] # None => u = v
      BY <2>3, <2>4 DEF Links, Carries
    <2>8. \A u \in Task : carried'[u] # None => tpc'[u] = "push"
      BY <2>3 DEF Links
    <2> QED
      BY <2>2, <2>6, <2>7, <2>8, <1>1 DEF Links
  <1> QED
    BY <1>2, <1>3

LEMMA SignalPushLinks ==
  ASSUME TypeInv, StackInv, Links, NEW t \in Task, SignalPush(t)
  PROVE  Links'
  <1> DEFINE s == carried[t]
  <1>1. /\ tpc[t] = "push" /\ EnqueueRescheduleQueue(s)
        /\ carried' = [carried EXCEPT ![t] = None] /\ tpc' = [tpc EXCEPT ![t] = "run"]
        /\ UNCHANGED <<readyQ, arrivalQ, waiting>>
    BY DEF SignalPush, At, Goto
  <1>2. s \in Synchronous /\ s # None
    BY <1>1, KernelTypes DEF TypeInv, CarriesOne
  <1>3. \A u \in Task : /\ carried'[u] = IF u = t THEN None ELSE carried[u]
                        /\ tpc'[u] = IF u = t THEN "run" ELSE tpc[u]
    BY <1>1, KernelTypes
  <1>4. /\ Carries(s) /\ ~InQueue(s, readyQ) /\ ~InQueue(s, arrivalQ)
        /\ ~InQueue(s, reschedule) /\ ~InQueue(s, waiting[EventOf[s]])
    BY <1>2 DEF Links, Linked, Carries
  <1>5. \A u \in Synchronous : Carries(u)' <=> Carries(u) /\ u # s
    <2>1. ASSUME NEW u \in Synchronous, u = s
          PROVE  ~Carries(u)'
      BY <2>1, <1>2, <1>3 DEF Links, Carries
    <2>2. ASSUME NEW u \in Synchronous, u # s
          PROVE  Carries(u)' <=> Carries(u)
      <3>1. u # None
        BY KernelTypes, TaskAssumption DEF Task
      <3>2. \A v \in Task : carried'[v] = u <=> carried[v] = u
        BY <2>2, <3>1, <1>3
      <3> QED
        BY <3>2 DEF Carries
    <2> QED
      BY <2>1, <2>2, <1>4
  <1>6. /\ NoDup(reschedule')
        /\ \A u : InQueue(u, reschedule') <=> u = s \/ InQueue(u, reschedule)
    BY <1>1, <1>2, <1>4, PushLinks
  <1>7. ASSUME NEW u \in Synchronous
        PROVE  Linked(u)'
    <2>1. /\ Carries(u)' <=> Carries(u) /\ u # s
          /\ InQueue(u, reschedule') <=> u = s \/ InQueue(u, reschedule)
      BY <1>5, <1>6
    <2> HIDE DEF s
    <2> QED
      BY <2>1, <1>1, <1>4 DEF Links, Linked
  <1>8. /\ \A u, v \in Task : carried'[u] = carried'[v] /\ carried'[u] # None => u = v
        /\ \A u \in Task : carried'[u] # None => tpc'[u] = "push"
    BY <1>3 DEF Links
  <1> QED
    BY <1>1, <1>6, <1>7, <1>8 DEF Links

LEMMA InterruptLinks ==
  ASSUME TypeInv, Links, NEW e \in Event, SignalByInterrupt(e)
  PROVE  Links'
  <1>1. UNCHANGED <<readyQ, arrivalQ, carried, tpc>>
    BY DEF SignalByInterrupt
  <1>2. CASE waiting[e] = <<>>
    BY <1>1, <1>2, LinksKept DEF SignalByInterrupt, Links
  <1>3. CASE waiting[e] # <<>>
    <2> DEFINE s == waiting[e][1]
    <2>1. EnqueueRescheduleQueue(s) /\ waiting' = [waiting EXCEPT ![e] = Tail(@)]
      BY <1>3 DEF SignalByInterrupt
    <2>2. /\ s \in Synchronous /\ EventOf[s] = e /\ InQueue(s, waiting[e])
          /\ \A f \in Event : NoDup(waiting'[f])
          /\ \A f \in Event : \A u : InQueue(u, waiting'[f]) <=>
                                   InQueue(u, waiting[f]) /\ (f = e => u # s)
      BY <1>3, <2>1, DequeueLinks
    <2>3. /\ ~Carries(s)
          /\ ~InQueue(s, readyQ) /\ ~InQueue(s, arrivalQ) /\ ~InQueue(s, reschedule)
      BY <2>2 DEF Links, Linked
    <2>4. /\ NoDup(reschedule')
          /\ \A u : InQueue(u, reschedule') <=> u = s \/ InQueue(u, reschedule)
      BY <2>1, <2>2, <2>3, PushLinks
    <2> HIDE DEF s
    <2>5. \A u \in Synchronous : Carries(u)' <=> Carries(u)
      BY <1>1 DEF Carries
    <2>6. ASSUME NEW u \in Synchronous
          PROVE  Linked(u)'
      <3>1. EventOf[u] \in Event
        BY KernelTypes
      <3>2. /\ InQueue(u, waiting'[EventOf[u]]) <=> InQueue(u, waiting[EventOf[u]]) /\ u # s
            /\ InQueue(u, reschedule') <=> u = s \/ InQueue(u, reschedule)
            /\ Carries(u)' <=> Carries(u)
        BY <3>1, <2>2, <2>4, <2>5
      <3> QED
        BY <3>2, <2>2, <2>3, <1>1 DEF Links, Linked
    <2> QED
      BY <2>2, <2>4, <2>6, <1>1 DEF Links
  <1> QED
    BY <1>2, <1>3

(* A periodic task stays in the arrival queue, further along.              *)
LEMMA NextArrivalLinks ==
  ASSUME TypeInv, Links, NEW t \in Periodic, arrivalQ # <<>>, t = arrivalQ[1],
         NextPeriodicArrival(t)
  PROVE  NoDup(arrivalQ') /\ \A s : InQueue(s, arrivalQ') <=> InQueue(s, arrivalQ)
  <1>1. arrivalQ \in Seq(Task) /\ NoDup(arrivalQ) /\ t \in Task
    BY KernelTypes DEF Links
  <1>2. /\ Tail(arrivalQ) \in Seq(Task) /\ NoDup(Tail(arrivalQ))
        /\ \A u : InQueue(u, Tail(arrivalQ)) <=> InQueue(u, arrivalQ) /\ u # t
    BY <1>1, TailOrder
  <1>3. InQueue(t, arrivalQ)
    BY <1>1, LenProperties, EmptySeq DEF InQueue
  <1>4. arrivalQ' = InsertQueue(t, Tail(arrivalQ), ArrivalQueueInsertTestKey(t, high', low'))
    BY DEF NextPeriodicArrival, ArrivalQueueInsert
  <1>5. /\ NoDup(arrivalQ')
        /\ \A u : InQueue(u, arrivalQ') <=> u = t \/ InQueue(u, Tail(arrivalQ))
    BY <1>1, <1>2, <1>4, InsertOrder
  <1> QED
    BY <1>2, <1>3, <1>5

(* An event-driven task enters the ready queue from another place.         *)
LEMMA EnterLinks ==
  ASSUME TypeInv, StackInv, Links, NEW s \in Synchronous, NEW base,
         ReleaseSynchronous(s, base), ~InQueue(s, readyQ)
  PROVE  \A u : InQueue(u, readyQ') <=> u = s \/ InQueue(u, readyQ)
  <1>1. readyQ \in Seq(Task) /\ NoDup(readyQ) /\ s \in Task
    BY KernelTypes DEF StackInv, Ready
  <1>2. readyQ' = InsertQueue(s, readyQ, ReadyQueueInsertTestKey(s, nextDeadline'))
    BY DEF ReleaseSynchronous, ReadyQueueInsert
  <1> QED
    BY <1>1, <1>2, InsertOrder

LEMMA ArriveLinks ==
  ASSUME TypeInv, StackInv, Links, NEW s \in Task, ArriveSynchronous(s)
  PROVE  Links'
  <1>1. /\ s \in Synchronous /\ ReleaseSynchronous(s, low[s]) /\ arrivalQ # <<>>
        /\ s = arrivalQ[1] /\ arrivalQ' = Tail(arrivalQ)
        /\ UNCHANGED <<reschedule, waiting, carried, tpc>>
    BY DEF ArriveSynchronous, Arrives
  <1>2. /\ NoDup(arrivalQ') /\ InQueue(s, arrivalQ)
        /\ \A u : InQueue(u, arrivalQ') <=> InQueue(u, arrivalQ) /\ u # s
    <2>1. arrivalQ \in Seq(Task) /\ NoDup(arrivalQ)
      BY KernelTypes DEF Links
    <2> QED
      BY <2>1, <1>1, TailOrder, LenProperties, EmptySeq DEF InQueue
  <1>3. /\ ~InQueue(s, readyQ) /\ ~InQueue(s, reschedule)
        /\ ~InQueue(s, waiting[EventOf[s]]) /\ ~Carries(s)
    BY <1>1, <1>2 DEF Links, Linked
  <1>4. \A u : InQueue(u, readyQ') <=> u = s \/ InQueue(u, readyQ)
    BY <1>1, <1>3, EnterLinks
  <1>5. ASSUME NEW u \in Synchronous
        PROVE  Linked(u)'
    <2>1. Carries(u)' <=> Carries(u)
      BY <1>1 DEF Carries
    <2>2. /\ InQueue(u, readyQ') <=> u = s \/ InQueue(u, readyQ)
          /\ InQueue(u, arrivalQ') <=> InQueue(u, arrivalQ) /\ u # s
      BY <1>2, <1>4
    <2> QED
      BY <2>1, <2>2, <1>1, <1>3 DEF Links, Linked
  <1> QED
    BY <1>1, <1>2, <1>5 DEF Links

(* The first task of the list to reschedule leaves it.                     *)
LEMMA ListLinks ==
  ASSUME TypeInv, Links, NEW s \in Synchronous, reschedule # <<>>, s = reschedule[1],
         reschedule' = Tail(reschedule)
  PROVE  /\ NoDup(reschedule') /\ InQueue(s, reschedule)
         /\ \A u : InQueue(u, reschedule') <=> InQueue(u, reschedule) /\ u # s
         /\ ~InQueue(s, readyQ) /\ ~InQueue(s, arrivalQ)
         /\ ~InQueue(s, waiting[EventOf[s]]) /\ ~Carries(s)
  <1>1. reschedule \in Seq(Synchronous) /\ NoDup(reschedule)
    BY KernelTypes DEF Links
  <1>2. InQueue(s, reschedule)
    BY <1>1, LenProperties, EmptySeq DEF InQueue
  <1> QED
    BY <1>1, <1>2, TailOrder DEF Links, Linked

LEMMA RescheduleLinks ==
  ASSUME TypeInv, StackInv, Links, NEW s \in Synchronous,
         RescheduleLater(s) \/ RescheduleNow(s)
  PROVE  Links'
  <1>1. /\ reschedule # <<>> /\ s = reschedule[1] /\ reschedule' = Tail(reschedule)
        /\ UNCHANGED <<waiting, carried, tpc>> /\ s \in Task
    BY KernelTypes DEF RescheduleLater, RescheduleNow
  <1>2. /\ NoDup(reschedule') /\ InQueue(s, reschedule)
        /\ \A u : InQueue(u, reschedule') <=> InQueue(u, reschedule) /\ u # s
        /\ ~InQueue(s, readyQ) /\ ~InQueue(s, arrivalQ)
        /\ ~InQueue(s, waiting[EventOf[s]]) /\ ~Carries(s)
    BY <1>1, ListLinks
  <1>3. \A u \in Synchronous : Carries(u)' <=> Carries(u)
    BY <1>1 DEF Carries
  <1>4. CASE RescheduleLater(s)
    <2>1. /\ readyQ' = readyQ
          /\ arrivalQ' = InsertQueue(s, arrivalQ, ArrivalQueueInsertTestKey(s, high, low'))
      BY <1>4 DEF RescheduleLater, ArrivalQueueInsert
    <2>2. arrivalQ \in Seq(Task) /\ NoDup(arrivalQ)
      BY KernelTypes DEF Links
    <2>3. /\ NoDup(arrivalQ')
          /\ \A u : InQueue(u, arrivalQ') <=> u = s \/ InQueue(u, arrivalQ)
      BY <1>1, <1>2, <2>1, <2>2, InsertOrder
    <2>4. ASSUME NEW u \in Synchronous
          PROVE  Linked(u)'
      <3>1. /\ InQueue(u, arrivalQ') <=> u = s \/ InQueue(u, arrivalQ)
            /\ InQueue(u, reschedule') <=> InQueue(u, reschedule) /\ u # s
            /\ Carries(u)' <=> Carries(u)
        BY <1>2, <1>3, <2>3
      <3> QED
        BY <3>1, <2>1, <1>1, <1>2 DEF Links, Linked
    <2> QED
      BY <2>3, <2>4, <1>1, <1>2 DEF Links
  <1>5. CASE RescheduleNow(s)
    <2>1. arrivalQ' = arrivalQ /\ ReleaseSynchronous(s, currentTime)
      BY <1>5 DEF RescheduleNow
    <2>2. \A u : InQueue(u, readyQ') <=> u = s \/ InQueue(u, readyQ)
      BY <1>2, <2>1, EnterLinks
    <2>3. ASSUME NEW u \in Synchronous
          PROVE  Linked(u)'
      <3>1. /\ InQueue(u, readyQ') <=> u = s \/ InQueue(u, readyQ)
            /\ InQueue(u, reschedule') <=> InQueue(u, reschedule) /\ u # s
            /\ Carries(u)' <=> Carries(u)
        BY <1>2, <1>3, <2>2
      <3> QED
        BY <3>1, <2>1, <1>1, <1>2 DEF Links, Linked
    <2> QED
      BY <2>1, <2>3, <1>1, <1>2 DEF Links
  <1> QED
    BY <1>4, <1>5

LEMMA SchedulerLinks ==
  ASSUME TypeInv, StackInv, Links, Scheduler
  PROVE  Links'
  <1>1. CASE SoftTimerInterrupt
    BY <1>1, UnlinkLinks
  <1>2. ASSUME NEW t \in Task, ReleasePeriodic(t) \/ Overrun(t)
        PROVE  Links'
    <2>1. /\ t \in Periodic /\ arrivalQ # <<>> /\ t = arrivalQ[1] /\ NextPeriodicArrival(t)
          /\ UNCHANGED <<reschedule, waiting, carried, tpc>>
      BY <1>2 DEF ReleasePeriodic, Overrun, Arrives
    <2>2. NoDup(arrivalQ') /\ \A s : InQueue(s, arrivalQ') <=> InQueue(s, arrivalQ)
      BY <2>1, NextArrivalLinks
    <2>3. \A s \in Synchronous : InQueue(s, readyQ') <=> InQueue(s, readyQ)
      <3>1. CASE Overrun(t)
        BY <3>1 DEF Overrun
      <3>2. CASE ReleasePeriodic(t)
        <4>1. /\ taskState[t] = "zombie" /\ soft = "arrivals"
              /\ readyQ' = InsertQueue(t, readyQ, ReadyQueueInsertTestKey(t, nextDeadline'))
          BY <3>2 DEF ReleasePeriodic, ReadyQueueInsert, Arrives, SoftAt
        <4>2. ~InQueue(t, readyQ)
          BY <4>1, NoneEnding DEF Quiet
        <4>3. \A s : InQueue(s, readyQ') <=> s = t \/ InQueue(s, readyQ)
          BY <4>1, <4>2, KernelTypes, InsertOrder DEF StackInv, Ready
        <4>4. \A s \in Synchronous : s # t
          BY <2>1, KernelTypes
        <4> QED
          BY <4>3, <4>4
      <3> QED
        BY <1>2, <3>1, <3>2
    <2> QED
      BY <2>1, <2>2, <2>3, LinksKept DEF Links
  <1>3. CASE \E s \in Task : ArriveSynchronous(s)
    BY <1>3, ArriveLinks
  <1>4. CASE \E s \in Synchronous : RescheduleLater(s) \/ RescheduleNow(s)
    BY <1>4, RescheduleLinks
  <1>5. CASE \/ TestOverflow \/ ClearComparatorFlag \/ ReadTime \/ ArrivalsDone
             \/ RescheduleDone \/ SetTimer \/ ClearSoftTimerInterrupt \/ Again \/ Leave
    <2>1. UNCHANGED <<reschedule, waiting, carried, tpc, readyQ, arrivalQ>>
      BY <1>5
      DEF TestOverflow, ClearComparatorFlag, ReadTime, ArrivalsDone, RescheduleDone,
          SetTimer, ClearSoftTimerInterrupt, Again, Leave
    <2> QED
      BY <2>1, LinksKept DEF Links
  <1> QED
    BY <1>1, <1>2, <1>3, <1>4, <1>5 DEF Scheduler

LEMMA LinksStep ==
  ASSUME TypeInv, StackInv, Links, [Next]_vars
  PROVE  Links'
  <1>1. CASE \/ IdleTask \/ Tick \/ ContextSwap \/ UNCHANGED vars
             \/ \E t \in Task : \/ EndTaskZombie(t) \/ EndTaskNoSave(t) \/ EndTaskElect(t)
                                \/ ScheduleTask(t)
    BY <1>1, StackLinks
  <1>2. CASE \E t \in Task : EndTaskUnlink(t)
    BY <1>2, UnlinkLinks
  <1>3. CASE \E t \in Task : SuspendSynchronousTask(t)
    BY <1>3, SuspendLinks
  <1>4. CASE \E t \in Task : (\E e \in Event : SignalDequeue(t, e)) \/ SignalPush(t)
    BY <1>4, SignalDequeueLinks, SignalPushLinks
  <1>5. CASE \E e \in Event : SignalByInterrupt(e)
    BY <1>5, InterruptLinks
  <1>6. CASE Scheduler
    BY <1>6, SchedulerLinks
  <1> QED
    BY <1>1, <1>2, <1>3, <1>4, <1>5, <1>6, StepCases

-----------------------------------------------------------------------------
(***************************************************************************)
(* The invariant.                                                          *)
(***************************************************************************)

LEMMA InitStack == Init => StackInv /\ Links
  <1> SUFFICES ASSUME Init
               PROVE  StackInv /\ Links
    OBVIOUS
  <1> USE DEF Init
  <1>1. TypeInv
    BY InitType
  <1>2. /\ \A t \in Task : taskState[t] = "zombie"
        /\ taskState[Idle] = "init" /\ \A t \in Place : ~Started(t)
    BY <1>1, KernelTypes DEF Started
  <1>3. ~Quiet
    BY DEF Quiet
  <1>4. Code
    BY <1>1, <1>2, KernelTypes DEF Code, Place
  <1>5. Ready /\ CodeRuns
    BY <1>2, <1>3 DEF Ready, CodeRuns, NoDup, InQueue
  <1>6. Switch
    BY DEF Switch, Top
  <1>7. ContextsMatch
    BY <1>2 DEF ContextsMatch, LiveContexts, InQueue
  <1>8. ASSUME NEW q \in Seq(Task),
               \A i, j \in DOMAIN q : i < j => LastCreated(q[i], q[j])
        PROVE  NoDup(q)
    <2>1. \A t \in Task : CreatedAt(t) \in Int
      <3>1. DOMAIN Created \subseteq Int
        BY LenProperties, TaskAssumption
      <3> QED
        BY <3>1, CreatedAssumption DEF CreatedAt
    <2>2. \A i, j \in DOMAIN q : i < j => q[i] # q[j]
      BY <1>8, <2>1 DEF LastCreated
    <2>3. DOMAIN q \subseteq Int
      BY LenProperties
    <2> QED
      BY <2>2, <2>3 DEF NoDup
  <1>9. \A e \in Event : NoDup(waiting[e])
    <2> SUFFICES ASSUME NEW e \in Event
                 PROVE  NoDup(waiting[e])
      OBVIOUS
    <2>1. PICK S \in SUBSET Synchronous : waiting[e] \in Arrangements(S, LastCreated)
      BY DEF FirstWaiting
    <2>2. /\ waiting[e] \in Seq(Synchronous)
          /\ \A i, j \in DOMAIN waiting[e] : i < j => LastCreated(waiting[e][i], waiting[e][j])
      BY <2>1, <1>1, KernelTypes DEF Arrangements
    <2>3. waiting[e] \in Seq(Task)
      BY <2>2, SeqMonotonic DEF Task
    <2> QED
      BY <2>2, <2>3, <1>8
  <1>10. NoDup(arrivalQ) /\ \A i \in DOMAIN arrivalQ : arrivalQ[i] \in Periodic
    <2> DEFINE Key(t) == IF Mode = "DM" THEN Deadline[t] ELSE 0
    <2>1. /\ arrivalQ \in UNION {[1 .. n -> Periodic] : n \in 0 .. Len(Created)}
          /\ \A i, j \in DOMAIN arrivalQ : i < j =>
               \/ Key(arrivalQ[i]) < Key(arrivalQ[j])
               \/ /\ Key(arrivalQ[i]) = Key(arrivalQ[j])
                  /\ LastCreated(arrivalQ[i], arrivalQ[j])
      BY DEF FirstArrivals, Arrangements
    <2> HIDE DEF Key
    <2>2. \A i \in DOMAIN arrivalQ : arrivalQ[i] \in Periodic /\ i \in Int
      <3>1. PICK n \in Nat : arrivalQ \in [1 .. n -> Periodic]
        BY <2>1, TaskAssumption, LenProperties
      <3> QED
        BY <3>1
    <2> USE DEF Key
    <2>3. \A t \in Periodic : Key(t) \in Int /\ CreatedAt(t) \in Int
      <3>1. DOMAIN Created \subseteq Int
        BY LenProperties, TaskAssumption
      <3> QED
        BY <3>1, CreatedAssumption, TimingAssumption DEF CreatedAt, Task
    <2> HIDE DEF Key
    <2>4. ASSUME NEW i \in DOMAIN arrivalQ, NEW j \in DOMAIN arrivalQ, i < j,
                 arrivalQ[i] = arrivalQ[j]
          PROVE  FALSE
      <3>1. PICK t \in Periodic : t = arrivalQ[i] /\ t = arrivalQ[j]
        BY <2>2, <2>4
      <3>2. Key(t) < Key(t) \/ LastCreated(t, t)
        BY <2>1, <2>4, <3>1
      <3> QED
        BY <2>3, <3>2 DEF LastCreated
    <2> QED
      BY <2>2, <2>4 DEF NoDup
  <1>11. \A e \in Event, s \in Synchronous : InQueue(s, waiting[e]) <=> EventOf[s] = e
    BY DEF FirstWaiting
  <1>12. ASSUME NEW s \in Synchronous
         PROVE  Linked(s)
    <2>1. ~InQueue(s, arrivalQ)
      BY <1>1, <1>10, KernelTypes DEF InQueue
    <2>2. ~InQueue(s, readyQ) /\ ~InQueue(s, reschedule) /\ ~Carries(s)
      BY <1>1, KernelTypes DEF InQueue, Carries
    <2>3. InQueue(s, waiting[EventOf[s]])
      BY <1>1, <1>11, KernelTypes
    <2> QED
      BY <2>1, <2>2, <2>3 DEF Linked
  <1>13. Links
    BY <1>9, <1>10, <1>11, <1>12 DEF Links, NoDup
  <1> QED
    BY <1>4, <1>5, <1>6, <1>7, <1>13 DEF StackInv

LEMMA KernelInit == Init => KernelInv
  BY InitClock, InitStack DEF KernelInv

LEMMA KernelStep ==
  ASSUME KernelInv, [Next]_vars
  PROVE  KernelInv'
  <1>1. ClockInv'
    BY ClockStep DEF KernelInv
  <1>2. StackInv'
    BY StackStep DEF KernelInv, ClockInv
  <1>3. Links'
    BY LinksStep DEF KernelInv, ClockInv
  <1> QED
    BY <1>1, <1>2, <1>3 DEF KernelInv

(* The single stack is used as one: whenever the switch restores a context *)
(* it finds on top that of the task elected, since the contexts kept are   *)
(* those of the started tasks, each once, in the order of the ready queue, *)
(* whatever ends, starts or is released while the switch is pending or     *)
(* under way.                                                              *)
THEOREM StackDiscipline == Spec => []ContextsMatch
  <1>1. KernelInv => ContextsMatch
    BY DEF KernelInv, StackInv
  <1> QED
    BY <1>1, KernelInit, KernelStep, PTL DEF Spec

LEMMA AtMostOnce ==
  ASSUME NEW t, NEW q, NoDup(q)
  PROVE  Occurrences(t, q) = IF InQueue(t, q) THEN 1 ELSE 0
  <1>1. CASE InQueue(t, q)
    <2>1. PICK i \in DOMAIN q : q[i] = t
      BY <1>1 DEF InQueue
    <2>2. {j \in DOMAIN q : q[j] = t} = {i}
      BY <2>1 DEF NoDup
    <2> QED
      BY <1>1, <2>2, FS_Singleton DEF Occurrences
  <1>2. CASE ~InQueue(t, q)
    <2>1. {j \in DOMAIN q : q[j] = t} = {}
      BY <1>2 DEF InQueue
    <2> QED
      BY <1>2, <2>1, FS_EmptySet DEF Occurrences
  <1> QED
    BY <1>1, <1>2

(* No TCB is lost and none is linked twice: an event-driven task is, once, *)
(* in the ready queue, the arrival queue, its event's queue, the list of   *)
(* tasks to reschedule or the hands of the one task that signals it; a     *)
(* periodic task stays in the arrival queue.                               *)
THEOREM OneLink == Spec => []OnePlace
  <1>1. ASSUME KernelInv
        PROVE  OnePlace
    <2>1. /\ TypeInv /\ AlwaysArriving /\ Code /\ Ready /\ Links
      BY <1>1 DEF KernelInv, ClockInv, StackInv
    <2>2. ASSUME NEW s \in Synchronous
          PROVE  /\ Occurrences(s, readyQ) + Occurrences(s, arrivalQ)
                    + Occurrences(s, waiting[EventOf[s]]) + Occurrences(s, reschedule)
                    + Cardinality({t \in Task : carried[t] = s}) = 1
                 /\ InQueue(s, readyQ) <=> taskState[s] # "zombie"
      <3>1. EventOf[s] \in Event /\ s \in Task /\ s # None
        BY <2>1, KernelTypes
      <3>2. Cardinality({t \in Task : carried[t] = s}) = IF Carries(s) THEN 1 ELSE 0
        <4>1. CASE Carries(s)
          <5>1. PICK t \in Task : carried[t] = s
            BY <4>1 DEF Carries
          <5>2. {u \in Task : carried[u] = s} = {t}
            BY <5>1, <3>1, <2>1 DEF Links
          <5> QED
            BY <4>1, <5>2, FS_Singleton
        <4>2. CASE ~Carries(s)
          <5>1. {u \in Task : carried[u] = s} = {}
            BY <4>2 DEF Carries
          <5> QED
            BY <4>2, <5>1, FS_EmptySet
        <4> QED
          BY <4>1, <4>2
      <3>3. /\ Occurrences(s, readyQ) = IF InQueue(s, readyQ) THEN 1 ELSE 0
            /\ Occurrences(s, arrivalQ) = IF InQueue(s, arrivalQ) THEN 1 ELSE 0
            /\ Occurrences(s, waiting[EventOf[s]])
                 = IF InQueue(s, waiting[EventOf[s]]) THEN 1 ELSE 0
            /\ Occurrences(s, reschedule) = IF InQueue(s, reschedule) THEN 1 ELSE 0
        BY <2>1, <3>1, AtMostOnce DEF Ready, Links
      <3>4. InQueue(s, readyQ) <=> taskState[s] # "zombie"
        BY <2>1, <3>1 DEF Ready, Ending, Code
      <3>5. Linked(s)
        BY <2>1 DEF Links
      <3> QED
        BY <3>2, <3>3, <3>4, <3>5 DEF Linked
    <2>3. ASSUME NEW t \in Periodic
          PROVE  /\ Occurrences(t, arrivalQ) = 1 /\ Occurrences(t, readyQ) <= 1
                 /\ taskState[t] # "zombie" => InQueue(t, readyQ)
                 /\ InQueue(t, readyQ) => taskState[t] # "zombie" \/ Unlinking(t)
      <3>1. t \in Task /\ InQueue(t, arrivalQ)
        BY <2>1, KernelTypes DEF AlwaysArriving
      <3>2. Occurrences(t, arrivalQ) = 1 /\ Occurrences(t, readyQ) \in {0, 1}
        BY <2>1, <3>1, AtMostOnce DEF Ready, Links
      <3> QED
        BY <2>1, <3>1, <3>2 DEF Ready, Ending, Unlinking
    <2> QED
      BY <2>2, <2>3 DEF OnePlace
  <1> QED
    BY <1>1, KernelInit, KernelStep, PTL DEF Spec

(***************************************************************************)
(* The order of the ready queue.                                           *)
(***************************************************************************)

(* The order that the code's own numbers put two tasks of the ready queue  *)
(* in.  Under EDF a deadline already past may come after a later one: its  *)
(* task was released late, or a turn of the clock made the deadline of an  *)
(* event-driven task zero.                                                 *)
Ordered(t, u) ==
  IF Mode = "DM" THEN HasPriority(t, u)
  ELSE nextDeadline[u] <= now + Unmoved \/ nextDeadline[t] <= nextDeadline[u]

Sorted ==
  \A t, u \in Task :
    Before(t, u, readyQ) /\ taskState[t] # "zombie" => Ordered(t, u)

OrderInv == KernelInv /\ DeadlinesAgree /\ Sorted

LEMMA OrderTypes ==
  ASSUME TypeInv
  PROVE  /\ nextDeadline \in [Task -> Int] /\ left \in [Periodic -> Int]
         /\ now \in Nat /\ overflowFlag \in BOOLEAN /\ currentTime \in Nat
         /\ ShiftTimeLimit \in Nat \ {0} /\ Mode \in {"EDF", "DM"}
         /\ Unmoved \in Nat
  BY TimingAssumption, TaskAssumption DEF TypeInv, TypeOK, Unmoved

(* What DeadlinesAgree says of one task.                                   *)
LEMMA DeadlineUnfolded ==
  ASSUME DeadlinesAgree, Mode = "EDF", NEW t \in Periodic, taskState[t] # "zombie"
  PROVE  nextDeadline[t] - now - Unmoved = left[t]
  BY DEF DeadlinesAgree, TrueTime

-----------------------------------------------------------------------------
(***************************************************************************)
(* The priorities of the tasks under DM are a strict total order.          *)
(***************************************************************************)

LEMMA Priorities ==
  /\ \A t, u \in Task : t # u => HasPriority(t, u) \/ HasPriority(u, t)
  /\ \A t, u, v \in Task : HasPriority(t, u) /\ HasPriority(u, v) => HasPriority(t, v)
  <1>1. \A t \in Task : Term(t) \in Int
    BY TimingAssumption DEF Term, Task
  <1>2. \A t \in Task : CreatedAt(t) \in Int /\ Created[CreatedAt(t)] = t
    <2>1. DOMAIN Created \subseteq Int
      BY LenProperties, TaskAssumption
    <2> QED
      BY <2>1, CreatedAssumption DEF CreatedAt
  <1>3. ASSUME NEW t \in Task, NEW u \in Task, t # u
        PROVE  HasPriority(t, u) \/ HasPriority(u, t)
    <2>1. CreatedAt(t) # CreatedAt(u)
      BY <1>2, <1>3
    <2> QED
      BY <1>1, <1>2, <2>1 DEF HasPriority
  <1>4. ASSUME NEW t \in Task, NEW u \in Task, NEW v \in Task,
               HasPriority(t, u), HasPriority(u, v)
        PROVE  HasPriority(t, v)
    <2>1. /\ Term(t) \in Int /\ Term(u) \in Int /\ Term(v) \in Int
          /\ CreatedAt(t) \in Int /\ CreatedAt(u) \in Int /\ CreatedAt(v) \in Int
      BY <1>1, <1>2
    <2> QED
      BY <1>4, <2>1 DEF HasPriority
  <1> QED
    BY <1>3, <1>4

-----------------------------------------------------------------------------
(***************************************************************************)
(* Where InsertQueue puts a task.                                          *)
(***************************************************************************)

(* The tasks after it are those it precedes and what came after them; the  *)
(* tasks before it are not among those it precedes.                        *)
LEMMA InsertAmong ==
  ASSUME NEW t \in Task, NEW q \in Seq(Task), NEW precedes,
         NoDup(q), ~InQueue(t, q),
         NEW r, r = InsertQueue(t, q, precedes)
  PROVE  /\ \A u \in Task : Before(t, u, r) =>
              /\ InQueue(u, q)
              /\ precedes[u] \/ \E v \in Task : precedes[v] /\ Before(v, u, q)
         /\ \A u \in Task : Before(u, t, r) => InQueue(u, q) /\ ~precedes[u]
  <1>0. Len(q) \in Nat /\ DOMAIN q = 1 .. Len(q) /\ q \in [1 .. Len(q) -> Task]
    BY LenProperties
  <1>a. PICK n \in 1 .. Len(q) + 1 : r \in Seq(Task) /\ PutAt(n, r, t, q, precedes)
    BY InsertQueuePlaces
  <1>1. /\ r \in Seq(Task) /\ Len(r) = Len(q) + 1
        /\ \A i \in 1 .. n - 1 : r[i] = q[i]
        /\ r[n] = t
        /\ \A i \in n + 1 .. Len(q) + 1 : r[i] = q[i - 1]
        /\ n = Len(q) + 1 \/ precedes[q[n]]
        /\ \A i \in 1 .. n - 1 : ~precedes[q[i]]
    BY <1>a DEF PutAt
  <1>2. DOMAIN r = 1 .. Len(q) + 1
    BY <1>0, <1>1, LenProperties
  <1>3. \A i \in 1 .. Len(q) : q[i] # t
    BY <1>0 DEF InQueue
  <1>4. \A i \in DOMAIN r : r[i] = t => i = n
    <2> SUFFICES ASSUME NEW i \in 1 .. Len(q) + 1, r[i] = t, i # n
                 PROVE  FALSE
      BY <1>2
    <2>1. CASE i < n
      BY <2>1, <1>0, <1>1, <1>3
    <2>2. CASE i > n
      <3>1. i - 1 \in 1 .. Len(q) /\ r[i] = q[i - 1]
        BY <2>2, <1>0, <1>1
      <3> QED
        BY <3>1, <1>3
    <2> QED
      BY <2>1, <2>2, <1>0, <1>1
  <1>5. ASSUME NEW u \in Task, Before(t, u, r)
        PROVE  /\ InQueue(u, q)
               /\ precedes[u] \/ \E v \in Task : precedes[v] /\ Before(v, u, q)
    <2>1. u # Idle
      BY TaskAssumption
    <2>2. PICK k \in 1 .. Len(q) + 1 : n < k /\ r[k] = u
      BY <1>2, <1>4, <1>5, <2>1 DEF Before
    <2>3. k - 1 \in 1 .. Len(q) /\ q[k - 1] = u
      BY <2>2, <1>0, <1>1
    <2>4. n \in 1 .. Len(q) /\ q[n] \in Task /\ precedes[q[n]]
      BY <2>2, <1>0, <1>1
    <2>5. k - 1 = n \/ n < k - 1
      BY <2>2, <1>0, <1>1
    <2>6. InQueue(u, q)
      BY <2>3, <1>0 DEF InQueue
    <2>7. n < k - 1 => Before(q[n], u, q)
      BY <2>3, <2>4, <1>0 DEF Before
    <2> QED
      BY <2>3, <2>4, <2>5, <2>6, <2>7
  <1>6. ASSUME NEW u \in Task, Before(u, t, r)
        PROVE  InQueue(u, q) /\ ~precedes[u]
    <2>1. t # Idle
      BY TaskAssumption
    <2>2. PICK i \in 1 .. Len(q) + 1 : r[i] = u /\ i < n
      BY <1>2, <1>4, <1>6, <2>1 DEF Before
    <2>3. i \in 1 .. Len(q) /\ i \in 1 .. n - 1
      BY <2>2, <1>0, <1>1
    <2> QED
      BY <2>2, <2>3, <1>0, <1>1 DEF InQueue
  <1> QED
    BY <1>5, <1>6

-----------------------------------------------------------------------------
(***************************************************************************)
(* The steps.                                                              *)
(***************************************************************************)

(* A step that leaves the deadlines and the clock, makes no zombie ready   *)
(* and changes no order in the ready queue.                                *)
LEMMA OrderFrame ==
  ASSUME DeadlinesAgree, Sorted,
         UNCHANGED <<nextDeadline, left, now, overflowFlag>>,
         \A t \in Task : taskState'[t] # "zombie" => taskState[t] # "zombie",
         \A t, u \in Task : Before(t, u, readyQ') => Before(t, u, readyQ)
  PROVE  DeadlinesAgree' /\ Sorted'
  <1>1. Unmoved' = Unmoved
    BY DEF Unmoved
  <1>2. DeadlinesAgree'
    <2> SUFFICES ASSUME Mode = "EDF", NEW t \in Periodic, taskState'[t] # "zombie"
                 PROVE  nextDeadline'[t] - now' - Unmoved' = left'[t]
      BY DEF DeadlinesAgree, TrueTime
    <2>1. t \in Task
      BY DEF Task
    <2> QED
      BY <1>1, <2>1, DeadlineUnfolded
  <1>3. \A t, u \in Task : Ordered(t, u)' <=> Ordered(t, u)
    BY <1>1 DEF Ordered
  <1>4. Sorted'
    BY <1>3 DEF Sorted
  <1> QED
    BY <1>2, <1>4

(* A tick takes the clock and the true deadlines on together.              *)
LEMMA TickOrder ==
  ASSUME TypeInv, DeadlinesAgree, Sorted, Tick
  PROVE  DeadlinesAgree' /\ Sorted'
  <1>1. now' + Unmoved' = now + Unmoved + 1
    BY TickTime
  <1>2. /\ nextDeadline \in [Task -> Int] /\ left \in [Periodic -> Int]
        /\ now \in Int /\ Unmoved \in Int /\ now' \in Int /\ Unmoved' \in Int
        /\ Periodic \subseteq Task
    BY OrderTypes DEF Unmoved, Tick, Task
  <1>3. UNCHANGED <<nextDeadline, taskState, readyQ>>
    BY DEF Tick
  <1>4. ASSUME Mode = "EDF", NEW t \in Periodic, taskState'[t] # "zombie"
        PROVE  nextDeadline'[t] - now' - Unmoved' = left'[t]
    <2>1. nextDeadline[t] - now - Unmoved = left[t]
      BY <1>3, <1>4, DeadlineUnfolded
    <2>2. left'[t] = left[t] - 1 /\ nextDeadline'[t] = nextDeadline[t]
      BY <1>3, <1>4 DEF Tick
    <2>3. nextDeadline[t] \in Int /\ left[t] \in Int
      BY <1>2
    <2> DEFINE n == now
               n1 == now'
               u == Unmoved
               u1 == Unmoved'
    <2>4. /\ nextDeadline[t] - n - u = left[t] /\ n1 + u1 = n + u + 1
          /\ n \in Int /\ n1 \in Int /\ u \in Int /\ u1 \in Int
      BY <1>1, <1>2, <2>1
    <2> HIDE DEF n, n1, u, u1
    <2>5. nextDeadline'[t] - n1 - u1 = left'[t]
      BY <2>2, <2>3, <2>4
    <2> QED
      BY <2>5 DEF n1, u1
  <1>5. DeadlinesAgree'
    BY <1>4 DEF DeadlinesAgree, TrueTime
  <1>6. ASSUME NEW t \in Task, NEW u \in Task, Ordered(t, u)
        PROVE  Ordered(t, u)'
    <2> DEFINE c == now + Unmoved
               c1 == now' + Unmoved'
    <2>1. c1 = c + 1
      BY <1>1
    <2>2. c \in Int
      BY <1>2
    <2>3. nextDeadline[u] \in Int /\ nextDeadline'[u] = nextDeadline[u]
      BY <1>2, <1>3
    <2> HIDE DEF c, c1
    <2>4. nextDeadline[u] <= c => nextDeadline'[u] <= c1
      BY <2>1, <2>2, <2>3
    <2> QED
      BY <1>3, <1>6, <2>4 DEF Ordered, c, c1
  <1>7. Sorted'
    BY <1>3, <1>6 DEF Sorted
  <1> QED
    BY <1>5, <1>7

(* The deadlines moved back by a turn keep their order, but for those past,*)
(* and agree with the clock, which has gone back with them.  A periodic    *)
(* task whose deadline counts is in the ready queue, which is where the    *)
(* code looks for the deadlines to move.                                   *)
LEMMA ShiftOrder ==
  ASSUME TypeInv, StackInv, DeadlinesAgree, Sorted, TestOverflow
  PROVE  DeadlinesAgree' /\ Sorted'
  <1>0. /\ nextDeadline \in [Task -> Int] /\ now \in Nat /\ ShiftTimeLimit \in Nat
        /\ Periodic \subseteq Task /\ Periodic \cap Synchronous = {}
        /\ Mode \in {"EDF", "DM"}
    BY OrderTypes, KernelTypes
  <1>1. UNCHANGED <<taskState, readyQ, now, left>> /\ ~overflowFlag' /\ Unmoved' = 0
    BY DEF TestOverflow, Unmoved
  <1>2. CASE ~overflowFlag
    <2>1. UNCHANGED <<nextDeadline, left, now, overflowFlag>>
      BY <1>1, <1>2, OrderTypes, Zenon DEF TestOverflow
    <2> QED
      BY <1>1, <2>1, OrderFrame
  <1>3. CASE overflowFlag /\ Mode = "DM"
    <2>1. \A t, u \in Task : Ordered(t, u)' <=> Ordered(t, u)
      BY <1>3 DEF Ordered
    <2> QED
      BY <2>1, <1>1, <1>3 DEF DeadlinesAgree, Sorted
  <1>4. CASE overflowFlag /\ Mode = "EDF"
    <2>0. Unmoved = ShiftTimeLimit
      BY <1>4 DEF Unmoved
    <2>1. \A t \in Task : InQueue(t, readyQ) =>
            nextDeadline'[t] = IF t \in Synchronous THEN SubOrZeroIfNeg(nextDeadline[t])
                               ELSE nextDeadline[t] - ShiftTimeLimit
      BY <1>4 DEF TestOverflow, ShiftTimes
    <2>2. ASSUME NEW t \in Periodic, taskState'[t] # "zombie"
          PROVE  nextDeadline'[t] - now' - Unmoved' = left'[t]
      <3>1. t \in Task /\ t \notin Synchronous /\ InQueue(t, readyQ)
        BY <1>0, <1>1, <2>2 DEF StackInv, Ready
      <3>2. nextDeadline'[t] = nextDeadline[t] - ShiftTimeLimit
        BY <2>1, <3>1
      <3>3. nextDeadline[t] - now - ShiftTimeLimit = left[t]
        BY <1>1, <1>4, <2>0, <2>2, DeadlineUnfolded
      <3>4. nextDeadline[t] \in Int
        BY <1>0, <3>1
      <3> QED
        BY <1>0, <1>1, <3>2, <3>3, <3>4
    <2>3. DeadlinesAgree'
      BY <2>2 DEF DeadlinesAgree, TrueTime
    <2>4. ASSUME NEW t \in Task, NEW u \in Task, Ordered(t, u),
                 InQueue(t, readyQ), InQueue(u, readyQ)
          PROVE  Ordered(t, u)'
      <3>1. /\ nextDeadline[u] <= now + ShiftTimeLimit \/ nextDeadline[t] <= nextDeadline[u]
            /\ nextDeadline[t] \in Int /\ nextDeadline[u] \in Int
        BY <1>0, <1>4, <2>0, <2>4 DEF Ordered
      <3>2. nextDeadline'[u] <= now \/ nextDeadline'[t] <= nextDeadline'[u]
        BY <1>0, <2>1, <2>4, <3>1 DEF SubOrZeroIfNeg
      <3>3. nextDeadline'[u] <= now' + Unmoved' \/ nextDeadline'[t] <= nextDeadline'[u]
        BY <1>0, <1>1, <3>2
      <3> QED
        BY <1>4, <3>3 DEF Ordered
    <2>5. \A t, u \in Task : Before(t, u, readyQ) => InQueue(t, readyQ) /\ InQueue(u, readyQ)
      BY TaskAssumption DEF Before, InQueue
    <2>6. Sorted'
      BY <1>1, <2>4, <2>5 DEF Sorted
    <2> QED
      BY <2>3, <2>6
  <1> QED
    BY <1>0, <1>2, <1>3, <1>4

(* A task released goes among those of the ready queue where its deadline  *)
(* or its priority sends it.                                               *)
LEMMA ReleaseOrder ==
  ASSUME TypeInv, TypeInv', StackInv, DeadlinesAgree, Sorted, soft # "out",
         NEW t \in Task, ~InQueue(t, readyQ),
         taskState' = [taskState EXCEPT ![t] = "init"],
         readyQ' = ReadyQueueInsert(t, nextDeadline'),
         \A u \in Task : u # t => nextDeadline'[u] = nextDeadline[u],
         \A u \in Periodic : u # t => left'[u] = left[u],
         Mode = "EDF" /\ t \in Periodic => nextDeadline'[t] - now - Unmoved = left'[t],
         UNCHANGED <<now, overflowFlag>>
  PROVE  DeadlinesAgree' /\ Sorted'
  <1>1. Unmoved' = Unmoved
    BY DEF Unmoved
  <1>2. ~Quiet
    BY DEF Quiet
  <1>3. /\ readyQ \in Seq(Task) /\ NoDup(readyQ) /\ Periodic \subseteq Task
        /\ \A u \in Task : InQueue(u, readyQ) <=> taskState[u] # "zombie"
        /\ \A u \in Task : taskState'[u] = IF u = t THEN "init" ELSE taskState[u]
    BY <1>2, KernelTypes, NoneEnding DEF StackInv, Ready
  <1>4. DeadlinesAgree'
    <2> SUFFICES ASSUME Mode = "EDF", NEW u \in Periodic, taskState'[u] # "zombie"
                 PROVE  nextDeadline'[u] - now' - Unmoved' = left'[u]
      BY DEF DeadlinesAgree, TrueTime
    <2>1. CASE u = t
      BY <2>1, <1>1
    <2>2. CASE u # t
      <3>1. taskState[u] # "zombie" /\ u \in Task
        BY <1>3, <2>2
      <3>2. nextDeadline[u] - now - Unmoved = left[u]
        BY <3>1, DeadlineUnfolded
      <3> QED
        BY <2>2, <3>1, <3>2, <1>1
    <2> QED
      BY <2>1, <2>2
  <1> DEFINE precedes == ReadyQueueInsertTestKey(t, nextDeadline')
             c == now + Unmoved
  <1>5. \A u \in Task : precedes[u] <=> IF Mode = "EDF"
                                        THEN nextDeadline'[t] <= nextDeadline'[u]
                                        ELSE HasPriority(t, u)
    BY DEF ReadyQueueInsertTestKey
  <1>6. readyQ' = InsertQueue(t, readyQ, precedes)
    BY DEF ReadyQueueInsert
  <1> HIDE DEF precedes
  <1>7. /\ \A u \in Task : Before(t, u, readyQ') =>
             /\ InQueue(u, readyQ)
             /\ precedes[u] \/ \E v \in Task : precedes[v] /\ Before(v, u, readyQ)
        /\ \A u \in Task : Before(u, t, readyQ') => InQueue(u, readyQ) /\ ~precedes[u]
    BY <1>3, <1>6, InsertAmong
  <1>8. \A u, v : u # t /\ v # t => (Before(u, v, readyQ') <=> Before(u, v, readyQ))
    BY <1>3, <1>6, InsertOrder
  <1>9. \A u, v \in Task : Before(u, v, readyQ) => InQueue(u, readyQ) /\ InQueue(v, readyQ)
    BY TaskAssumption DEF Before, InQueue
  <1>10. \A u, v \in Task : Ordered(u, v)' <=>
           IF Mode = "DM" THEN HasPriority(u, v)
           ELSE nextDeadline'[v] <= c \/ nextDeadline'[u] <= nextDeadline'[v]
    BY <1>1 DEF Ordered
  <1>11. \A u, v \in Task : Ordered(u, v) <=>
           IF Mode = "DM" THEN HasPriority(u, v)
           ELSE nextDeadline[v] <= c \/ nextDeadline[u] <= nextDeadline[v]
    BY DEF Ordered
  <1>12. \A u \in Task : nextDeadline'[u] \in Int
    BY DEF TypeInv, TypeOK
  <1>13. c \in Int /\ Mode \in {"EDF", "DM"}
    BY OrderTypes
  <1> HIDE DEF c
  <1>14. ASSUME NEW u \in Task, Before(t, u, readyQ')
         PROVE  Ordered(t, u)'
    <2>1. InQueue(u, readyQ) /\ u # t
      BY <1>7, <1>14
    <2>2. CASE precedes[u]
      BY <2>2, <1>5, <1>10, <1>13
    <2>3. ASSUME NEW v \in Task, precedes[v], Before(v, u, readyQ)
          PROVE  Ordered(t, u)'
      <3>1. Ordered(v, u) /\ InQueue(v, readyQ) /\ v # t
        BY <2>3, <1>3, <1>9 DEF Sorted
      <3>2. nextDeadline'[v] = nextDeadline[v] /\ nextDeadline'[u] = nextDeadline[u]
        BY <2>1, <3>1
      <3>3. CASE Mode = "DM"
        BY <2>3, <3>1, <3>3, <1>5, <1>10, <1>11, Priorities
      <3>4. CASE Mode = "EDF"
        <4>1. nextDeadline'[t] <= nextDeadline'[v]
          BY <2>3, <3>4, <1>5
        <4>2. nextDeadline'[u] <= c \/ nextDeadline'[v] <= nextDeadline'[u]
          BY <3>1, <3>2, <3>4, <1>11
        <4>3. nextDeadline'[u] <= c \/ nextDeadline'[t] <= nextDeadline'[u]
          BY <4>1, <4>2, <1>12
        <4> QED
          BY <3>4, <4>3, <1>10
      <3> QED
        BY <3>3, <3>4, <1>13
    <2> QED
      BY <2>2, <2>3, <1>7, <1>14
  <1>15. ASSUME NEW u \in Task, Before(u, t, readyQ')
         PROVE  Ordered(u, t)'
    <2>1. ~precedes[u] /\ InQueue(u, readyQ) /\ u # t
      BY <1>7, <1>15
    <2>2. CASE Mode = "DM"
      BY <2>1, <2>2, <1>5, <1>10, Priorities
    <2>3. CASE Mode = "EDF"
      <3>1. ~(nextDeadline'[t] <= nextDeadline'[u])
        BY <2>1, <2>3, <1>5
      <3>2. nextDeadline'[u] <= nextDeadline'[t]
        BY <3>1, <1>12
      <3> QED
        BY <2>3, <3>2, <1>10
    <2> QED
      BY <2>2, <2>3, <1>13
  <1>16. ASSUME NEW u \in Task, NEW v \in Task, u # t, v # t, Before(u, v, readyQ')
         PROVE  Ordered(u, v)'
    <2>1. Before(u, v, readyQ) /\ taskState[u] # "zombie"
      BY <1>16, <1>3, <1>8, <1>9
    <2>2. Ordered(u, v)
      BY <2>1 DEF Sorted
    <2>3. nextDeadline'[v] = nextDeadline[v] /\ nextDeadline'[u] = nextDeadline[u]
      BY <1>16
    <2> QED
      BY <2>2, <2>3, <1>10, <1>11
  <1>17. Sorted'
    BY <1>14, <1>15, <1>16 DEF Sorted
  <1> QED
    BY <1>4, <1>17

LEMMA SchedulerOrder ==
  ASSUME OrderInv, TypeInv', Scheduler
  PROVE  DeadlinesAgree' /\ Sorted'
  <1>0. /\ TypeInv /\ StackInv /\ Links /\ ClockInv /\ DeadlinesAgree /\ Sorted
        /\ taskState \in [Task \cup {Idle} -> {"init", "running", "zombie"}]
        /\ readyQ \in Seq(Task) /\ arrivalQ \in Seq(Task)
        /\ reschedule \in Seq(Synchronous) /\ Synchronous \subseteq Task
        /\ nextDeadline \in [Task -> Int] /\ left \in [Periodic -> Int]
        /\ Periodic \cap Synchronous = {}
    BY KernelTypes, OrderTypes DEF OrderInv, KernelInv, ClockInv
  <1>1. CASE SoftTimerInterrupt
    <2>1. \/ readyQ' = readyQ
          \/ readyQ # <<>> /\ readyQ' = Tail(readyQ)
      BY <1>0, <1>1, SoftEnterStack
    <2>2. \A t, u \in Task : Before(t, u, readyQ') => Before(t, u, readyQ)
      <3>1. NoDup(readyQ)
        BY <1>0 DEF StackInv, Ready
      <3>2. CASE readyQ' = readyQ
        BY <3>2
      <3>3. CASE readyQ # <<>> /\ readyQ' = Tail(readyQ)
        BY <1>0, <3>1, <3>3, TailOrder
      <3> QED
        BY <2>1, <3>2, <3>3
    <2>3. UNCHANGED <<taskState, nextDeadline, left, now, overflowFlag>>
      BY <1>1 DEF SoftTimerInterrupt
    <2> QED
      BY <1>0, <2>2, <2>3, OrderFrame
  <1>2. CASE TestOverflow
    BY <1>0, <1>2, ShiftOrder
  <1>3. ASSUME NEW t \in Task, ReleasePeriodic(t)
        PROVE  DeadlinesAgree' /\ Sorted'
    <2>1. /\ t \in Periodic /\ soft = "arrivals" /\ taskState[t] = "zombie"
          /\ HasArrived(t)
          /\ taskState' = [taskState EXCEPT ![t] = "init"]
          /\ readyQ' = ReadyQueueInsert(t, nextDeadline')
          /\ nextDeadline' = IF Mode = "DM" THEN nextDeadline
                             ELSE [nextDeadline EXCEPT ![t] = low[t] + Deadline[t]]
          /\ left' = [left EXCEPT ![t] = due[t] + Deadline[t]]
          /\ UNCHANGED <<now, overflowFlag>>
      BY <1>3 DEF ReleasePeriodic, Arrives, SoftAt
    <2>2. ~InQueue(t, readyQ)
      BY <1>0, <2>1, NoneEnding DEF Quiet
    <2>3. Mode = "EDF" => nextDeadline'[t] - now - Unmoved = left'[t]
      <3> SUFFICES ASSUME Mode = "EDF"
                   PROVE  nextDeadline'[t] - now - Unmoved = left'[t]
        OBVIOUS
      <3>1. high[t] * ShiftTimeLimit = 0
        <4>1. high[t] = 0 /\ ShiftTimeLimit \in Int
          BY <2>1, <1>0, ClockTypes DEF HasArrived
        <4> QED
          BY <4>1
      <3>2. (high[t] * ShiftTimeLimit + low[t]) - now - Unmoved = due[t]
        BY <1>0, <2>1, AgreeUnfolded
      <3>3. /\ nextDeadline'[t] = low[t] + Deadline[t]
            /\ left'[t] = due[t] + Deadline[t]
        BY <1>0, <2>1
      <3>4. /\ low[t] \in Int /\ due[t] \in Int /\ Deadline[t] \in Int
            /\ now \in Int /\ Unmoved \in Int
        BY <1>0, <2>1, ClockTypes, OrderTypes, TimingAssumption
      <3> DEFINE m == Unmoved
      <3>5. (0 + low[t]) - now - m = due[t] /\ m \in Int
        BY <3>1, <3>2, <3>4
      <3> HIDE DEF m
      <3>6. nextDeadline'[t] - now - m = left'[t]
        BY <3>3, <3>4, <3>5
      <3> QED
        BY <3>6 DEF m
    <2>4. \A u \in Task : u # t => nextDeadline'[u] = nextDeadline[u]
      BY <1>0, <2>1
    <2>5. \A u \in Periodic : u # t => left'[u] = left[u]
      BY <1>0, <2>1
    <2>6. soft # "out" /\ StackInv /\ TypeInv /\ DeadlinesAgree /\ Sorted
      BY <1>0, <2>1
    <2> QED
      BY <2>1, <2>2, <2>3, <2>4, <2>5, <2>6, ReleaseOrder
  <1>4. ASSUME NEW s \in Synchronous, NEW base, ReleaseSynchronous(s, base),
               ~InQueue(s, readyQ), soft # "out",
               UNCHANGED <<now, overflowFlag, left>>
        PROVE  DeadlinesAgree' /\ Sorted'
    <2>1. /\ s \in Task /\ s \notin Periodic
          /\ taskState' = [taskState EXCEPT ![s] = "init"]
          /\ readyQ' = ReadyQueueInsert(s, nextDeadline')
          /\ \/ nextDeadline' = [nextDeadline EXCEPT ![s] = serverDeadline']
             \/ nextDeadline' = nextDeadline
      BY <1>0, <1>4 DEF ReleaseSynchronous
    <2>2. \A u \in Task : u # s => nextDeadline'[u] = nextDeadline[u]
      BY <1>0, <2>1
    <2>3. StackInv /\ TypeInv /\ DeadlinesAgree /\ Sorted
      BY <1>0
    <2> QED
      BY <2>1, <2>2, <2>3, <1>4, ReleaseOrder
  <1>5. ASSUME NEW s \in Task, ArriveSynchronous(s)
        PROVE  DeadlinesAgree' /\ Sorted'
    <2>1. /\ s \in Synchronous /\ ReleaseSynchronous(s, low[s]) /\ soft = "arrivals"
          /\ arrivalQ # <<>> /\ s = arrivalQ[1] /\ UNCHANGED <<now, overflowFlag, left>>
      BY <1>5 DEF ArriveSynchronous, Arrives, SoftAt
    <2>2. InQueue(s, arrivalQ)
      BY <1>0, <2>1, LenProperties, EmptySeq DEF InQueue
    <2>3. ~InQueue(s, readyQ)
      BY <1>0, <2>1, <2>2 DEF Links, Linked
    <2> QED
      BY <2>1, <2>3, <1>4
  <1>6. ASSUME NEW s \in Synchronous, RescheduleNow(s)
        PROVE  DeadlinesAgree' /\ Sorted'
    <2>1. /\ ReleaseSynchronous(s, currentTime) /\ soft = "reschedule"
          /\ reschedule # <<>> /\ s = reschedule[1]
          /\ UNCHANGED <<now, overflowFlag, left>>
      BY <1>6 DEF RescheduleNow, SoftAt
    <2>2. InQueue(s, reschedule)
      BY <1>0, <2>1, LenProperties, EmptySeq DEF InQueue
    <2>3. ~InQueue(s, readyQ)
      BY <1>0, <2>2 DEF Links, Linked
    <2> QED
      BY <2>1, <2>3, <1>4
  <1>7. ASSUME \/ ClearComparatorFlag \/ ReadTime \/ ArrivalsDone
               \/ \E t \in Task : Overrun(t)
               \/ \E s \in Synchronous : RescheduleLater(s)
               \/ RescheduleDone \/ SetTimer \/ ClearSoftTimerInterrupt \/ Again \/ Leave
        PROVE  DeadlinesAgree' /\ Sorted'
    <2>1. UNCHANGED <<taskState, readyQ, nextDeadline, left, now, overflowFlag>>
      BY <1>7
      DEF ClearComparatorFlag, ReadTime, ArrivalsDone, Overrun, RescheduleLater,
          RescheduleDone, SetTimer, ClearSoftTimerInterrupt, Again, Leave
    <2> QED
      BY <1>0, <2>1, OrderFrame
  <1> QED
    BY <1>1, <1>2, <1>3, <1>5, <1>6, <1>7 DEF Scheduler

LEMMA OrderStep ==
  ASSUME OrderInv, [Next]_vars
  PROVE  OrderInv'
  <1>0. /\ KernelInv /\ TypeInv /\ StackInv /\ IdleOnce /\ DeadlinesAgree /\ Sorted
        /\ taskState \in [Task \cup {Idle} -> {"init", "running", "zombie"}]
        /\ readyQ \in Seq(Task) /\ NoDup(readyQ) /\ r1 \in Place
        /\ active \in Task \cup {Idle}
    BY KernelTypes DEF OrderInv, KernelInv, ClockInv, StackInv, Ready
  <1>1. KernelInv' /\ TypeInv'
    BY <1>0, KernelStep DEF KernelInv, ClockInv
  <1>2. CASE IdleTask
    <2>1. now = 0 /\ now' = 0
      BY <1>0, <1>2 DEF IdleTask, IdleOnce, At, Runs
    <2>2. UNCHANGED <<taskState, readyQ, nextDeadline, left, now, overflowFlag>>
      BY <1>2, <2>1 DEF IdleTask
    <2> QED
      BY <1>0, <1>1, <2>2, OrderFrame DEF OrderInv
  <1>3. ASSUME NEW t \in Task,
               EndTaskZombie(t) \/ EndTaskUnlink(t) \/ SuspendSynchronousTask(t)
        PROVE  OrderInv'
    <2>1. \/ readyQ' = readyQ
          \/ readyQ # <<>> /\ readyQ' = Tail(readyQ)
      BY <1>0, <1>3, EndUnlinkStack, SuspendStack DEF EndTaskZombie
    <2>2. \A v, u \in Task : Before(v, u, readyQ') => Before(v, u, readyQ)
      BY <1>0, <2>1, TailOrder
    <2>3. /\ UNCHANGED <<nextDeadline, left, now, overflowFlag>>
          /\ \/ taskState' = [taskState EXCEPT ![active] = "zombie"]
             \/ taskState' = taskState
      BY <1>3 DEF EndTaskZombie, EndTaskUnlink, SuspendSynchronousTask
    <2>4. \A u \in Task : taskState'[u] # "zombie" => taskState[u] # "zombie"
      BY <1>0, <2>3
    <2>5. DeadlinesAgree' /\ Sorted'
      BY <1>0, <2>2, <2>3, <2>4, OrderFrame
    <2> QED
      BY <1>1, <2>5 DEF OrderInv
  <1>4. ASSUME \/ \E t \in Task : \/ EndTaskNoSave(t) \/ EndTaskElect(t)
                                  \/ ScheduleTask(t)
                                  \/ (\E e \in Event : SignalDequeue(t, e))
                                  \/ SignalPush(t)
               \/ \E e \in Event : SignalByInterrupt(e)
               \/ UNCHANGED vars
        PROVE  OrderInv'
    <2>1. UNCHANGED <<taskState, readyQ, nextDeadline, left, now, overflowFlag>>
      BY <1>4
      DEF EndTaskNoSave, EndTaskElect, ScheduleTask, SignalDequeue, SignalPush,
          SignalByInterrupt, vars
    <2> QED
      BY <1>0, <1>1, <2>1, OrderFrame DEF OrderInv
  <1>5. CASE Tick
    BY <1>0, <1>1, <1>5, TickOrder DEF OrderInv
  <1>6. CASE Scheduler
    BY <1>1, <1>6, SchedulerOrder DEF OrderInv
  <1>7. CASE ContextSwap
    <2>1. UNCHANGED <<readyQ, nextDeadline, left, now, overflowFlag>>
      BY <1>7
      DEF ContextSwap, SwapEnter, SwapReturn, SwapSave, SwapClear, SwapCreate,
          SwapRestore
    <2>2. taskState' = taskState \/ SwapCreate
      BY <1>7 DEF ContextSwap, SwapEnter, SwapReturn, SwapSave, SwapClear, SwapRestore
    <2>3. \A u \in Task : taskState'[u] # "zombie" => taskState[u] # "zombie"
      BY <1>0, <2>2 DEF SwapCreate, HasRun
    <2>4. DeadlinesAgree' /\ Sorted'
      BY <1>0, <2>1, <2>3, OrderFrame
    <2> QED
      BY <1>1, <2>4 DEF OrderInv
  <1> QED
    BY <1>2, <1>3, <1>4, <1>5, <1>6, <1>7, StepCases

LEMMA OrderInit == Init => OrderInv
  <1> SUFFICES ASSUME Init
               PROVE  OrderInv
    OBVIOUS
  <1>1. KernelInv
    BY KernelInit
  <1>2. \A t \in Periodic : taskState[t] = "zombie"
    BY TaskAssumption DEF Init, Task
  <1>3. DeadlinesAgree
    BY <1>2 DEF DeadlinesAgree
  <1>4. Sorted
    BY DEF Init, Sorted, Before
  <1> QED
    BY <1>1, <1>3, <1>4 DEF OrderInv

(* The deadline that EDF compares is the true one: however many turns the  *)
(* clock has made since the release, and whenever the interrupt of a turn  *)
(* comes, the deadline kept of a periodic task's instance lies as far      *)
(* ahead as the instance's own, a deadline after its arrival.              *)
THEOREM Deadlines == Spec => []DeadlinesAgree
  <1>1. OrderInv => DeadlinesAgree
    BY DEF OrderInv
  <1> QED
    BY <1>1, OrderInit, OrderStep, PTL DEF Spec

(* The scheduling policy holds: a task that runs is the head of the ready  *)
(* queue, and under EDF no task there whose deadline is ahead comes after  *)
(* one with a later deadline, under DM none after one of lower priority,   *)
(* with the turns of the clock and late releases between.                  *)
THEOREM MostUrgent == Spec => []MostUrgentRuns
  <1>1. ASSUME OrderInv
        PROVE  MostUrgentRuns
    <2>0. /\ TypeInv /\ StackInv /\ DeadlinesAgree /\ Sorted
          /\ readyQ \in Seq(Task) /\ NoDup(readyQ) /\ DOMAIN readyQ = 1 .. Len(readyQ)
          /\ tpc \in [Task \cup {Idle} ->
               {"run", "nosave", "unlink", "elect", "pend", "done", "push", "sleep"}]
          /\ cur \in Task \cup {Idle, None}
      BY <1>1, KernelTypes, LenProperties
      DEF OrderInv, KernelInv, ClockInv, StackInv, Ready, Place
    <2>1. ASSUME soft = "out", swap = "out", ~pendSwap, cur # None,
                 taskState[cur] # "zombie"
          PROVE  cur = Top(readyQ)
      <3>1. Quiet /\ CodeRuns
        BY <2>0, <2>1 DEF Quiet, StackInv
      <3>2. tpc[cur] \in {"run", "push", "sleep"}
        BY <2>0, <2>1, <3>1 DEF CodeRuns
      <3> QED
        BY <3>1, <3>2 DEF CodeRuns
    <2>2. ASSUME NEW i \in DOMAIN readyQ, NEW j \in DOMAIN readyQ, i < j,
                 taskState[readyQ[i]] # "zombie"
          PROVE  MoreUrgent(readyQ[i], readyQ[j])
      <3>1. PICK t \in Task : t = readyQ[i]
        BY <2>0
      <3>2. PICK u \in Task : u = readyQ[j]
        BY <2>0
      <3>3. Before(t, u, readyQ)
        BY <2>2, <3>1, <3>2 DEF Before
      <3>4. Ordered(t, u)
        BY <2>0, <2>2, <3>1, <3>3 DEF Sorted
      <3>5. taskState[u] # "zombie"
        <4>1. InQueue(u, readyQ)
          BY <3>2 DEF InQueue
        <4>2. u # Top(readyQ)
          BY <2>0, <3>3, TopFirst
        <4> QED
          BY <2>0, <4>1, <4>2 DEF StackInv, Ready, Ending
      <3>6. ASSUME Mode = "EDF", NEW v \in Task, taskState[v] # "zombie"
            PROVE  TrueDeadline(v) = nextDeadline[v] - now - Unmoved
        BY <2>0, <3>6, DeadlineUnfolded DEF TrueDeadline, TrueTime
      <3>7. CASE Mode = "DM"
        BY <3>1, <3>2, <3>4, <3>7 DEF Ordered, MoreUrgent
      <3>8. CASE Mode = "EDF"
        <4>1. /\ TrueDeadline(t) = nextDeadline[t] - now - Unmoved
              /\ TrueDeadline(u) = nextDeadline[u] - now - Unmoved
          BY <2>2, <3>1, <3>5, <3>6, <3>8
        <4>2. nextDeadline[u] <= now + Unmoved \/ nextDeadline[t] <= nextDeadline[u]
          BY <3>4, <3>8 DEF Ordered
        <4>3. /\ nextDeadline[t] \in Int /\ nextDeadline[u] \in Int
              /\ now \in Int /\ Unmoved \in Int
          BY <2>0, OrderTypes
        <4> DEFINE a == TrueDeadline(t)
                   b == TrueDeadline(u)
                   m == Unmoved
        <4>4. /\ a = nextDeadline[t] - now - m /\ b = nextDeadline[u] - now - m
              /\ nextDeadline[u] <= now + m \/ nextDeadline[t] <= nextDeadline[u]
              /\ m \in Int
          BY <4>1, <4>2, <4>3
        <4> HIDE DEF a, b, m
        <4>5. b <= 0 \/ a <= b
          BY <4>3, <4>4
        <4> QED
          BY <3>1, <3>2, <3>8, <4>5 DEF MoreUrgent, a, b
      <3> QED
        BY <2>0, <3>7, <3>8, OrderTypes
    <2> QED
      BY <2>1, <2>2 DEF MostUrgentRuns
  <1> QED
    BY <1>1, OrderInit, OrderStep, PTL DEF Spec

-----------------------------------------------------------------------------
(***************************************************************************)
(* The times that the scheduler releases its tasks at, the turns of the    *)
(* clock that come in the middle of it included.                           *)
(***************************************************************************)

(***************************************************************************)
(* The clock, and the time the scheduler works with.                       *)
(***************************************************************************)

(* The time on the scale that the kernel keeps its times on, which a turn  *)
(* of the clock begun and not yet counted does not move.                   *)
Clock == now + Unmoved

LEMMA ClockType ==
  ASSUME TypeInv
  PROVE  /\ Clock \in Nat /\ now \in Nat /\ now < ShiftTimeLimit
         /\ currentTime \in Nat /\ currentTime < ShiftTimeLimit
         /\ ShiftTimeLimit \in Nat \ {0}
         /\ overflowFlag => Clock = now + ShiftTimeLimit
         /\ ~overflowFlag => Clock = now
  BY TimingAssumption DEF TypeInv, TypeOK, Clock, Unmoved

(* The steps below the scheduler leave the times and the arrival queue;    *)
(* they may ask for the scheduler, and do when they have a task signalled. *)
schedulerVars == <<high, low, nextDeadline, serverDeadline, arrivalQ, handler, now, alarm,
                   overflowFlag, due, rest, latency>>

LEMMA BelowScheduler ==
  ASSUME TypeInv, IdleOnce, [Next]_vars, ~Tick, ~Scheduler
  PROVE  /\ UNCHANGED schedulerVars
         /\ \A t \in Task : taskState[t] = "zombie" => taskState'[t] = "zombie"
         /\ pendSoft => pendSoft'
         /\ booted \/ (pendSoft' /\ ~pendSoft) => booted'
         /\ \/ pendSoft' /\ comparatorFlag' /\ soft = "out"
            \/ UNCHANGED <<booted, comparatorFlag>>
         /\ \/ pendSoft'
            \/ booted' => reschedule' = reschedule
  <1> USE DEF schedulerVars, EnqueueRescheduleQueue
  <1>0. /\ taskState \in [Task \cup {Idle} -> {"init", "running", "zombie"}]
        /\ booted \in BOOLEAN /\ pendSoft \in BOOLEAN
    BY DEF TypeInv, TypeOK
  <1>1. CASE IdleTask
    BY <1>1 DEF IdleTask, IdleOnce, At, Runs
  <1>2. CASE \E t \in Task : EndTaskZombie(t)
    BY <1>0, <1>2 DEF EndTaskZombie
  <1>3. ASSUME NEW t \in Task,
               EndTaskNoSave(t) \/ EndTaskUnlink(t) \/ EndTaskElect(t) \/ ScheduleTask(t)
        PROVE  UNCHANGED <<schedulerVars, taskState, pendSoft, booted, comparatorFlag, reschedule>>
    BY <1>3 DEF EndTaskNoSave, EndTaskUnlink, EndTaskElect, ScheduleTask
  <1>4. ASSUME NEW t \in Task, SuspendSynchronousTask(t)
        PROVE  /\ UNCHANGED <<schedulerVars, booted, comparatorFlag>>
               /\ taskState' = [taskState EXCEPT ![active] = "zombie"]
               /\ \/ pendSoft' = (pendSoft \/ booted)
                  \/ UNCHANGED <<reschedule, pendSoft>>
    BY <1>4, Zenon DEF SuspendSynchronousTask
  <1>5. ASSUME NEW t \in Task, NEW e \in Event, SignalDequeue(t, e)
        PROVE  UNCHANGED <<schedulerVars, taskState, pendSoft, booted, comparatorFlag, reschedule>>
    BY <1>5 DEF SignalDequeue
  <1>6. ASSUME (\E t \in Task : SignalPush(t)) \/ (\E e \in Event : SignalByInterrupt(e))
        PROVE  /\ UNCHANGED <<schedulerVars, taskState, booted, comparatorFlag>>
               /\ \/ pendSoft' = (pendSoft \/ booted)
                  \/ UNCHANGED <<reschedule, pendSoft>>
    BY <1>6, Zenon DEF SignalPush, SignalByInterrupt
  <1>7. CASE ContextSwap
    <2>1. UNCHANGED <<schedulerVars, pendSoft, booted, comparatorFlag, reschedule>>
      BY <1>7
      DEF ContextSwap, SwapEnter, SwapReturn, SwapSave, SwapClear, SwapCreate, SwapRestore
    <2>2. \/ taskState' = taskState
          \/ SwapCreate
      BY <1>7 DEF ContextSwap, SwapEnter, SwapReturn, SwapSave, SwapClear, SwapRestore
    <2>3. \A t \in Task : taskState[t] = "zombie" => taskState'[t] = "zombie"
      BY <1>0, <2>2 DEF SwapCreate, HasRun
    <2> QED
      BY <2>1, <2>3
  <1>8. CASE UNCHANGED vars
    BY <1>8 DEF vars
  <1>9. ASSUME NEW t \in Task, SuspendSynchronousTask(t)
        PROVE  \A u \in Task : taskState[u] = "zombie" => taskState'[u] = "zombie"
    BY <1>0, <1>4, <1>9
  <1>10. ASSUME pendSoft' = (pendSoft \/ booted)
         PROVE  (pendSoft => pendSoft') /\ (booted => pendSoft') /\ (pendSoft' => pendSoft \/ booted)
    BY <1>10
  <1> QED
    BY <1>1, <1>2, <1>3, <1>4, <1>5, <1>6, <1>7, <1>8, <1>9, <1>10, StepCases

(* Only a tick and the test of the overflow flag move the clock.           *)
LEMMA ClockStays ==
  ASSUME TypeInv, IdleOnce, [Next]_vars, ~Tick, ~TestOverflow
  PROVE  UNCHANGED <<now, overflowFlag>> /\ Clock' = Clock
  <1>1. UNCHANGED <<now, overflowFlag>>
    <2>1. CASE Scheduler
      BY <2>1
      DEF Scheduler, SoftTimerInterrupt, ClearComparatorFlag, ReadTime, ReleasePeriodic,
          Overrun, ArriveSynchronous, ArrivalsDone, RescheduleLater, RescheduleNow,
          RescheduleDone, SetTimer, ClearSoftTimerInterrupt, Again, Leave
    <2> QED
      BY <2>1, BelowScheduler DEF schedulerVars
  <1> QED
    BY <1>1 DEF Clock, Unmoved

LEMMA ClockTicks ==
  ASSUME TypeInv, Tick
  PROVE  Clock' = Clock + 1
  BY TickTime, Zenon DEF Clock

(* The time read is not ahead of the clock: a counter below it has begun a *)
(* new turn, whose flag is up until the scheduler starts over.             *)
ReadClock == soft \in {"arrivals", "reschedule"} => currentTime <= Clock

LEMMA ReadClockStep ==
  ASSUME TypeInv, IdleOnce, ReadClock, [Next]_vars
  PROVE  ReadClock'
  <1>0. Clock \in Nat /\ now \in Nat /\ currentTime \in Nat /\ now <= Clock
    BY ClockType
  <1>1. CASE Tick
    <2>1. UNCHANGED <<soft, currentTime>> /\ Clock' = Clock + 1
      BY <1>1, ClockTicks DEF Tick
    <2> QED
      BY <2>1, <1>0 DEF ReadClock
  <1>2. CASE TestOverflow
    BY <1>2 DEF TestOverflow, ReadClock
  <1>3. CASE ~Tick /\ ~TestOverflow
    <2>1. Clock' = Clock
      BY <1>3, ClockStays
    <2>2. \/ soft' = "arrivals" /\ currentTime' = now
          \/ soft' \notin {"arrivals", "reschedule"}
          \/ currentTime' = currentTime /\ soft \in {"arrivals", "reschedule"}
          \/ UNCHANGED <<soft, currentTime>>
      <3>1. CASE Scheduler
        BY <3>1, <1>3
        DEF Scheduler, SoftTimerInterrupt, ClearComparatorFlag, ReadTime, ReleasePeriodic,
            Overrun, ArriveSynchronous, ArrivalsDone, RescheduleLater, RescheduleNow,
            RescheduleDone, SetTimer, ClearSoftTimerInterrupt, Again, Leave, SoftAt
      <3> QED
        BY <3>1, <1>3, BelowScheduler DEF schedulerVars
    <2> QED
      BY <2>1, <2>2, <1>0 DEF ReadClock
  <1> QED
    BY <1>1, <1>2, <1>3

(* The ticks since the time was read are those of the clock since, but for *)
(* a time read in a turn that the times are not yet moved to.              *)
LEMMA AgeOfTime ==
  ASSUME TypeInv, ReadClock, soft \in {"arrivals", "reschedule"}
  PROVE  /\ Age \in Nat
         /\ ~Misread => currentTime + Age = Clock
  BY ClockType DEF ReadClock, Age, Misread

-----------------------------------------------------------------------------
(***************************************************************************)
(* The periods of the event-driven tasks.                                  *)
(***************************************************************************)

(* Where the code keeps the end of the period of a task's last instance.   *)
PeriodEnd(s) == IF Mode = "EDF" THEN nextDeadline[s] ELSE low[s]

(* The period has not longer to go than that.                              *)
RestKept ==
  \A s \in Synchronous : rest[s] = 0 \/ rest[s] <= PeriodEnd(s) - Clock

(* Under EDF a task waits in the arrival queue for its deadline, which a   *)
(* turn of the clock makes zero, and not its arrival time, once past.      *)
DeadlineAwaited ==
  Mode = "EDF" =>
    \A s \in Synchronous :
      InQueue(s, arrivalQ) => nextDeadline[s] <= low[s] \/ nextDeadline[s] <= 0

PeriodInv == KernelInv /\ ReadClock /\ RestKept /\ DeadlineAwaited

LEMMA TimeTypes ==
  ASSUME TypeInv
  PROVE  /\ low \in [Task -> Int] /\ high \in [Periodic -> Nat]
         /\ nextDeadline \in [Task -> Int] /\ serverDeadline \in Nat
         /\ due \in [Periodic -> Int] /\ left \in [Periodic -> Int]
         /\ rest \in [Synchronous -> Nat] /\ latency \in Nat
         /\ WorkLoad \in [Synchronous -> Nat \ {0}]
         /\ ShiftTimeLimit \in Nat \ {0} /\ Mode \in {"EDF", "DM"}
         /\ Synchronous \subseteq Task /\ Periodic \subseteq Task
         /\ Periodic \cap Synchronous = {}
         /\ arrivalQ \in Seq(Task) /\ reschedule \in Seq(Synchronous)
         /\ taskState \in [Task \cup {Idle} -> {"init", "running", "zombie"}]
         /\ alarm \in Nat
  <1>1. WorkLoad \in [Synchronous -> Nat \ {0}]
    BY TimingAssumption
  <1> QED
    BY <1>1, TimingAssumption, TaskAssumption DEF TypeInv, TypeOK, Task

(* An event-driven task is released only by the two steps that take it     *)
(* from the arrival queue and from the list of tasks to reschedule.        *)
Released(s) ==
  \/ ArriveSynchronous(s)
  \/ RescheduleNow(s)

LEMMA ReleasedFacts ==
  ASSUME TypeInv, NEW s \in Synchronous, Released(s)
  PROVE  /\ soft \in {"arrivals", "reschedule"}
         /\ UNCHANGED <<now, overflowFlag, due, left, latency, high, handler>>
         /\ \E base \in Int : /\ base <= currentTime
                              /\ base = low[s] \/ base = currentTime
                              /\ ReleaseSynchronous(s, base)
         /\ \/ arrivalQ # <<>> /\ s = arrivalQ[1] /\ arrivalQ' = Tail(arrivalQ)
               /\ low[s] <= currentTime
            \/ reschedule # <<>> /\ s = reschedule[1] /\ arrivalQ' = arrivalQ
               /\ ~Waits(s)
  <1>1. low[s] \in Int /\ currentTime \in Int
    BY TimeTypes, ClockType
  <1>2. CASE ArriveSynchronous(s)
    BY <1>1, <1>2 DEF ArriveSynchronous, Arrives, HasArrived, SoftAt
  <1>3. CASE RescheduleNow(s)
    BY <1>1, <1>3 DEF RescheduleNow, SoftAt
  <1> QED
    BY <1>2, <1>3 DEF Released

(* Where the code keeps the end of the task's last period lies a time past.*)
LEMMA ReleasedDue ==
  ASSUME PeriodInv, NEW s \in Synchronous, Released(s)
  PROVE  PeriodEnd(s) <= currentTime
  <1>1. TypeInv /\ DeadlineAwaited
    BY DEF PeriodInv, KernelInv, ClockInv
  <1>2. /\ s \in Task /\ low[s] \in Int /\ nextDeadline[s] \in Int
        /\ Mode \in {"EDF", "DM"} /\ currentTime \in Nat
        /\ arrivalQ \in Seq(Task)
    BY <1>1, TimeTypes, ClockType
  <1>3. \/ arrivalQ # <<>> /\ s = arrivalQ[1] /\ low[s] <= currentTime
        \/ ~Waits(s)
    BY <1>1, ReleasedFacts
  <1>4. CASE arrivalQ # <<>> /\ s = arrivalQ[1] /\ low[s] <= currentTime
    <2>1. InQueue(s, arrivalQ)
      BY <1>4, <1>2, LenProperties, EmptySeq DEF InQueue
    <2> QED
      BY <1>4, <2>1, <1>1, <1>2 DEF DeadlineAwaited, PeriodEnd
  <1>5. CASE ~Waits(s)
    BY <1>5, <1>2 DEF Waits, PeriodEnd
  <1> QED
    BY <1>3, <1>4, <1>5

(* The time until which the period of the one before went on is past.      *)
LEMMA ReleasedLate ==
  ASSUME PeriodInv, NEW s \in Synchronous, Released(s)
  PROVE  rest[s] <= Age
  <1>1. TypeInv /\ ReadClock /\ RestKept
    BY DEF PeriodInv, KernelInv, ClockInv
  <1>2. /\ s \in Task /\ low[s] \in Int /\ nextDeadline[s] \in Int /\ rest[s] \in Nat
        /\ Clock \in Nat /\ currentTime \in Nat
    BY <1>1, TimeTypes, ClockType
  <1>3. soft \in {"arrivals", "reschedule"}
    BY <1>1, ReleasedFacts
  <1>4. Age \in Nat /\ currentTime <= Clock
    BY <1>1, <1>3, AgeOfTime DEF ReadClock
  <1>5. PeriodEnd(s) <= currentTime
    BY ReleasedDue
  <1>6. rest[s] = 0 \/ rest[s] <= PeriodEnd(s) - Clock
    BY <1>1 DEF RestKept
  <1>7. PeriodEnd(s) \in Int
    BY <1>2 DEF PeriodEnd
  <1> QED
    BY <1>2, <1>4, <1>5, <1>6, <1>7


(* What an instance released is entitled to, and where the code keeps it.  *)
LEMMA ReleasedRest ==
  ASSUME TypeInv, TypeInv', ReadClock, NEW s \in Synchronous, Released(s)
  PROVE  /\ rest'[s] = 0 \/ rest'[s] <= PeriodEnd(s)' - Clock'
         /\ Clock' = Clock
         /\ \A u \in Synchronous : u # s =>
              rest'[u] = rest[u] /\ PeriodEnd(u)' = PeriodEnd(u)
         /\ nextDeadline' \in [Task -> Int]
         /\ \A u \in Task : u # s => nextDeadline'[u] = nextDeadline[u] /\ low'[u] = low[u]
  <1>1. /\ s \in Task /\ Clock \in Nat /\ currentTime \in Nat /\ Mode \in {"EDF", "DM"}
        /\ low \in [Task -> Int] /\ nextDeadline \in [Task -> Int]
        /\ rest \in [Synchronous -> Nat] /\ WorkLoad[s] \in Nat
        /\ Synchronous \subseteq Task
        /\ nextDeadline' \in [Task -> Int] /\ serverDeadline' \in Int
    <2>1. nextDeadline' \in [Task -> Int] /\ serverDeadline' \in Int
      BY DEF TypeInv, TypeOK
    <2>2. s \in Task /\ WorkLoad[s] \in Nat
      BY TimeTypes
    <2> QED
      BY <2>1, <2>2, TimeTypes, ClockType
  <1>2. /\ soft \in {"arrivals", "reschedule"}
        /\ UNCHANGED <<now, overflowFlag, handler>>
    BY ReleasedFacts
  <1>3. PICK base \in Int : ReleaseSynchronous(s, base)
    BY ReleasedFacts
  <1>4. Clock' = Clock
    BY <1>2 DEF Clock, Unmoved
  <1>5. Age \in Nat /\ (~Misread => currentTime + Age = Clock)
    BY <1>2, AgeOfTime
  <1>6. PICK until \in Int :
          /\ Entitled(s, until)
          /\ Mode = "EDF" => /\ nextDeadline' = [nextDeadline EXCEPT ![s] = until]
                             /\ low' = low
          /\ Mode = "DM" => /\ low' = [low EXCEPT ![s] = until]
                            /\ nextDeadline' = nextDeadline
    <2>1. CASE Mode = "EDF"
      BY <2>1, <1>1, <1>3 DEF ReleaseSynchronous
    <2>2. CASE Mode = "DM"
      BY <2>2, <1>1, <1>3 DEF ReleaseSynchronous
    <2> QED
      BY <2>1, <2>2, <1>1
  <1>7. /\ PeriodEnd(s)' = until
        /\ \A u \in Task : u # s => nextDeadline'[u] = nextDeadline[u] /\ low'[u] = low[u]
    BY <1>1, <1>6 DEF PeriodEnd
  <1>8. rest' = [rest EXCEPT ![s] = IF Misread \/ until - currentTime - Age < 0 THEN 0
                                    ELSE until - currentTime - Age]
    BY <1>6 DEF Entitled
  <1>9. rest'[s] = 0 \/ rest'[s] <= until - Clock
    BY <1>1, <1>5, <1>8
  <1>10. \A u \in Synchronous : u # s =>
           rest'[u] = rest[u] /\ PeriodEnd(u)' = PeriodEnd(u)
    BY <1>1, <1>7, <1>8 DEF PeriodEnd
  <1> QED
    BY <1>1, <1>4, <1>7, <1>9, <1>10

LEMMA RestStep ==
  ASSUME PeriodInv, TypeInv', [Next]_vars
  PROVE  RestKept'
  <1>0. /\ TypeInv /\ ReadClock /\ RestKept /\ IdleOnce
        /\ low \in [Task -> Int] /\ nextDeadline \in [Task -> Int]
        /\ rest \in [Synchronous -> Nat] /\ Synchronous \subseteq Task
        /\ Periodic \cap Synchronous = {} /\ Mode \in {"EDF", "DM"}
        /\ Clock \in Nat /\ ShiftTimeLimit \in Nat
    BY TimeTypes, ClockType DEF PeriodInv, KernelInv, ClockInv
  <1>1. ASSUME \A s \in Synchronous : rest'[s] = rest[s] /\ PeriodEnd(s)' = PeriodEnd(s),
               Clock' = Clock
        PROVE  RestKept'
    BY <1>0, <1>1 DEF RestKept
  <1>2. CASE Tick
    <2>1. /\ \A s \in Synchronous : PeriodEnd(s)' = PeriodEnd(s)
          /\ \A s \in Synchronous : rest'[s] = IF rest[s] > 0 THEN rest[s] - 1 ELSE 0
          /\ Clock' = Clock + 1
      BY <1>0, <1>2, ClockTicks DEF Tick, PeriodEnd
    <2>2. \A s \in Synchronous : PeriodEnd(s) \in Int
      BY <1>0 DEF PeriodEnd
    <2> QED
      BY <1>0, <2>1, <2>2 DEF RestKept
  <1>3. CASE TestOverflow /\ overflowFlag
    <2>1. Clock' = now /\ Clock = now + ShiftTimeLimit /\ now \in Nat /\ rest' = rest
      BY <1>0, <1>3, ClockType DEF TestOverflow, Clock, Unmoved
    <2>2. \A s \in Synchronous : PeriodEnd(s)' = SubOrZeroIfNeg(PeriodEnd(s))
      BY <1>0, <1>3 DEF TestOverflow, ShiftTimes, PeriodEnd
    <2>3. \A s \in Synchronous : PeriodEnd(s) \in Int
      BY <1>0 DEF PeriodEnd
    <2>4. ASSUME NEW s \in Synchronous
          PROVE  rest'[s] = 0 \/ rest'[s] <= PeriodEnd(s)' - Clock'
      <3>1. /\ rest[s] = 0 \/ rest[s] <= PeriodEnd(s) - Clock
            /\ rest'[s] = rest[s] /\ rest[s] \in Nat
        BY <1>0, <2>1 DEF RestKept
      <3> QED
        BY <3>1, <2>1, <2>2, <2>3, <1>0 DEF SubOrZeroIfNeg
    <2> QED
      BY <2>4 DEF RestKept
  <1>4. CASE TestOverflow /\ ~overflowFlag
    <2>1. UNCHANGED <<nextDeadline, low, rest, now>> /\ ~overflowFlag'
      BY <1>4 DEF TestOverflow
    <2>2. Clock' = Clock
      BY <1>4, <2>1 DEF Clock, Unmoved
    <2> QED
      BY <1>1, <2>1, <2>2 DEF PeriodEnd
  <1>5. ASSUME NEW s \in Synchronous, Released(s)
        PROVE  RestKept'
    <2>1. /\ rest'[s] = 0 \/ rest'[s] <= PeriodEnd(s)' - Clock'
          /\ Clock' = Clock
          /\ \A u \in Synchronous : u # s =>
               rest'[u] = rest[u] /\ PeriodEnd(u)' = PeriodEnd(u)
      BY <1>0, <1>5, ReleasedRest
    <2> QED
      BY <1>0, <2>1 DEF RestKept
  <1>6. CASE /\ Scheduler /\ ~TestOverflow /\ ~Tick
             /\ ~\E s \in Synchronous : Released(s)
    <2>1. Clock' = Clock
      BY <1>0, <1>6, ClockStays
    <2>2. CASE \E t \in Task : ReleasePeriodic(t) \/ Overrun(t)
      <3>1. PICK t \in Periodic :
              /\ NextPeriodicArrival(t) /\ rest' = rest
              /\ \/ nextDeadline' = nextDeadline
                 \/ nextDeadline' = [nextDeadline EXCEPT ![t] = low[t] + Deadline[t]]
        BY <2>2 DEF ReleasePeriodic, Overrun
      <3>2. \A s \in Synchronous :
              s # t /\ low'[s] = low[s] /\ nextDeadline'[s] = nextDeadline[s]
        BY <1>0, <3>1 DEF NextPeriodicArrival
      <3> QED
        BY <1>1, <2>1, <3>1, <3>2 DEF PeriodEnd
    <2>3. CASE \E s \in Synchronous : RescheduleLater(s)
      <3>1. /\ UNCHANGED <<nextDeadline, rest>>
            /\ Mode = "DM" => low' = low
        BY <2>3 DEF RescheduleLater
      <3> QED
        BY <1>0, <1>1, <2>1, <3>1 DEF PeriodEnd
    <2>4. CASE \/ SoftTimerInterrupt \/ ClearComparatorFlag \/ ReadTime \/ ArrivalsDone
               \/ RescheduleDone \/ SetTimer \/ ClearSoftTimerInterrupt \/ Again \/ Leave
      <3>1. UNCHANGED <<low, nextDeadline, rest>>
        BY <2>4
        DEF SoftTimerInterrupt, ClearComparatorFlag, ReadTime, ArrivalsDone,
            RescheduleDone, SetTimer, ClearSoftTimerInterrupt, Again, Leave
      <3> QED
        BY <1>1, <2>1, <3>1 DEF PeriodEnd
    <2>5. \A s : ArriveSynchronous(s) => s \in Synchronous
      BY DEF ArriveSynchronous
    <2> QED
      BY <1>6, <2>2, <2>3, <2>4, <2>5 DEF Scheduler, Released
  <1>7. CASE ~Tick /\ ~Scheduler
    <2>1. UNCHANGED <<low, nextDeadline, rest>>
      BY <1>0, <1>7, BelowScheduler DEF schedulerVars
    <2>2. Clock' = Clock
      BY <1>0, <1>7, ClockStays DEF Scheduler
    <2> QED
      BY <1>1, <2>1, <2>2 DEF PeriodEnd
  <1> QED
    BY <1>2, <1>3, <1>4, <1>5, <1>6, <1>7

LEMMA AwaitedStep ==
  ASSUME PeriodInv, TypeInv', [Next]_vars
  PROVE  DeadlineAwaited'
  <1>0. /\ TypeInv /\ DeadlineAwaited /\ IdleOnce /\ Links
        /\ low \in [Task -> Int] /\ nextDeadline \in [Task -> Int]
        /\ arrivalQ \in Seq(Task) /\ NoDup(arrivalQ) /\ Synchronous \subseteq Task
        /\ reschedule \in Seq(Synchronous)
        /\ Periodic \cap Synchronous = {} /\ ShiftTimeLimit \in Nat
    BY TimeTypes DEF PeriodInv, KernelInv, ClockInv, Links
  <1> SUFFICES ASSUME Mode = "EDF"
               PROVE  DeadlineAwaited'
    BY DEF DeadlineAwaited
  <1>1. ASSUME \A s \in Synchronous :
                 InQueue(s, arrivalQ') =>
                   /\ InQueue(s, arrivalQ)
                   /\ low'[s] = low[s] /\ nextDeadline'[s] = nextDeadline[s]
        PROVE  DeadlineAwaited'
    BY <1>1, <1>0 DEF DeadlineAwaited
  <1>2. CASE TestOverflow /\ overflowFlag
    <2>1. /\ arrivalQ' = arrivalQ
          /\ \A s \in Synchronous :
               /\ nextDeadline'[s] = SubOrZeroIfNeg(nextDeadline[s])
               /\ InQueue(s, arrivalQ) => low'[s] = low[s] - ShiftTimeLimit
      BY <1>0, <1>2 DEF TestOverflow, ShiftTimes
    <2>2. \A s \in Synchronous : low[s] \in Int /\ nextDeadline[s] \in Int
      BY <1>0
    <2>3. ASSUME NEW s \in Synchronous, InQueue(s, arrivalQ')
          PROVE  nextDeadline'[s] <= low'[s] \/ nextDeadline'[s] <= 0
      <3>1. /\ low'[s] = low[s] - ShiftTimeLimit
            /\ nextDeadline'[s] = SubOrZeroIfNeg(nextDeadline[s])
            /\ nextDeadline[s] <= low[s] \/ nextDeadline[s] <= 0
        BY <1>0, <2>1, <2>3 DEF DeadlineAwaited
      <3> QED
        BY <1>0, <2>2, <3>1 DEF SubOrZeroIfNeg
    <2> QED
      BY <2>3 DEF DeadlineAwaited
  <1>3. ASSUME NEW s \in Synchronous, Released(s)
        PROVE  DeadlineAwaited'
    <2>1. \/ arrivalQ # <<>> /\ s = arrivalQ[1] /\ arrivalQ' = Tail(arrivalQ)
          \/ reschedule # <<>> /\ s = reschedule[1] /\ arrivalQ' = arrivalQ
      BY <1>0, <1>3, ReleasedFacts
    <2>2. ~InQueue(s, arrivalQ') /\ \A u : InQueue(u, arrivalQ') => InQueue(u, arrivalQ)
      <3>1. CASE arrivalQ # <<>> /\ s = arrivalQ[1] /\ arrivalQ' = Tail(arrivalQ)
        BY <3>1, <1>0, TailOrder
      <3>2. CASE reschedule # <<>> /\ s = reschedule[1] /\ arrivalQ' = arrivalQ
        <4>1. InQueue(s, reschedule)
          BY <3>2, <1>0, LenProperties, EmptySeq DEF InQueue
        <4> QED
          BY <3>2, <4>1, <1>0 DEF Links, Linked
      <3> QED
        BY <2>1, <3>1, <3>2
    <2>3. \A u \in Task : u # s => nextDeadline'[u] = nextDeadline[u] /\ low'[u] = low[u]
      BY <1>0, <1>3, ReleasedRest DEF PeriodInv
    <2> QED
      BY <1>0, <1>1, <2>2, <2>3
  <1>4. ASSUME NEW s \in Synchronous, RescheduleLater(s)
        PROVE  DeadlineAwaited'
    <2>1. /\ low' = [low EXCEPT ![s] = nextDeadline[s]] /\ nextDeadline' = nextDeadline
          /\ arrivalQ' = ArrivalQueueInsert(s, arrivalQ, high, low')
      BY <1>4 DEF RescheduleLater
    <2>2. \A u : InQueue(u, arrivalQ') => u = s \/ InQueue(u, arrivalQ)
      BY <1>0, <2>1, ArrivalInsertType
    <2>3. \A u \in Synchronous : low'[u] = IF u = s THEN nextDeadline[s] ELSE low[u]
      BY <1>0, <2>1
    <2>4. nextDeadline[s] \in Int
      BY <1>0
    <2>5. ASSUME NEW u \in Synchronous, InQueue(u, arrivalQ')
          PROVE  nextDeadline'[u] <= low'[u] \/ nextDeadline'[u] <= 0
      <3>1. CASE u = s
        BY <3>1, <2>1, <2>3, <2>4
      <3>2. CASE u # s
        <4>1. InQueue(u, arrivalQ) /\ nextDeadline'[u] = nextDeadline[u] /\ low'[u] = low[u]
          BY <3>2, <2>1, <2>2, <2>3, <2>5
        <4> QED
          BY <4>1, <1>0 DEF DeadlineAwaited
      <3> QED
        BY <3>1, <3>2
    <2> QED
      BY <2>5 DEF DeadlineAwaited
  <1>5. ASSUME NEW t \in Task, ReleasePeriodic(t) \/ Overrun(t)
        PROVE  DeadlineAwaited'
    <2>1. /\ t \in Periodic /\ NextPeriodicArrival(t) /\ arrivalQ # <<>> /\ t = arrivalQ[1]
          /\ \/ nextDeadline' = nextDeadline
             \/ nextDeadline' = [nextDeadline EXCEPT ![t] = low[t] + Deadline[t]]
      BY <1>5 DEF ReleasePeriodic, Overrun, Arrives
    <2>2. \A s \in Synchronous :
            s # t /\ low'[s] = low[s] /\ nextDeadline'[s] = nextDeadline[s]
      BY <1>0, <2>1 DEF NextPeriodicArrival
    <2>3. \A u : InQueue(u, arrivalQ') => u = t \/ InQueue(u, arrivalQ)
      <3>1. /\ Tail(arrivalQ) \in Seq(Task)
            /\ \A u : InQueue(u, Tail(arrivalQ)) => InQueue(u, arrivalQ)
        BY <1>0, <2>1, TailQueue
      <3>2. arrivalQ' = ArrivalQueueInsert(t, Tail(arrivalQ), high', low')
        BY <2>1 DEF NextPeriodicArrival
      <3> QED
        BY <3>1, <3>2, ArrivalInsertType
    <2> QED
      BY <1>1, <2>2, <2>3
  <1>6. CASE \/ SoftTimerInterrupt \/ ClearComparatorFlag \/ ReadTime \/ ArrivalsDone
             \/ RescheduleDone \/ SetTimer \/ ClearSoftTimerInterrupt \/ Again \/ Leave
             \/ (TestOverflow /\ ~overflowFlag)
    <2>1. UNCHANGED <<low, nextDeadline, arrivalQ>>
      BY <1>6
      DEF SoftTimerInterrupt, TestOverflow, ClearComparatorFlag, ReadTime, ArrivalsDone,
          RescheduleDone, SetTimer, ClearSoftTimerInterrupt, Again, Leave
    <2> QED
      BY <1>1, <2>1
  <1>7. CASE Tick
    BY <1>1, <1>7 DEF Tick
  <1>8. CASE ~Tick /\ ~Scheduler
    <2>1. UNCHANGED <<low, nextDeadline, arrivalQ>>
      BY <1>0, <1>8, BelowScheduler DEF schedulerVars
    <2> QED
      BY <1>1, <2>1
  <1>9. CASE Scheduler
    <2>1. \A s : ArriveSynchronous(s) => s \in Synchronous
      BY DEF ArriveSynchronous
    <2>2. CASE TestOverflow
      BY <1>2, <1>6, <2>2
    <2>3. CASE \E t \in Task : ReleasePeriodic(t) \/ Overrun(t)
      BY <1>5, <2>3
    <2>4. CASE \E s \in Synchronous : Released(s)
      BY <1>3, <2>4
    <2>5. CASE \E s \in Synchronous : RescheduleLater(s)
      BY <1>4, <2>5
    <2> QED
      BY <1>6, <1>9, <2>1, <2>2, <2>3, <2>4, <2>5 DEF Scheduler, Released
  <1> QED
    BY <1>7, <1>8, <1>9

LEMMA PeriodInit == Init => PeriodInv
  <1> SUFFICES ASSUME Init
               PROVE  PeriodInv
    OBVIOUS
  <1>1. KernelInv
    BY KernelInit
  <1>2. ReadClock /\ RestKept
    BY DEF Init, ReadClock, RestKept
  <1>3. DeadlineAwaited
    BY DEF Init, DeadlineAwaited, Task
  <1> QED
    BY <1>1, <1>2, <1>3 DEF PeriodInv

LEMMA PeriodStep ==
  ASSUME PeriodInv, [Next]_vars
  PROVE  PeriodInv'
  <1>1. KernelInv' /\ TypeInv' /\ TypeInv /\ IdleOnce /\ ReadClock
    BY KernelStep DEF PeriodInv, KernelInv, ClockInv
  <1> QED
    BY <1>1, ReadClockStep, RestStep, AwaitedStep DEF PeriodInv

(* An event-driven task keeps its minimum interarrival time: no instance   *)
(* begins within the period of the one before, whatever signals come and   *)
(* however turns of the clock, which clamp the times to zero and may come  *)
(* between the test of the overflow and the reading of the time, fall.     *)
THEOREM Interarrival == Spec => PeriodKept
  <1>1. ASSUME PeriodInv, [Next]_vars
        PROVE  \A s \in Synchronous :
                 taskState[s] = "zombie" /\ taskState'[s] = "init" => rest[s] <= Age
    <2>0. /\ TypeInv /\ IdleOnce /\ Synchronous \subseteq Task
          /\ taskState \in [Task \cup {Idle} -> {"init", "running", "zombie"}]
          /\ Periodic \cap Synchronous = {}
      BY <1>1, TimeTypes DEF PeriodInv, KernelInv, ClockInv
    <2> SUFFICES ASSUME NEW s \in Synchronous, taskState[s] = "zombie",
                        taskState'[s] = "init"
                 PROVE  rest[s] <= Age
      OBVIOUS
    <2>1. ASSUME ~Released(s)
          PROVE  FALSE
      <3>1. ~Tick
        BY <2>0 DEF Tick
      <3>2. Scheduler
        BY <1>1, <2>0, <3>1, BelowScheduler
      <3>3. CASE \E t \in Task : ReleasePeriodic(t)
        BY <2>0, <3>3 DEF ReleasePeriodic
      <3>4. CASE \E u \in Synchronous : u # s /\ (ArriveSynchronous(u) \/ RescheduleNow(u))
        <4>1. PICK u \in Synchronous :
                u # s /\ taskState' = [taskState EXCEPT ![u] = "init"]
          BY <3>4 DEF ArriveSynchronous, RescheduleNow, ReleaseSynchronous
        <4> QED
          BY <2>0, <4>1
      <3>5. CASE \/ SoftTimerInterrupt \/ TestOverflow \/ ClearComparatorFlag \/ ReadTime
                 \/ ArrivalsDone \/ RescheduleDone \/ SetTimer \/ ClearSoftTimerInterrupt
                 \/ Again \/ Leave
                 \/ (\E t \in Task : Overrun(t))
                 \/ (\E u \in Synchronous : RescheduleLater(u))
        <4>1. taskState' = taskState
          BY <3>5
          DEF SoftTimerInterrupt, TestOverflow, ClearComparatorFlag, ReadTime,
              ArrivalsDone, RescheduleDone, SetTimer, ClearSoftTimerInterrupt, Again,
              Leave, Overrun, RescheduleLater
        <4> QED
          BY <4>1
      <3>6. \A u : ArriveSynchronous(u) => u \in Synchronous
        BY DEF ArriveSynchronous
      <3> QED
        BY <2>1, <3>2, <3>3, <3>4, <3>5, <3>6 DEF Scheduler, Released
    <2> QED
      BY <1>1, <2>1, ReleasedLate
  <1>2. PeriodInv /\ [Next]_vars => PeriodInv'
    BY PeriodStep
  <1>3. PeriodInv /\ [Next]_vars =>
          [\A s \in Synchronous :
             taskState[s] = "zombie" /\ taskState'[s] = "init" => rest[s] <= Age]_vars
    BY <1>1
  <1> QED
    BY <1>2, <1>3, PeriodInit, PTL DEF Spec, PeriodKept
-----------------------------------------------------------------------------
(***************************************************************************)
(* How long the scheduler takes.                                           *)
(***************************************************************************)

(* It is at its end MaxLatency ticks after it was asked for, and while a   *)
(* turn of the clock is not counted it has been asked for since the turn   *)
(* began.                                                                  *)
PassInv ==
  /\ latency <= MaxLatency
  /\ overflowFlag => Busy /\ now <= latency

LEMMA PassStep ==
  ASSUME TypeInv, IdleOnce, PassInv, [Next]_vars
  PROVE  PassInv'
  <1>0. /\ latency \in Nat /\ now \in Nat /\ MaxLatency \in Nat
        /\ pendSoft \in BOOLEAN /\ overflowFlag \in BOOLEAN
    BY TimingAssumption DEF TypeInv, TypeOK
  <1>1. CASE Tick
    <2>1. /\ Wraps => ~overflowFlag
          /\ now' = IF Wraps THEN 0 ELSE now + 1
          /\ latency' = IF Busy THEN latency + 1 ELSE 0
          /\ Busy => latency < MaxLatency
          /\ soft' = soft
      BY <1>1 DEF Tick, InTime
    <2>2. /\ overflowFlag' => overflowFlag \/ Wraps
          /\ pendSoft \/ Wraps => pendSoft'
      BY <1>1, Zenon DEF Tick
    <2>3. Busy \/ Wraps => Busy'
      BY <2>1, <2>2 DEF Busy
    <2>4. latency' <= MaxLatency /\ latency' >= 0
      BY <1>0, <2>1 DEF PassInv
    <2>5. ASSUME overflowFlag'
          PROVE  now' <= latency'
      <3>1. CASE Wraps
        BY <3>1, <2>1, <2>4
      <3>2. CASE ~Wraps
        <4>1. Busy /\ now <= latency
          BY <2>2, <2>5, <3>2 DEF PassInv
        <4> QED
          BY <3>2, <4>1, <2>1, <1>0
      <3> QED
        BY <3>1, <3>2
    <2> QED
      BY <2>2, <2>3, <2>4, <2>5 DEF PassInv
  <1>2. CASE Scheduler
    <2>1. now' = now /\ (overflowFlag' => overflowFlag)
      BY <1>2
      DEF Scheduler, SoftTimerInterrupt, TestOverflow, ClearComparatorFlag, ReadTime,
          ReleasePeriodic, Overrun, ArriveSynchronous, ArrivalsDone, RescheduleLater,
          RescheduleNow, RescheduleDone, SetTimer, ClearSoftTimerInterrupt, Again, Leave
    <2>2. \/ Leave
          \/ soft' # "out" /\ latency' = latency
      BY <1>2
      DEF Scheduler, SoftTimerInterrupt, TestOverflow, ClearComparatorFlag, ReadTime,
          ReleasePeriodic, Overrun, ArriveSynchronous, ArrivalsDone, RescheduleLater,
          RescheduleNow, RescheduleDone, SetTimer, ClearSoftTimerInterrupt, Again, Leave,
          SoftAt, Arrives
    <2>3. CASE Leave
      <3>1. latency' = 0 /\ overflowFlag' = overflowFlag /\ ~overflowFlag
        BY <2>3 DEF Leave, MoreToDo
      <3> QED
        BY <3>1, <1>0 DEF PassInv
    <2>4. CASE soft' # "out" /\ latency' = latency
      BY <2>1, <2>4 DEF PassInv, Busy
    <2> QED
      BY <2>2, <2>3, <2>4
  <1>3. CASE ~Tick /\ ~Scheduler
    <2>1. UNCHANGED <<soft, now, overflowFlag, latency>> /\ (pendSoft => pendSoft')
      BY <1>3, BelowScheduler DEF schedulerVars
    <2> QED
      BY <2>1 DEF PassInv, Busy
  <1> QED
    BY <1>1, <1>2, <1>3

-----------------------------------------------------------------------------
(***************************************************************************)
(* The server of the event-driven tasks.                                   *)
(***************************************************************************)

(* The tasks whose deadline lies after a time.                             *)
DueAfter(x) == {s \in Synchronous : nextDeadline[s] > x}

(* No deadline of a task lies after the server's, and the server is not    *)
(* ahead of a time to come by more than the workloads of the tasks whose   *)
(* deadline is still to come then.                                         *)
ServerInv(Demand) ==
  Mode = "EDF" =>
    /\ \A s \in Synchronous : nextDeadline[s] <= serverDeadline
    /\ \A x \in Nat : x >= Clock => serverDeadline <= x + Demand[DueAfter(x)]

LEMMA ServerFrame ==
  ASSUME NEW Demand, ServerInv(Demand), TypeInv,
         \A s \in Synchronous : nextDeadline'[s] = nextDeadline[s],
         serverDeadline' = serverDeadline, Clock' \in Nat, Clock' >= Clock
  PROVE  ServerInv(Demand)'
  <1>1. \A x : DueAfter(x)' = DueAfter(x)
    BY DEF DueAfter
  <1>2. Clock \in Nat
    BY ClockType
  <1> DEFINE c == Clock
             d == Clock'
  <1>3. c \in Nat /\ d \in Nat /\ d >= c
    BY <1>2
  <1> HIDE DEF c, d
  <1>4. \A x \in Nat : x >= d => x >= c
    BY <1>3
  <1> QED
    BY <1>1, <1>4 DEF ServerInv, c, d

(* A release adds the workload of the task released to the deadlines to    *)
(* come, of which its last one was not.                                    *)
LEMMA ServerRelease ==
  ASSUME NEW Demand, SumsWorkLoads(Demand), PeriodInv, TypeInv', ServerInv(Demand),
         NEW s \in Synchronous, Released(s)
  PROVE  ServerInv(Demand)'
  <1> SUFFICES ASSUME Mode = "EDF"
               PROVE  ServerInv(Demand)'
    BY DEF ServerInv
  <1>0. /\ TypeInv /\ ReadClock /\ Synchronous \subseteq Task /\ s \in Task
        /\ nextDeadline \in [Task -> Int] /\ serverDeadline \in Nat
        /\ WorkLoad[s] \in Nat /\ Clock \in Nat /\ currentTime \in Nat
    BY TimeTypes, ClockType DEF PeriodInv, KernelInv, ClockInv
  <1>1. soft \in {"arrivals", "reschedule"} /\ UNCHANGED <<now, overflowFlag>>
    BY <1>0, ReleasedFacts
  <1>2. currentTime <= Clock /\ Clock' = Clock
    BY <1>0, <1>1 DEF ReadClock, Clock, Unmoved
  <1>3. nextDeadline[s] <= currentTime
    BY ReleasedDue DEF PeriodEnd
  <1>4. /\ serverDeadline' = GetSuspendedSchedulingDeadline(s)
        /\ nextDeadline' = [nextDeadline EXCEPT ![s] = serverDeadline']
    <2>1. PICK base \in Int : ReleaseSynchronous(s, base)
      BY <1>0, ReleasedFacts
    <2> QED
      BY <2>1 DEF ReleaseSynchronous
  <1>5. PICK top \in Nat :
          /\ top = IF serverDeadline > currentTime THEN serverDeadline ELSE currentTime
          /\ serverDeadline' = WorkLoad[s] + top
    BY <1>0, <1>4 DEF GetSuspendedSchedulingDeadline
  <1>6. /\ nextDeadline'[s] = serverDeadline'
        /\ \A u \in Synchronous : u # s => nextDeadline'[u] = nextDeadline[u]
    BY <1>0, <1>4
  <1>7. ASSUME NEW u \in Synchronous
        PROVE  nextDeadline'[u] <= serverDeadline'
    <2>1. nextDeadline[u] \in Int /\ nextDeadline[u] <= serverDeadline
      BY <1>0 DEF ServerInv
    <2> QED
      BY <1>0, <1>5, <1>6, <2>1
  <1>8. ASSUME NEW x \in Nat, x >= Clock
        PROVE  serverDeadline' <= x + Demand[DueAfter(x)']
    <2>1. serverDeadline <= x + Demand[DueAfter(x)] /\ currentTime <= x
      BY <1>0, <1>2, <1>8 DEF ServerInv
    <2>2. /\ Demand[DueAfter(x)] \in Nat /\ Demand[DueAfter(x)'] \in Nat
          /\ DueAfter(x) \in SUBSET Synchronous
      BY DEF SumsWorkLoads, DueAfter
    <2>3. CASE serverDeadline' <= x
      BY <2>2, <2>3, <1>0, <1>5
    <2>4. CASE ~(serverDeadline' <= x)
      <3>1. s \notin DueAfter(x)
        BY <1>0, <1>3, <2>1 DEF DueAfter
      <3>2. DueAfter(x)' = DueAfter(x) \cup {s}
        BY <1>0, <1>5, <1>6, <2>4 DEF DueAfter
      <3>3. Demand[DueAfter(x)'] = Demand[DueAfter(x)] + WorkLoad[s]
        BY <2>2, <3>1, <3>2 DEF SumsWorkLoads
      <3>4. top <= x + Demand[DueAfter(x)]
        BY <1>0, <1>5, <2>1, <2>2
      <3> QED
        BY <1>0, <1>5, <2>2, <3>3, <3>4
    <2> QED
      BY <2>3, <2>4
  <1> QED
    BY <1>2, <1>7, <1>8 DEF ServerInv

LEMMA ServerShift ==
  ASSUME NEW Demand, SumsWorkLoads(Demand), TypeInv, ServerInv(Demand),
         TestOverflow, overflowFlag
  PROVE  ServerInv(Demand)'
  <1> SUFFICES ASSUME Mode = "EDF"
               PROVE  ServerInv(Demand)'
    BY DEF ServerInv
  <1>0. /\ Synchronous \subseteq Task /\ nextDeadline \in [Task -> Int]
        /\ serverDeadline \in Nat /\ ShiftTimeLimit \in Nat
        /\ now \in Nat /\ Clock = now + ShiftTimeLimit
    BY TimeTypes, ClockType
  <1>1. /\ serverDeadline' = SubOrZeroIfNeg(serverDeadline)
        /\ \A s \in Synchronous : nextDeadline'[s] = SubOrZeroIfNeg(nextDeadline[s])
        /\ Clock' = now
    BY <1>0 DEF TestOverflow, ShiftTimes, Clock, Unmoved
  <1>2. ASSUME NEW s \in Synchronous
        PROVE  nextDeadline'[s] <= serverDeadline'
    <2>1. nextDeadline[s] \in Int /\ nextDeadline[s] <= serverDeadline
      BY <1>0 DEF ServerInv
    <2> QED
      BY <1>0, <1>1, <2>1 DEF SubOrZeroIfNeg
  <1>3. ASSUME NEW x \in Nat, x >= now
        PROVE  serverDeadline' <= x + Demand[DueAfter(x)']
    <2>1. ASSUME NEW s \in Synchronous
          PROVE  nextDeadline'[s] > x <=> nextDeadline[s] > x + ShiftTimeLimit
      <3>1. nextDeadline[s] \in Int
        BY <1>0
      <3> QED
        BY <1>0, <1>1, <3>1 DEF SubOrZeroIfNeg
    <2>2. DueAfter(x)' = DueAfter(x + ShiftTimeLimit)
      BY <2>1 DEF DueAfter
    <2>3. x + ShiftTimeLimit \in Nat /\ x + ShiftTimeLimit >= Clock
      BY <1>0, <1>3
    <2>4. serverDeadline <= (x + ShiftTimeLimit) + Demand[DueAfter(x + ShiftTimeLimit)]
      BY <2>3 DEF ServerInv
    <2>5. DueAfter(x + ShiftTimeLimit) \in SUBSET Synchronous
      BY DEF DueAfter
    <2>6. Demand[DueAfter(x + ShiftTimeLimit)] \in Nat
      BY <2>5 DEF SumsWorkLoads
    <2> QED
      BY <1>0, <1>1, <2>2, <2>4, <2>6 DEF SubOrZeroIfNeg
  <1> QED
    BY <1>1, <1>2, <1>3 DEF ServerInv

LEMMA ServerStep ==
  ASSUME NEW Demand, SumsWorkLoads(Demand), PeriodInv, TypeInv', ServerInv(Demand),
         [Next]_vars
  PROVE  ServerInv(Demand)'
  <1>0. /\ TypeInv /\ IdleOnce /\ Clock \in Nat
        /\ Periodic \cap Synchronous = {} /\ nextDeadline \in [Task -> Int]
        /\ Synchronous \subseteq Task
    BY TimeTypes, ClockType DEF PeriodInv, KernelInv, ClockInv
  <1>1. CASE Tick
    <2>1. Clock' = Clock + 1 /\ UNCHANGED <<nextDeadline, serverDeadline>>
      BY <1>0, <1>1, ClockTicks DEF Tick
    <2>2. Clock' \in Nat /\ Clock' >= Clock
      BY <1>0, <2>1
    <2> QED
      BY <1>0, <2>1, <2>2, ServerFrame
  <1>2. CASE TestOverflow /\ overflowFlag
    BY <1>0, <1>2, ServerShift
  <1>3. CASE \E s \in Synchronous : Released(s)
    BY <1>3, ServerRelease
  <1>4. CASE /\ ~Tick /\ ~(TestOverflow /\ overflowFlag)
             /\ ~\E s \in Synchronous : Released(s)
    <2>1. Clock' = Clock
      <3>1. CASE TestOverflow
        BY <3>1, <1>4 DEF TestOverflow, Clock, Unmoved
      <3> QED
        BY <3>1, <1>0, <1>4, ClockStays
    <2>2. /\ serverDeadline' = serverDeadline
          /\ \A s \in Synchronous : nextDeadline'[s] = nextDeadline[s]
      <3>1. CASE ~Scheduler
        BY <3>1, <1>0, <1>4, BelowScheduler DEF schedulerVars
      <3>2. CASE \E t \in Task : ReleasePeriodic(t)
        <4>1. PICK t \in Periodic :
                /\ serverDeadline' = serverDeadline
                /\ \/ nextDeadline' = nextDeadline
                   \/ nextDeadline' = [nextDeadline EXCEPT ![t] = low[t] + Deadline[t]]
          BY <3>2 DEF ReleasePeriodic
        <4>2. \A s \in Synchronous : s # t /\ s \in Task
          BY <1>0
        <4> QED
          BY <1>0, <4>1, <4>2
      <3>3. CASE \/ SoftTimerInterrupt \/ TestOverflow \/ ClearComparatorFlag \/ ReadTime
                 \/ (\E t \in Task : Overrun(t)) \/ ArrivalsDone
                 \/ (\E s \in Synchronous : RescheduleLater(s))
                 \/ RescheduleDone \/ SetTimer \/ ClearSoftTimerInterrupt \/ Again \/ Leave
        BY <3>3, <1>4
        DEF SoftTimerInterrupt, TestOverflow, ClearComparatorFlag, ReadTime, Overrun,
            ArrivalsDone, RescheduleLater, RescheduleDone, SetTimer,
            ClearSoftTimerInterrupt, Again, Leave
      <3>4. \A s : ArriveSynchronous(s) => s \in Synchronous
        BY DEF ArriveSynchronous
      <3> QED
        BY <1>4, <3>1, <3>2, <3>3, <3>4 DEF Scheduler, Released
    <2> QED
      BY <1>0, <2>1, <2>2, ServerFrame
  <1> QED
    BY <1>1, <1>2, <1>3, <1>4
-----------------------------------------------------------------------------
(***************************************************************************)
(* The width of the times.                                                 *)
(***************************************************************************)

(* The remainder of a periodic task's arrival is that of a turn.           *)
FitInv ==
  /\ TimesFit
  /\ \A t \in Periodic : low[t] < ShiftTimeLimit

LEMMA ServerBound ==
  ASSUME NEW Demand, Fits(Demand), TypeInv, PassInv, ServerInv(Demand), Mode = "EDF"
  PROVE  /\ serverDeadline < Word
         /\ \A s \in Synchronous : nextDeadline[s] < Word
  <1>0. /\ serverDeadline \in Nat /\ nextDeadline \in [Task -> Int]
        /\ Synchronous \subseteq Task /\ Clock \in Nat /\ now \in Nat
        /\ now < ShiftTimeLimit /\ latency \in Nat /\ MaxLatency \in Nat
        /\ ShiftTimeLimit \in Nat
        /\ overflowFlag => Clock = now + ShiftTimeLimit
        /\ ~overflowFlag => Clock = now
    BY TimeTypes, ClockType, TimingAssumption
  <1>1. Clock <= ShiftTimeLimit + MaxLatency
    BY <1>0 DEF PassInv
  <1>2. /\ DueAfter(Clock) \in SUBSET Synchronous /\ Synchronous \in SUBSET Synchronous
        /\ Clock >= Clock
    BY <1>0 DEF DueAfter
  <1>3. /\ Demand[DueAfter(Clock)] \in Nat /\ Demand[Synchronous] \in Nat
        /\ Demand[DueAfter(Clock)] <= Demand[Synchronous]
    BY <1>2 DEF Fits, SumsWorkLoads
  <1>4. serverDeadline <= Clock + Demand[DueAfter(Clock)]
    BY <1>0, <1>2 DEF ServerInv
  <1>5. MaxLatency + Demand[Synchronous] < ShiftTimeLimit
    BY DEF Fits
  <1>6. serverDeadline < Word
    BY <1>0, <1>1, <1>3, <1>4, <1>5 DEF Word
  <1>7. ASSUME NEW s \in Synchronous
        PROVE  nextDeadline[s] < Word
    <2>1. nextDeadline[s] \in Int /\ nextDeadline[s] <= serverDeadline
      BY <1>0 DEF ServerInv
    <2> QED
      BY <1>0, <1>6, <2>1 DEF Word
  <1> QED
    BY <1>6, <1>7

(* The next arrival of a periodic task, the carry of the remainder in it.  *)
LEMMA NextArrivalValues ==
  ASSUME TypeInv, NEW t \in Periodic, NextPeriodicArrival(t)
  PROVE  /\ due'[t] = due[t] + Period(t)
         /\ \/ /\ low[t] + PeriodLow[t] >= ShiftTimeLimit
               /\ high'[t] = PeriodHigh[t] + 1
               /\ low'[t] = (low[t] + PeriodLow[t]) - ShiftTimeLimit
            \/ /\ low[t] + PeriodLow[t] < ShiftTimeLimit
               /\ high'[t] = PeriodHigh[t]
               /\ low'[t] = low[t] + PeriodLow[t]
         /\ \A u \in Periodic : u # t => high'[u] = high[u] /\ due'[u] = due[u]
         /\ \A u \in Task : u # t => low'[u] = low[u]
  <1> DEFINE sum == low[t] + PeriodLow[t]
             carry == sum >= ShiftTimeLimit
  <1>1. /\ high \in [Periodic -> Nat] /\ low \in [Task -> Int] /\ due \in [Periodic -> Int]
        /\ t \in Task /\ PeriodHigh[t] \in Nat /\ PeriodLow[t] \in Int
        /\ ShiftTimeLimit \in Int /\ Period(t) \in Int
    BY TimingAssumption, TimeTypes DEF Period
  <1>2. /\ high' = [high EXCEPT ![t] = PeriodHigh[t] + IF carry THEN 1 ELSE 0]
        /\ low' = [low EXCEPT ![t] = IF carry THEN sum - ShiftTimeLimit ELSE sum]
        /\ due' = [due EXCEPT ![t] = @ + Period(t)]
    BY DEF NextPeriodicArrival
  <1>3. sum \in Int /\ (~carry => sum < ShiftTimeLimit)
    BY <1>1
  <1> HIDE DEF sum, carry
  <1>4. /\ due'[t] = due[t] + Period(t)
        /\ \A u \in Periodic : u # t => high'[u] = high[u] /\ due'[u] = due[u]
        /\ \A u \in Task : u # t => low'[u] = low[u]
    BY <1>1, <1>2
  <1>5. CASE carry
    <2>1. high'[t] = PeriodHigh[t] + 1 /\ low'[t] = sum - ShiftTimeLimit
      BY <1>1, <1>2, <1>5
    <2>2. low[t] + PeriodLow[t] >= ShiftTimeLimit
      BY <1>5 DEF carry, sum
    <2>3. low'[t] = (low[t] + PeriodLow[t]) - ShiftTimeLimit
      BY <2>1 DEF sum
    <2> QED
      BY <1>4, <2>1, <2>2, <2>3
  <1>6. CASE ~carry
    <2>1. high'[t] = PeriodHigh[t] /\ low'[t] = sum
      BY <1>1, <1>2, <1>6
    <2>2. low[t] + PeriodLow[t] < ShiftTimeLimit
      BY <1>3, <1>6 DEF sum
    <2>3. low'[t] = low[t] + PeriodLow[t]
      BY <2>1 DEF sum
    <2> QED
      BY <1>4, <2>1, <2>2, <2>3
  <1> QED
    BY <1>5, <1>6

LEMMA FitStep ==
  ASSUME PeriodInv, TypeInv', FitInv, [Next]_vars,
         Mode = "EDF" => /\ serverDeadline' < Word
                         /\ \A s \in Synchronous : nextDeadline'[s] < Word
  PROVE  FitInv'
  <1>0. /\ TypeInv /\ ReadClock /\ IdleOnce
        /\ low \in [Task -> Int] /\ nextDeadline \in [Task -> Int]
        /\ serverDeadline \in Nat /\ Synchronous \subseteq Task /\ Periodic \subseteq Task
        /\ Periodic \cap Synchronous = {} /\ Mode \in {"EDF", "DM"}
        /\ ShiftTimeLimit \in Nat \ {0} /\ currentTime \in Nat
        /\ currentTime < ShiftTimeLimit
        /\ Word = 2 * ShiftTimeLimit /\ Word' = Word
    BY TimeTypes, ClockType DEF PeriodInv, KernelInv, ClockInv, Word
  <1>1. ASSUME UNCHANGED <<low, nextDeadline, serverDeadline>>
        PROVE  FitInv'
    BY <1>0, <1>1 DEF FitInv, TimesFit
  <1>2. ASSUME NEW t \in Task, ReleasePeriodic(t) \/ Overrun(t)
        PROVE  FitInv'
    <2>1. /\ t \in Periodic /\ NextPeriodicArrival(t) /\ low[t] <= currentTime
          /\ serverDeadline' = serverDeadline
          /\ \/ nextDeadline' = nextDeadline
             \/ nextDeadline' = [nextDeadline EXCEPT ![t] = low[t] + Deadline[t]]
      BY <1>2 DEF ReleasePeriodic, Overrun, Arrives, HasArrived
    <2>2. /\ Deadline[t] \in Nat /\ Deadline[t] < ShiftTimeLimit
          /\ PeriodLow[t] \in Nat /\ PeriodLow[t] < ShiftTimeLimit
      BY <2>1, TimingAssumption
    <2>3. low[t] \in Int
      BY <1>0
    <2>4. /\ \/ low'[t] = (low[t] + PeriodLow[t]) - ShiftTimeLimit
             \/ (low'[t] = low[t] + PeriodLow[t] /\ low[t] + PeriodLow[t] < ShiftTimeLimit)
          /\ \A u \in Task : u # t => low'[u] = low[u]
      BY <1>0, <2>1, NextArrivalValues
    <2>5. low'[t] < ShiftTimeLimit /\ low'[t] \in Int
      BY <1>0, <2>1, <2>2, <2>3, <2>4
    <2>6. low[t] + Deadline[t] < Word
      BY <1>0, <2>1, <2>2, <2>3
    <2>7. \A u \in Task : u # t => low'[u] = low[u] /\ nextDeadline'[u] = nextDeadline[u]
      BY <1>0, <2>1, <2>4
    <2>8. nextDeadline'[t] < Word
      BY <1>0, <2>1, <2>6 DEF FitInv, TimesFit
    <2>9. low'[t] < Word
      BY <1>0, <2>5
    <2> QED
      BY <1>0, <2>1, <2>5, <2>7, <2>8, <2>9 DEF FitInv, TimesFit
  <1>3. ASSUME NEW s \in Synchronous, Released(s)
        PROVE  FitInv'
    <2>1. \A u \in Task : u # s => nextDeadline'[u] = nextDeadline[u] /\ low'[u] = low[u]
      BY <1>0, <1>3, ReleasedRest
    <2>2. PICK base \in Int : base <= currentTime /\ ReleaseSynchronous(s, base)
      BY <1>0, <1>3, ReleasedFacts
    <2>3. s \in Task /\ s \notin Periodic /\ WorkLoad[s] \in Nat /\ WorkLoad[s] < ShiftTimeLimit
      BY <1>0, TimingAssumption
    <2>4. CASE Mode = "EDF"
      <3>1. low' = low
        BY <2>2, <2>4 DEF ReleaseSynchronous
      <3>2. nextDeadline'[s] < Word /\ serverDeadline' < Word
        BY <2>4
      <3> QED
        BY <1>0, <2>1, <2>3, <3>1, <3>2 DEF FitInv, TimesFit
    <2>5. CASE Mode = "DM"
      <3>1. /\ low' = [low EXCEPT ![s] = base + WorkLoad[s]]
            /\ UNCHANGED <<nextDeadline, serverDeadline>>
        BY <2>2, <2>5 DEF ReleaseSynchronous
      <3>2. low'[s] < Word
        BY <1>0, <2>2, <2>3, <3>1
      <3> QED
        BY <1>0, <2>1, <2>3, <3>1, <3>2 DEF FitInv, TimesFit
    <2> QED
      BY <1>0, <2>4, <2>5
  <1>4. ASSUME NEW s \in Synchronous, RescheduleLater(s)
        PROVE  FitInv'
    <2>1. /\ low' = low \/ low' = [low EXCEPT ![s] = nextDeadline[s]]
          /\ UNCHANGED <<nextDeadline, serverDeadline>>
      BY <1>4 DEF RescheduleLater
    <2>2. \A u \in Task : low'[u] = low[u] \/ (u = s /\ low'[u] = nextDeadline[s])
      BY <1>0, <2>1
    <2> QED
      BY <1>0, <2>1, <2>2 DEF FitInv, TimesFit
  <1>5. CASE TestOverflow /\ overflowFlag
    <2>1. /\ \A t \in Task : \/ low'[t] = low[t]
                             \/ low'[t] = low[t] - ShiftTimeLimit
                             \/ low'[t] = SubOrZeroIfNeg(low[t])
          /\ \A t \in Task : \/ nextDeadline'[t] = nextDeadline[t]
                             \/ nextDeadline'[t] = nextDeadline[t] - ShiftTimeLimit
                             \/ nextDeadline'[t] = SubOrZeroIfNeg(nextDeadline[t])
          /\ \/ serverDeadline' = serverDeadline
             \/ serverDeadline' = SubOrZeroIfNeg(serverDeadline)
      BY <1>5 DEF TestOverflow, ShiftTimes
    <2>2. ASSUME NEW x \in Int, NEW bound \in Int, x < bound, bound > 0, NEW y,
                 y = x \/ y = x - ShiftTimeLimit \/ y = SubOrZeroIfNeg(x)
          PROVE  y < bound
      BY <1>0, <2>2 DEF SubOrZeroIfNeg
    <2>3. Word \in Int /\ Word > 0 /\ ShiftTimeLimit \in Int /\ ShiftTimeLimit > 0
      BY <1>0
    <2>4. ASSUME NEW t \in Task
          PROVE  low'[t] < Word /\ nextDeadline'[t] < Word
      <3>1. /\ low[t] \in Int /\ nextDeadline[t] \in Int
            /\ low[t] < Word /\ nextDeadline[t] < Word
        BY <1>0 DEF FitInv, TimesFit
      <3>2. low'[t] < Word
        BY <2>1, <2>2, <2>3, <3>1
      <3>3. nextDeadline'[t] < Word
        BY <2>1, <2>2, <2>3, <3>1
      <3> QED
        BY <3>2, <3>3
    <2>5. ASSUME NEW t \in Periodic
          PROVE  low'[t] < ShiftTimeLimit
      <3>1. t \in Task /\ low[t] \in Int /\ low[t] < ShiftTimeLimit
        BY <1>0 DEF FitInv
      <3> QED
        BY <2>1, <2>2, <2>3, <3>1
    <2>6. serverDeadline' < Word
      BY <1>0, <2>1, <2>2, <2>3 DEF FitInv, TimesFit
    <2> QED
      BY <1>0, <2>4, <2>5, <2>6 DEF FitInv, TimesFit
  <1>6. CASE \/ SoftTimerInterrupt \/ (TestOverflow /\ ~overflowFlag)
             \/ ClearComparatorFlag \/ ReadTime \/ ArrivalsDone
             \/ RescheduleDone \/ SetTimer \/ ClearSoftTimerInterrupt \/ Again \/ Leave
             \/ Tick
    BY <1>1, <1>6
    DEF SoftTimerInterrupt, TestOverflow, ClearComparatorFlag, ReadTime, ArrivalsDone,
        RescheduleDone, SetTimer, ClearSoftTimerInterrupt, Again, Leave, Tick
  <1>7. CASE ~Tick /\ ~Scheduler
    BY <1>0, <1>1, <1>7, BelowScheduler DEF schedulerVars
  <1>8. CASE Scheduler
    <2>1. \A s : ArriveSynchronous(s) => s \in Synchronous
      BY DEF ArriveSynchronous
    <2>2. CASE TestOverflow
      BY <1>5, <1>6, <2>2
    <2>3. CASE \E t \in Task : ReleasePeriodic(t) \/ Overrun(t)
      BY <1>2, <2>3
    <2>4. CASE \E s \in Synchronous : Released(s)
      BY <1>3, <2>4
    <2>5. CASE \E s \in Synchronous : RescheduleLater(s)
      BY <1>4, <2>5
    <2> QED
      BY <1>6, <1>8, <2>1, <2>2, <2>3, <2>4, <2>5 DEF Scheduler, Released
  <1> QED
    BY <1>6, <1>7, <1>8

(* The server's deadlines fit: what ServerBound says.                      *)
ServerFits ==
  Mode = "EDF" => /\ serverDeadline < Word
                  /\ \A s \in Synchronous : nextDeadline[s] < Word

ServedInv(Demand) == PeriodInv /\ PassInv /\ ServerInv(Demand)

LEMMA ServedInit ==
  ASSUME NEW Demand, Fits(Demand), Init
  PROVE  ServedInv(Demand) /\ FitInv
  <1>1. PeriodInv
    BY PeriodInit
  <1>2. /\ serverDeadline = 0 /\ latency = 0 /\ ~overflowFlag
        /\ \A t \in Task : low[t] = 0 /\ nextDeadline[t] = 0
        /\ Synchronous \subseteq Task /\ Periodic \subseteq Task
        /\ ShiftTimeLimit \in Nat \ {0} /\ MaxLatency \in Nat
    BY TimingAssumption DEF Init, Task
  <1>3. PassInv
    BY <1>2 DEF PassInv
  <1>4. \A x \in Nat : Demand[DueAfter(x)] \in Nat
    BY DEF Fits, SumsWorkLoads, DueAfter
  <1>5. ServerInv(Demand)
    <2>1. \A x \in Nat : 0 <= x + Demand[DueAfter(x)]
      BY <1>4
    <2>2. \A s \in Synchronous : nextDeadline[s] <= serverDeadline
      BY <1>2
    <2> QED
      BY <1>2, <2>1, <2>2 DEF ServerInv
  <1>6. FitInv
    BY <1>2 DEF FitInv, TimesFit, Word
  <1> QED
    BY <1>1, <1>3, <1>5, <1>6 DEF ServedInv

LEMMA ServedStep ==
  ASSUME NEW Demand, Fits(Demand), ServedInv(Demand), [Next]_vars
  PROVE  ServedInv(Demand)'
  <1>1. PeriodInv' /\ TypeInv' /\ TypeInv /\ IdleOnce
    BY PeriodStep DEF ServedInv, PeriodInv, KernelInv, ClockInv
  <1>2. PassInv'
    BY <1>1, PassStep DEF ServedInv
  <1>3. ServerInv(Demand)'
    BY <1>1, ServerStep DEF ServedInv, Fits
  <1> QED
    BY <1>1, <1>2, <1>3 DEF ServedInv

(* What is needed of the times to know when a release comes.               *)
WidthInv == PeriodInv /\ PassInv /\ FitInv

THEOREM WidthInvariance ==
  ASSUME NEW Demand, Fits(Demand)
  PROVE  Spec => []WidthInv
  <1>1. Init => ServedInv(Demand) /\ FitInv
    BY ServedInit
  <1>2. ServedInv(Demand) /\ [Next]_vars => ServedInv(Demand)'
    BY ServedStep
  <1>3. ServedInv(Demand) => ServerFits
    BY ServerBound DEF ServedInv, PeriodInv, KernelInv, ClockInv, ServerFits
  <1>4. ServedInv(Demand) /\ ServedInv(Demand)' /\ ServerFits' /\ FitInv /\ [Next]_vars
          => FitInv'
    <2> SUFFICES ASSUME ServedInv(Demand), ServedInv(Demand)', ServerFits', FitInv,
                        [Next]_vars
                 PROVE  FitInv'
      OBVIOUS
    <2>1. PeriodInv /\ TypeInv'
      BY DEF ServedInv, PeriodInv, KernelInv, ClockInv
    <2>2. Mode = "EDF" => /\ serverDeadline' < Word
                          /\ \A s \in Synchronous : nextDeadline'[s] < Word
      BY DEF ServerFits, Word
    <2> QED
      BY <2>1, <2>2, FitStep
  <1>5. ServedInv(Demand) /\ FitInv => WidthInv
    BY DEF ServedInv, WidthInv
  <1> QED
    BY <1>1, <1>2, <1>3, <1>4, <1>5, PTL DEF Spec

(* Times fit their word: if the workloads of the event-driven tasks come,  *)
(* with the ticks of a pass of the scheduler, to less than a turn of the   *)
(* clock, no time the kernel keeps reaches two turns, 2^31.  Under EDF the *)
(* server's deadline, which a release only adds to while it lies ahead,    *)
(* stays below it because the workloads in it that lie ahead are of        *)
(* different tasks.                                                        *)
THEOREM Widths ==
  ASSUME NEW Demand, Fits(Demand)
  PROVE  Spec => []TimesFit
  <1>1. WidthInv => TimesFit
    BY DEF WidthInv, FitInv
  <1> QED
    BY <1>1, WidthInvariance, PTL

-----------------------------------------------------------------------------
(***************************************************************************)
(* The order of the arrival queue.                                         *)
(***************************************************************************)

(* How far ahead an arrival lies: d the true times to the releases of the  *)
(* periodic tasks, l the remainders, c the clock.                          *)
AheadBy(t, d, l, c) == IF t \in Periodic THEN d[t] ELSE l[t] - c

Ahead(t) == AheadBy(t, due, low, Clock)

(* The arrivals of q come in turn, those past in any order.                *)
TurnsIn(q, d, l, c) ==
  \A t, u \in Task :
    Before(t, u, q) =>
      \/ AheadBy(t, d, l, c) <= AheadBy(u, d, l, c)
      \/ AheadBy(t, d, l, c) <= 0

(* The times the queue is ordered by: they agree with the true ones, a     *)
(* remainder is less than a turn and, where full turns go before it, no    *)
(* less than zero.                                                         *)
Times(h, l, d, c) ==
  /\ h \in [Periodic -> Nat] /\ l \in [Task -> Int] /\ d \in [Periodic -> Int] /\ c \in Nat
  /\ \A t \in Periodic :
       /\ (h[t] * ShiftTimeLimit + l[t]) - c = d[t]
       /\ l[t] < ShiftTimeLimit
       /\ h[t] > 0 => l[t] >= 0
  /\ \A s \in Synchronous : l[s] < 2 * ShiftTimeLimit

LEMMA KeyOrder ==
  ASSUME NEW h1 \in Nat, NEW h2 \in Nat, NEW l1 \in Int, NEW l2 \in Int, NEW turn \in Nat,
         l1 < turn, h2 > 0 => l2 >= 0,
         h1 < h2 \/ (h1 = h2 /\ l1 <= l2)
  PROVE  h1 * turn + l1 <= h2 * turn + l2
  <1>1. CASE h1 = h2
    BY <1>1
  <1>2. CASE h1 < h2
    <2>1. PICK k \in Nat : h2 = h1 + 1 + k
      <3>1. h2 - h1 - 1 \in Nat \/ h2 - (h1 + 1) \in Nat
        BY <1>2
      <3>2. h2 - (h1 + 1) \in Nat /\ h2 = h1 + 1 + (h2 - (h1 + 1))
        BY <1>2
      <3> QED
        BY <3>2
    <2>2. h2 * turn = h1 * turn + turn + k * turn
      BY <2>1
    <2>3. /\ k * turn \in Nat /\ h1 * turn \in Nat
          /\ l2 >= 0
      BY <1>2
    <2> QED
      BY <2>2, <2>3
  <1> QED
    BY <1>1, <1>2

(* An arrival lies as far ahead as its turns and its remainder say.        *)
LEMMA TimeOfKey ==
  ASSUME NEW h, NEW l, NEW d, NEW c, Times(h, l, d, c), NEW t \in Task
  PROVE  /\ ArrivalHigh(t, h, l) \in Nat /\ ArrivalLow(t, l) \in Int
         /\ ArrivalLow(t, l) < ShiftTimeLimit
         /\ ArrivalHigh(t, h, l) > 0 => ArrivalLow(t, l) >= 0
         /\ AheadBy(t, d, l, c) \in Int
         /\ AheadBy(t, d, l, c) =
              (ArrivalHigh(t, h, l) * ShiftTimeLimit + ArrivalLow(t, l)) - c
  <1>0. /\ ShiftTimeLimit \in Nat \ {0} /\ Periodic \cap Synchronous = {}
        /\ Task = Periodic \cup Synchronous
    BY TimingAssumption, TaskAssumption DEF Task
  <1>1. CASE t \in Periodic
    <2>1. /\ ArrivalHigh(t, h, l) = h[t] /\ ArrivalLow(t, l) = l[t]
          /\ AheadBy(t, d, l, c) = d[t]
      BY <1>0, <1>1 DEF ArrivalHigh, ArrivalLow, AheadBy
    <2>2. /\ h[t] \in Nat /\ l[t] \in Int /\ d[t] \in Int
          /\ (h[t] * ShiftTimeLimit + l[t]) - c = d[t]
          /\ l[t] < ShiftTimeLimit /\ (h[t] > 0 => l[t] >= 0)
      BY <1>1 DEF Times
    <2> QED
      BY <2>1, <2>2
  <1>2. CASE t \in Synchronous
    <2>0. t \notin Periodic /\ AheadBy(t, d, l, c) = l[t] - c
      BY <1>0, <1>2 DEF AheadBy
    <2>1. l[t] \in Int /\ c \in Nat /\ l[t] < 2 * ShiftTimeLimit
      BY <1>2 DEF Times
    <2>2. CASE l[t] >= ShiftTimeLimit
      <3>1. ArrivalHigh(t, h, l) = 1 /\ ArrivalLow(t, l) = l[t] - ShiftTimeLimit
        BY <1>2, <2>0, <2>2 DEF ArrivalHigh, ArrivalLow
      <3>2. 1 * ShiftTimeLimit + (l[t] - ShiftTimeLimit) = l[t]
        BY <1>0, <2>1
      <3> QED
        BY <1>0, <2>0, <2>1, <2>2, <3>1, <3>2
    <2>3. CASE ~(l[t] >= ShiftTimeLimit)
      <3>1. ArrivalHigh(t, h, l) = 0 /\ ArrivalLow(t, l) = l[t]
        BY <1>2, <2>0, <2>3 DEF ArrivalHigh, ArrivalLow
      <3>2. 0 * ShiftTimeLimit + l[t] = l[t]
        BY <1>0, <2>1
      <3> QED
        BY <1>0, <2>0, <2>1, <2>3, <3>1, <3>2
    <2> QED
      BY <2>2, <2>3
  <1> QED
    BY <1>0, <1>1, <1>2

(* The code's key puts an arrival before those that are no earlier.        *)
LEMMA KeyIsTime ==
  ASSUME NEW h, NEW l, NEW d, NEW c, Times(h, l, d, c), NEW t \in Task, NEW u \in Task
  PROVE  /\ ArrivalQueueInsertTestKey(t, h, l)[u] =>
              AheadBy(t, d, l, c) <= AheadBy(u, d, l, c)
         /\ ~ArrivalQueueInsertTestKey(t, h, l)[u] =>
              AheadBy(u, d, l, c) <= AheadBy(t, d, l, c)
  <1> DEFINE ht == ArrivalHigh(t, h, l)
             hu == ArrivalHigh(u, h, l)
             lt == ArrivalLow(t, l)
             lu == ArrivalLow(u, l)
             at == AheadBy(t, d, l, c)
             au == AheadBy(u, d, l, c)
             S == ShiftTimeLimit
  <1>1. ArrivalQueueInsertTestKey(t, h, l)[u] <=> ht < hu \/ (ht = hu /\ lt <= lu)
    BY DEF ArrivalQueueInsertTestKey
  <1>2. /\ ht \in Nat /\ lt \in Int /\ lt < S /\ (ht > 0 => lt >= 0)
        /\ at \in Int /\ at = (ht * S + lt) - c
    BY TimeOfKey
  <1>3. /\ hu \in Nat /\ lu \in Int /\ lu < S /\ (hu > 0 => lu >= 0)
        /\ au \in Int /\ au = (hu * S + lu) - c
    BY TimeOfKey
  <1>4. S \in Nat /\ c \in Nat
    BY TimingAssumption DEF Times
  <1> HIDE DEF ht, hu, lt, lu, at, au, S
  <1>5. ht < hu \/ (ht = hu /\ lt <= lu) => ht * S + lt <= hu * S + lu
    BY <1>2, <1>3, <1>4, KeyOrder
  <1>6. ~(ht < hu \/ (ht = hu /\ lt <= lu)) => hu * S + lu <= ht * S + lt
    <2>1. ~(ht < hu \/ (ht = hu /\ lt <= lu)) => hu < ht \/ (hu = ht /\ lu <= lt)
      BY <1>2, <1>3
    <2> QED
      BY <2>1, <1>2, <1>3, <1>4, KeyOrder
  <1>7. ht * S \in Int /\ hu * S \in Int
    BY <1>2, <1>3, <1>4
  <1>8. ht * S + lt <= hu * S + lu => at <= au
    BY <1>2, <1>3, <1>4, <1>7
  <1>9. hu * S + lu <= ht * S + lt => au <= at
    BY <1>2, <1>3, <1>4, <1>7
  <1> QED
    BY <1>1, <1>5, <1>6, <1>8, <1>9 DEF at, au

(* A task inserted among arrivals that come in turn comes in turn.         *)
LEMMA InsertInTurn ==
  ASSUME NEW h, NEW l, NEW d, NEW c, Times(h, l, d, c),
         NEW q \in Seq(Task), NoDup(q), NEW t \in Task, ~InQueue(t, q),
         TurnsIn(q, d, l, c), NEW r, r = ArrivalQueueInsert(t, q, h, l)
  PROVE  TurnsIn(r, d, l, c)
  <1> DEFINE A(u) == AheadBy(u, d, l, c)
             precedes == ArrivalQueueInsertTestKey(t, h, l)
  <1>0. \A u \in Task : A(u) \in Int
    BY TimeOfKey
  <1>1. r = InsertQueue(t, q, precedes)
    BY DEF ArrivalQueueInsert
  <1>2. \A u, v : u # t /\ v # t => (Before(u, v, r) <=> Before(u, v, q))
    BY <1>1, InsertOrder
  <1>3. /\ \A u \in Task : Before(t, u, r) =>
             /\ InQueue(u, q)
             /\ precedes[u] \/ \E v \in Task : precedes[v] /\ Before(v, u, q)
        /\ \A u \in Task : Before(u, t, r) => InQueue(u, q) /\ ~precedes[u]
    BY <1>1, InsertAmong
  <1>4. \A u, v \in Task : Before(u, v, q) => A(u) <= A(v) \/ A(u) <= 0
    BY DEF TurnsIn
  <1>5. /\ \A u \in Task : precedes[u] => A(t) <= A(u)
        /\ \A u \in Task : ~precedes[u] => A(u) <= A(t)
    BY KeyIsTime
  <1> HIDE DEF A, precedes
  <1>6. ASSUME NEW u \in Task, Before(t, u, r)
        PROVE  A(t) <= A(u) \/ A(t) <= 0
    <2>1. CASE precedes[u]
      BY <1>5, <2>1
    <2>2. ASSUME NEW v \in Task, precedes[v], Before(v, u, q)
          PROVE  A(t) <= A(u) \/ A(t) <= 0
      BY <1>0, <1>4, <1>5, <2>2
    <2> QED
      BY <1>3, <1>6, <2>1, <2>2
  <1>7. ASSUME NEW u \in Task, NEW v \in Task, Before(u, v, r), u # t
        PROVE  A(u) <= A(v) \/ A(u) <= 0
    BY <1>2, <1>3, <1>4, <1>5, <1>7
  <1> QED
    BY <1>6, <1>7 DEF TurnsIn, A
-----------------------------------------------------------------------------
(***************************************************************************)
(* The inductive invariant.                                                *)
(***************************************************************************)

(* No arrival has a remainder below zero while it has full turns.          *)
Rests == \A t \in Periodic : high[t] > 0 => low[t] >= 0

TimesHold == Times(high, low, due, Clock)

InTurn == TurnsIn(arrivalQ, due, low, Clock)

(* A release is late by no more than the scheduler has been at it.         *)
NotLate == \A t \in Periodic : due[t] >= -latency

(* The scheduler is asked for, and runs, once the timer does.              *)
Woken == Busy => booted

(* The scheduler comes back for a task on the list of those to reschedule  *)
(* and for the flag of a timer interrupt.                                  *)
Listed == booted /\ reschedule # <<>> => Busy
Asked == booted /\ soft = "out" /\ ~pendSoft => ~overflowFlag /\ ~comparatorFlag

(* Once it has set the timer, and until a flag is up, every arrival lies   *)
(* ahead, and the alarm before every one of this turn.                     *)
Set == soft \in {"pending", "check"} \/ (soft = "out" /\ ~pendSoft)

Alarmed ==
  booted /\ ~overflowFlag /\ ~comparatorFlag /\ Set =>
    \A t \in Task :
      InQueue(t, arrivalQ) =>
        /\ Ahead(t) > 0
        /\ ArrivalHigh(t, high, low) = 0 => 0 < alarm /\ alarm <= Ahead(t)

PunctualInv ==
  Rests /\ InTurn /\ NotLate /\ Woken /\ Listed /\ Asked /\ Alarmed

LEMMA WidthFacts ==
  ASSUME WidthInv
  PROVE  /\ TypeInv /\ ClockInv /\ PeriodInv /\ PassInv /\ FitInv /\ IdleOnce /\ Links
         /\ AlwaysArriving /\ NoDup(arrivalQ)
         /\ \A s \in Synchronous : InQueue(s, arrivalQ) => ~InQueue(s, reschedule)
         /\ high \in [Periodic -> Nat] /\ low \in [Task -> Int] /\ due \in [Periodic -> Int]
         /\ Clock \in Nat /\ now \in Nat /\ now < ShiftTimeLimit /\ latency \in Nat
         /\ currentTime \in Nat /\ currentTime < ShiftTimeLimit
         /\ alarm \in Nat /\ arrivalQ \in Seq(Task) /\ reschedule \in Seq(Synchronous)
         /\ ShiftTimeLimit \in Nat \ {0} /\ MaxLatency \in Nat
         /\ Synchronous \subseteq Task /\ Periodic \subseteq Task
         /\ Periodic \cap Synchronous = {} /\ Task = Periodic \cup Synchronous
  <1>1. /\ TypeInv /\ ClockInv /\ PeriodInv /\ PassInv /\ FitInv /\ IdleOnce /\ Links
        /\ AlwaysArriving /\ NoDup(arrivalQ)
    BY DEF WidthInv, PeriodInv, KernelInv, ClockInv, Links
  <1>2. \A s \in Synchronous : InQueue(s, arrivalQ) => ~InQueue(s, reschedule)
    BY <1>1 DEF Links, Linked
  <1>3. MaxLatency \in Nat /\ Task = Periodic \cup Synchronous
    BY TimingAssumption DEF Task
  <1> QED
    BY <1>1, <1>2, <1>3, TimeTypes, ClockType

LEMMA TimesOfState == WidthInv /\ Rests => TimesHold
  <1> SUFFICES ASSUME WidthInv, Rests
               PROVE  TimesHold
    OBVIOUS
  <1>1. /\ high \in [Periodic -> Nat] /\ low \in [Task -> Int] /\ due \in [Periodic -> Int]
        /\ Clock \in Nat /\ ClockInv /\ FitInv /\ now \in Nat /\ TypeInv
        /\ ShiftTimeLimit \in Nat /\ Synchronous \subseteq Task /\ Periodic \subseteq Task
    BY WidthFacts
  <1>2. ASSUME NEW t \in Periodic
        PROVE  (high[t] * ShiftTimeLimit + low[t]) - Clock = due[t]
    <2> DEFINE x == high[t] * ShiftTimeLimit + low[t]
               m == Unmoved
    <2>1. x - now - m = due[t]
      BY <1>1, AgreeUnfolded
    <2>2. x \in Int /\ m \in Nat
      BY <1>1, OrderTypes
    <2> HIDE DEF x, m
    <2>3. x - (now + m) = due[t]
      BY <1>1, <2>1, <2>2
    <2> QED
      BY <2>3 DEF x, m, Clock
  <1>3. \A t \in Periodic : low[t] < ShiftTimeLimit /\ (high[t] > 0 => low[t] >= 0)
    BY <1>1 DEF FitInv, Rests
  <1>4. \A s \in Synchronous : low[s] < 2 * ShiftTimeLimit
    BY <1>1 DEF FitInv, TimesFit, Word
  <1> QED
    BY <1>1, <1>2, <1>3, <1>4 DEF TimesHold, Times

(* An arrival has come, lies in this turn of the clock or beyond it.       *)
LEMMA AheadOf ==
  ASSUME WidthInv, TimesHold, NEW t \in Task
  PROVE  /\ Ahead(t) \in Int /\ ArrivalHigh(t, high, low) \in Nat
         /\ ArrivalHigh(t, high, low) > 0 => Ahead(t) >= ShiftTimeLimit - Clock
         /\ ArrivalHigh(t, high, low) = 0 =>
              /\ Ahead(t) = low[t] - Clock
              /\ low[t] < ShiftTimeLimit
  <1> DEFINE h == ArrivalHigh(t, high, low)
             l == ArrivalLow(t, low)
             S == ShiftTimeLimit
  <1>1. /\ h \in Nat /\ l \in Int /\ l < S /\ (h > 0 => l >= 0)
        /\ Ahead(t) \in Int /\ Ahead(t) = (h * S + l) - Clock
    BY TimeOfKey DEF TimesHold, Ahead
  <1>2. S \in Nat \ {0} /\ Clock \in Nat
    BY WidthFacts
  <1>3. h = 0 => l = low[t]
    <2>1. CASE t \in Synchronous
      <3>1. t \notin Periodic
        BY <2>1, WidthFacts
      <3> QED
        BY <2>1, <3>1 DEF ArrivalHigh, ArrivalLow
    <2>2. CASE t \notin Synchronous
      BY <2>2 DEF ArrivalLow
    <2> QED
      BY <2>1, <2>2
  <1> HIDE DEF h, l, S
  <1>4. h = 0 => Ahead(t) = low[t] - Clock /\ low[t] < S
    BY <1>1, <1>2, <1>3
  <1>5. h > 0 => Ahead(t) >= S - Clock
    <2> SUFFICES ASSUME h > 0
                 PROVE  Ahead(t) >= S - Clock
      OBVIOUS
    <2>1. PICK k \in Nat : h = k + 1
      <3>1. h - 1 \in Nat /\ h = (h - 1) + 1
        BY <1>1
      <3> QED
        BY <3>1
    <2>2. h * S = k * S + S /\ k * S \in Nat
      BY <1>2, <2>1
    <2> QED
      BY <1>1, <1>2, <2>2
  <1> QED
    BY <1>1, <1>4, <1>5 DEF h, S

-----------------------------------------------------------------------------
(***************************************************************************)
(* What a step does to the arrivals.                                       *)
(***************************************************************************)

(* A periodic task's arrival has come and its next one takes its place.    *)
Passes(t) ==
  /\ soft = "arrivals" /\ soft' \in {"arrivals", "stopped"}
  /\ arrivalQ # <<>> /\ t = arrivalQ[1] /\ high[t] = 0 /\ low[t] <= currentTime
  /\ NextPeriodicArrival(t)
  /\ UNCHANGED <<Clock, latency>>

(* No arrival moves and none is added.                                     *)
NoneMoves ==
  /\ UNCHANGED <<high, due, Clock>>
  /\ arrivalQ' = arrivalQ \/ (arrivalQ # <<>> /\ arrivalQ' = Tail(arrivalQ))
  /\ \A t \in Task : t \in Periodic \/ InQueue(t, arrivalQ') => low'[t] = low[t]

LEMMA ArrivalSteps ==
  ASSUME WidthInv, [Next]_vars
  PROVE  \/ Tick
         \/ TestOverflow /\ overflowFlag
         \/ \E t \in Periodic : Passes(t)
         \/ \E s \in Synchronous : RescheduleLater(s)
         \/ NoneMoves
  <1>0. /\ TypeInv /\ IdleOnce /\ PeriodInv /\ ReadClock /\ arrivalQ \in Seq(Task)
        /\ NoDup(arrivalQ)
        /\ reschedule \in Seq(Synchronous) /\ Periodic \cap Synchronous = {}
        /\ Synchronous \subseteq Task
        /\ \A s \in Synchronous : InQueue(s, arrivalQ) => ~InQueue(s, reschedule)
    BY WidthFacts DEF PeriodInv
  <1>1. ASSUME ~Tick, ~TestOverflow
        PROVE  Clock' = Clock
    BY <1>0, <1>1, ClockStays
  <1>2. CASE ~Tick /\ ~Scheduler
    <2>1. UNCHANGED <<high, low, due, arrivalQ>>
      BY <1>0, <1>2, BelowScheduler DEF schedulerVars
    <2>2. Clock' = Clock
      BY <1>1, <1>2 DEF Scheduler
    <2> QED
      BY <2>1, <2>2 DEF NoneMoves
  <1>3. CASE TestOverflow /\ ~overflowFlag
    <2>1. UNCHANGED <<high, low, due, arrivalQ, now>> /\ ~overflowFlag'
      BY <1>3 DEF TestOverflow
    <2>2. Clock' = Clock
      BY <1>3, <2>1 DEF Clock, Unmoved
    <2> QED
      BY <2>1, <2>2 DEF NoneMoves
  <1>4. ASSUME ~Tick, ~TestOverflow, NEW t \in Task, ReleasePeriodic(t) \/ Overrun(t)
        PROVE  \E u \in Periodic : Passes(u)
    <2>1. /\ t \in Periodic /\ soft = "arrivals" /\ soft' \in {"arrivals", "stopped"}
          /\ arrivalQ # <<>> /\ t = arrivalQ[1] /\ high[t] = 0 /\ low[t] <= currentTime
          /\ NextPeriodicArrival(t) /\ latency' = latency
      BY <1>4 DEF ReleasePeriodic, Overrun, Arrives, HasArrived, SoftAt
    <2> QED
      BY <1>1, <1>4, <2>1 DEF Passes
  <1>5. ASSUME ~Tick, ~TestOverflow, NEW s \in Synchronous, Released(s)
        PROVE  NoneMoves
    <2>1. /\ UNCHANGED <<high, due>>
          /\ \/ arrivalQ # <<>> /\ s = arrivalQ[1] /\ arrivalQ' = Tail(arrivalQ)
             \/ reschedule # <<>> /\ s = reschedule[1] /\ arrivalQ' = arrivalQ
      BY <1>0, <1>5, ReleasedFacts
    <2>2. Clock' = Clock
      BY <1>1, <1>5
    <2>3. \A u \in Task : u # s => low'[u] = low[u]
      <3>1. PICK base \in Int : ReleaseSynchronous(s, base)
        BY <1>0, <1>5, ReleasedFacts
      <3>2. low' = low \/ low' = [low EXCEPT ![s] = base + WorkLoad[s]]
        BY <3>1 DEF ReleaseSynchronous
      <3>3. low \in [Task -> Int]
        BY WidthFacts
      <3> QED
        BY <3>2, <3>3
    <2>4. ~InQueue(s, arrivalQ') /\ s \notin Periodic
      <3>1. CASE arrivalQ # <<>> /\ s = arrivalQ[1] /\ arrivalQ' = Tail(arrivalQ)
        BY <3>1, <1>0, TailOrder
      <3>2. CASE reschedule # <<>> /\ s = reschedule[1] /\ arrivalQ' = arrivalQ
        <4>1. InQueue(s, reschedule)
          BY <3>2, <1>0, LenProperties, EmptySeq DEF InQueue
        <4> QED
          BY <3>2, <4>1, <1>0
      <3> QED
        BY <2>1, <3>1, <3>2, <1>0
    <2> QED
      BY <2>1, <2>2, <2>3, <2>4 DEF NoneMoves
  <1>6. ASSUME ~Tick, ~TestOverflow,
               \/ SoftTimerInterrupt \/ ClearComparatorFlag \/ ReadTime \/ ArrivalsDone
               \/ RescheduleDone \/ SetTimer \/ ClearSoftTimerInterrupt \/ Again \/ Leave
        PROVE  NoneMoves
    <2>1. UNCHANGED <<high, low, due, arrivalQ>>
      BY <1>6
      DEF SoftTimerInterrupt, ClearComparatorFlag, ReadTime, ArrivalsDone,
          RescheduleDone, SetTimer, ClearSoftTimerInterrupt, Again, Leave
    <2>2. Clock' = Clock
      BY <1>1, <1>6
    <2> QED
      BY <2>1, <2>2 DEF NoneMoves
  <1>7. CASE Scheduler /\ ~Tick /\ ~TestOverflow
    <2>1. \A s : ArriveSynchronous(s) => s \in Synchronous
      BY DEF ArriveSynchronous
    <2>2. CASE \E t \in Task : ReleasePeriodic(t) \/ Overrun(t)
      BY <1>4, <1>7, <2>2
    <2>3. CASE \E s \in Synchronous : Released(s)
      BY <1>5, <1>7, <2>3
    <2> QED
      BY <1>6, <1>7, <2>1, <2>2, <2>3 DEF Scheduler, Released
  <1> QED
    BY <1>2, <1>3, <1>7
-----------------------------------------------------------------------------
(***************************************************************************)
(* The steps of the invariant.                                             *)
(***************************************************************************)

(* A tick brings every arrival nearer.                                     *)
LEMMA TickNears ==
  ASSUME WidthInv, Tick
  PROVE  /\ UNCHANGED <<high, low, arrivalQ, reschedule, soft, booted>>
         /\ \A t \in Periodic : due'[t] = due[t] - 1
         /\ Clock' = Clock + 1
         /\ ~comparatorFlag' => ~comparatorFlag /\ alarm # 1
         /\ ~overflowFlag' => ~overflowFlag /\ now # ShiftTimeLimit - 1
         /\ pendSoft => pendSoft'
         /\ comparatorFlag' => comparatorFlag \/ pendSoft'
         /\ overflowFlag' => overflowFlag \/ pendSoft'
  <1>1. /\ UNCHANGED <<high, low, arrivalQ, reschedule, soft, booted>>
        /\ due' = [t \in Periodic |-> due[t] - 1]
    BY DEF Tick
  <1>2. Clock' = Clock + 1
    BY ClockTicks, WidthFacts
  <1>3. /\ comparatorFlag' = (comparatorFlag \/ Matches)
        /\ overflowFlag' = (overflowFlag \/ Wraps)
        /\ pendSoft' = (pendSoft \/ Matches \/ Wraps)
    BY Zenon DEF Tick
  <1>4. /\ comparatorFlag' <=> comparatorFlag \/ Matches
        /\ overflowFlag' <=> overflowFlag \/ Wraps
        /\ pendSoft' <=> pendSoft \/ Matches \/ Wraps
    BY <1>3, Zenon
  <1> QED
    BY <1>1, <1>2, <1>4 DEF Matches, Wraps

(* The ticks of a pass are counted until it ends.                          *)
LEMMA LatencySteps ==
  ASSUME WidthInv, [Next]_vars, ~Tick
  PROVE  Leave \/ latency' = latency
  <1>1. CASE Scheduler
    BY <1>1
    DEF Scheduler, SoftTimerInterrupt, TestOverflow, ClearComparatorFlag, ReadTime,
        ReleasePeriodic, Overrun, ArriveSynchronous, ArrivalsDone, RescheduleLater,
        RescheduleNow, RescheduleDone, SetTimer, ClearSoftTimerInterrupt, Again
  <1>2. CASE ~Scheduler
    BY <1>2, BelowScheduler, WidthFacts DEF schedulerVars
  <1> QED
    BY <1>1, <1>2

LEMMA RestsStep ==
  ASSUME WidthInv, Rests, NotLate, RemaindersCover, [Next]_vars
  PROVE  Rests'
  <1>0. /\ high \in [Periodic -> Nat] /\ low \in [Task -> Int] /\ due \in [Periodic -> Int]
        /\ AlwaysArriving /\ TypeInv /\ Periodic \cap Synchronous = {}
        /\ Periodic \subseteq Task /\ Synchronous \subseteq Task
        /\ MaxLatency \in Nat /\ latency \in Nat /\ Clock \in Nat /\ ShiftTimeLimit \in Nat
    BY WidthFacts
  <1>1. CASE Tick
    BY <1>1, TickNears DEF Rests
  <1>2. CASE TestOverflow /\ overflowFlag
    <2>1. ShiftTimes
      BY <1>2 DEF TestOverflow
    <2>2. \A t \in Periodic :
            /\ high'[t] = IF high[t] > 0 THEN high[t] - 1 ELSE high[t]
            /\ high[t] > 0 => low'[t] = low[t]
      BY <1>0, <2>1 DEF ShiftTimes, AlwaysArriving
    <2> QED
      BY <1>0, <2>2 DEF Rests
  <1>3. ASSUME NEW t \in Periodic, Passes(t)
        PROVE  Rests'
    <2>0. /\ high[t] = 0 /\ NextPeriodicArrival(t) /\ TimesHold
          /\ low[t] \in Int /\ due[t] \in Int
          /\ PeriodHigh[t] \in Nat /\ PeriodLow[t] \in Nat
          /\ latency <= MaxLatency
      BY <1>0, <1>3, TimesOfState, TimingAssumption, WidthFacts DEF Passes, PassInv
    <2>1. low[t] - Clock = due[t]
      <3>1. Ahead(t) = low[t] - Clock /\ Ahead(t) = due[t]
        <4>1. ArrivalHigh(t, high, low) = 0
          BY <2>0 DEF ArrivalHigh
        <4> QED
          BY <4>1, <2>0, <1>0, AheadOf DEF Ahead, AheadBy
      <3> QED
        BY <3>1
    <2>2. due[t] >= -latency
      BY DEF NotLate
    <2>3. low[t] >= -MaxLatency
      BY <1>0, <2>0, <2>1, <2>2
    <2>4. high'[t] > 0 => low'[t] >= 0
      <3>1. CASE /\ low[t] + PeriodLow[t] >= ShiftTimeLimit
                 /\ low'[t] = (low[t] + PeriodLow[t]) - ShiftTimeLimit
        BY <3>1, <1>0, <2>0
      <3>2. CASE high'[t] = PeriodHigh[t] /\ low'[t] = low[t] + PeriodLow[t]
        <4>1. high'[t] > 0 => PeriodLow[t] >= MaxLatency
          BY <3>2 DEF RemaindersCover
        <4> QED
          BY <3>2, <4>1, <2>0, <2>3, <1>0
      <3> QED
        BY <3>1, <3>2, <1>0, <2>0, NextArrivalValues
    <2>5. /\ \A u \in Periodic : u # t => high'[u] = high[u]
          /\ \A u \in Periodic : u # t => low'[u] = low[u]
      BY <1>0, <2>0, NextArrivalValues
    <2> QED
      BY <2>4, <2>5 DEF Rests
  <1>4. ASSUME NEW s \in Synchronous, RescheduleLater(s)
        PROVE  Rests'
    <2>1. /\ high' = high
          /\ low' = low \/ low' = [low EXCEPT ![s] = nextDeadline[s]]
      BY <1>4 DEF RescheduleLater
    <2>2. \A t \in Periodic : low'[t] = low[t]
      BY <1>0, <2>1
    <2> QED
      BY <2>1, <2>2 DEF Rests
  <1>5. CASE NoneMoves
    BY <1>5, <1>0 DEF NoneMoves, Rests
  <1> QED
    BY <1>1, <1>2, <1>3, <1>4, <1>5, ArrivalSteps

(* What the alarm says once no flag is up.                                 *)
LEMMA NoneDue ==
  ASSUME WidthInv, Alarmed, booted, Set, ~overflowFlag, ~comparatorFlag, NEW t \in Periodic
  PROVE  due[t] > 0
  <1>1. InQueue(t, arrivalQ) /\ t \in Task
    BY WidthFacts DEF AlwaysArriving
  <1> QED
    BY <1>1 DEF Alarmed, Ahead, AheadBy

LEMMA NotLateStep ==
  ASSUME WidthInv, TypeInv', Woken, NotLate, Asked, Alarmed, [Next]_vars
  PROVE  NotLate'
  <1>0. /\ due \in [Periodic -> Int] /\ latency \in Nat /\ Periodic \subseteq Task
    BY WidthFacts
  <1>1. CASE Tick
    <2>1. /\ \A t \in Periodic : due'[t] = due[t] - 1
          /\ latency' = IF Busy THEN latency + 1 ELSE 0
          /\ booted
      BY <1>1, TickNears DEF Tick
    <2>2. CASE Busy
      BY <1>0, <2>1, <2>2 DEF NotLate
    <2>3. CASE ~Busy
      <3>1. soft = "out" /\ ~pendSoft /\ ~overflowFlag /\ ~comparatorFlag
        BY <2>1, <2>3 DEF Busy, Asked
      <3>2. \A t \in Periodic : due[t] > 0
        BY <2>1, <3>1, NoneDue DEF Set
      <3> QED
        BY <1>0, <2>1, <2>3, <3>2 DEF NotLate
    <2> QED
      BY <2>2, <2>3
  <1>2. CASE Leave
    <2>1. soft = "check" /\ ~overflowFlag /\ ~comparatorFlag /\ latency' = 0 /\ due' = due
      BY <1>2 DEF Leave, SoftAt, MoreToDo
    <2>2. booted /\ Set
      BY <2>1 DEF Set, Woken, Busy
    <2>3. \A t \in Periodic : due[t] > 0
      BY <2>1, <2>2, NoneDue
    <2> QED
      BY <1>0, <2>1, <2>3 DEF NotLate
  <1>3. CASE ~Tick /\ latency' = latency
    <2>1. \A t \in Periodic : due'[t] >= due[t]
      <3>1. CASE TestOverflow
        BY <3>1, <1>0 DEF TestOverflow
      <3>2. ASSUME NEW t \in Periodic, Passes(t)
            PROVE  \A u \in Periodic : due'[u] >= due[u]
        <4>1. /\ due'[t] = due[t] + Period(t)
              /\ \A u \in Periodic : u # t => due'[u] = due[u]
          BY <3>2, NextArrivalValues, WidthFacts DEF Passes
        <4>2. Period(t) \in Nat
          <5>1. PeriodHigh[t] \in Nat /\ PeriodLow[t] \in Nat /\ ShiftTimeLimit \in Nat
            BY TimingAssumption
          <5> QED
            BY <5>1 DEF Period
        <4> QED
          BY <4>1, <4>2, <1>0
      <3>3. ASSUME NEW s \in Synchronous, RescheduleLater(s)
            PROVE  due' = due
        BY <3>3 DEF RescheduleLater
      <3> QED
        BY <3>1, <3>2, <3>3, <1>0, <1>3, ArrivalSteps DEF NoneMoves
    <2>2. \A t \in Periodic : due[t] \in Int /\ due'[t] \in Int
      BY <1>0, TypeInv', TimeTypes DEF TypeInv, TypeOK
    <2> QED
      BY <1>0, <1>3, <2>1, <2>2 DEF NotLate
  <1> QED
    BY <1>1, <1>2, <1>3, LatencySteps

(* The arrivals still come in turn.                                        *)
LEMMA InTurnStep ==
  ASSUME WidthInv, TimesHold, TimesHold', InTurn, [Next]_vars
  PROVE  InTurn'
  <1> DEFINE A(t) == Ahead(t)
             B(t) == AheadBy(t, due', low', Clock')
  <1>0. /\ high \in [Periodic -> Nat] /\ low \in [Task -> Int] /\ due \in [Periodic -> Int]
        /\ AlwaysArriving /\ TypeInv /\ Periodic \cap Synchronous = {}
        /\ Task = Periodic \cup Synchronous /\ NoDup(arrivalQ)
        /\ arrivalQ \in Seq(Task) /\ reschedule \in Seq(Synchronous)
        /\ Clock \in Nat /\ ShiftTimeLimit \in Nat
    BY WidthFacts
  <1>1. \A t, u \in Task : Before(t, u, arrivalQ) => A(t) <= A(u) \/ A(t) <= 0
    BY DEF InTurn, TurnsIn, Ahead
  <1>2. SUFFICES \A t, u \in Task : Before(t, u, arrivalQ') => B(t) <= B(u) \/ B(t) <= 0
    BY DEF InTurn, TurnsIn
  <1>3. \A t \in Task : A(t) \in Int /\ B(t) \in Int
    BY TimeOfKey DEF TimesHold, Ahead
  <1>4. \A t \in Task : A(t) = IF t \in Periodic THEN due[t] ELSE low[t] - Clock
    BY DEF Ahead, AheadBy
  <1>5. \A t \in Task : B(t) = IF t \in Periodic THEN due'[t] ELSE low'[t] - Clock'
    BY DEF AheadBy
  <1>6. \A t, u \in Task : Before(t, u, arrivalQ) => InQueue(t, arrivalQ) /\ InQueue(u, arrivalQ)
    BY <1>0, TaskAssumption DEF Before, InQueue
  <1>7. TimesHold' = Times(high', low', due', Clock')
    BY DEF TimesHold
  <1> HIDE DEF A, B
  <1>8. CASE Tick
    <2>1. /\ arrivalQ' = arrivalQ /\ low' = low /\ Clock' = Clock + 1
          /\ \A t \in Periodic : due'[t] = due[t] - 1
      BY <1>8, TickNears
    <2>2. ASSUME NEW t \in Task
          PROVE  B(t) = A(t) - 1
      <3>1. CASE t \in Periodic
        BY <3>1, <1>4, <1>5, <2>1
      <3>2. CASE t \notin Periodic
        <4>1. B(t) = low[t] - (Clock + 1) /\ A(t) = low[t] - Clock /\ low[t] \in Int
          BY <3>2, <1>0, <1>4, <1>5, <2>1
        <4> QED
          BY <4>1, <1>0
      <3> QED
        BY <3>1, <3>2
    <2>3. ASSUME NEW t \in Task, NEW u \in Task, Before(t, u, arrivalQ')
          PROVE  B(t) <= B(u) \/ B(t) <= 0
      <3>1. A(t) <= A(u) \/ A(t) <= 0
        BY <1>1, <2>1, <2>3
      <3>2. /\ A(t) \in Int /\ A(u) \in Int
            /\ B(t) = A(t) - 1 /\ B(u) = A(u) - 1
        BY <1>3, <2>2
      <3> QED
        BY <3>1, <3>2
    <2> QED
      BY <2>3
  <1>9. CASE TestOverflow /\ overflowFlag
    <2>1. /\ ShiftTimes /\ arrivalQ' = arrivalQ /\ due' = due
          /\ now' = now /\ ~overflowFlag' /\ overflowFlag
      BY <1>9 DEF TestOverflow
    <2>2. Clock = now + ShiftTimeLimit /\ Clock' = now /\ now \in Nat
      BY <1>0, <2>1, ClockType DEF Clock, Unmoved
    <2>3. \A t \in Task :
            InQueue(t, arrivalQ) => B(t) = A(t) \/ (A(t) <= 0 /\ B(t) <= 0)
      <3>1. \A t \in Periodic : B(t) = A(t)
        BY <1>0, <1>4, <1>5, <2>1
      <3>2. ASSUME NEW t \in Synchronous, InQueue(t, arrivalQ)
            PROVE  B(t) = A(t) \/ (A(t) <= 0 /\ B(t) <= 0)
        <4>1. t \in Task /\ t \notin Periodic /\ low[t] \in Int
          BY <1>0
        <4>2. low'[t] = IF Mode = "DM" THEN SubOrZeroIfNeg(low[t]) ELSE low[t] - ShiftTimeLimit
          BY <3>2, <4>1, <2>1 DEF ShiftTimes
        <4>3. \/ low'[t] = low[t] - ShiftTimeLimit
              \/ low'[t] = 0 /\ low[t] < ShiftTimeLimit
          BY <4>2 DEF SubOrZeroIfNeg
        <4>4. A(t) = low[t] - Clock /\ B(t) = low'[t] - Clock'
          BY <1>4, <1>5, <4>1
        <4> QED
          BY <1>0, <2>2, <4>1, <4>3, <4>4
      <3> QED
        BY <1>0, <3>1, <3>2
    <2> QED
      BY <1>1, <1>3, <1>6, <2>1, <2>3
  <1>10. ASSUME NEW t \in Periodic, Passes(t)
         PROVE  \A u, v \in Task : Before(u, v, arrivalQ') => B(u) <= B(v) \/ B(u) <= 0
    <2>1. /\ arrivalQ # <<>> /\ t = arrivalQ[1] /\ t \in Task /\ NextPeriodicArrival(t)
          /\ Clock' = Clock
      BY <1>0, <1>10 DEF Passes
    <2>2. /\ Tail(arrivalQ) \in Seq(Task) /\ NoDup(Tail(arrivalQ))
          /\ ~InQueue(t, Tail(arrivalQ))
          /\ \A u, v : Before(u, v, Tail(arrivalQ)) => Before(u, v, arrivalQ) /\ u # t
          /\ \A u : InQueue(u, Tail(arrivalQ)) => u # t
      BY <1>0, <2>1, TailOrder
    <2>3. \A u \in Task : u # t => B(u) = A(u)
      <3>1. /\ \A u \in Periodic : u # t => due'[u] = due[u]
            /\ \A u \in Task : u # t => low'[u] = low[u]
        BY <1>0, <2>1, NextArrivalValues
      <3>2. ASSUME NEW u \in Task, u # t
            PROVE  B(u) = A(u)
        <4>1. CASE u \in Periodic
          BY <4>1, <3>1, <3>2, <1>4, <1>5
        <4>2. CASE u \notin Periodic
          BY <4>2, <3>1, <3>2, <1>4, <1>5, <2>1
        <4> QED
          BY <4>1, <4>2
      <3> QED
        BY <3>2
    <2>4. \A u, v \in Task : Before(u, v, Tail(arrivalQ)) =>
            InQueue(v, Tail(arrivalQ))
      BY <2>2, TaskAssumption DEF Before, InQueue
    <2>5. \A u, v \in Task : Before(u, v, Tail(arrivalQ)) => B(u) <= B(v) \/ B(u) <= 0
      BY <1>1, <1>3, <2>2, <2>3, <2>4
    <2>6. TurnsIn(Tail(arrivalQ), due', low', Clock')
      BY <2>5 DEF TurnsIn, B
    <2>7. arrivalQ' = ArrivalQueueInsert(t, Tail(arrivalQ), high', low')
      BY <2>1 DEF NextPeriodicArrival
    <2>8. TurnsIn(arrivalQ', due', low', Clock')
      BY <1>7, <2>1, <2>2, <2>6, <2>7, InsertInTurn
    <2> QED
      BY <2>8 DEF TurnsIn, B
  <1>11. ASSUME NEW s \in Synchronous, RescheduleLater(s)
         PROVE  \A u, v \in Task : Before(u, v, arrivalQ') => B(u) <= B(v) \/ B(u) <= 0
    <2>1. /\ reschedule # <<>> /\ s = reschedule[1]
          /\ low' = low \/ low' = [low EXCEPT ![s] = nextDeadline[s]]
          /\ arrivalQ' = ArrivalQueueInsert(s, arrivalQ, high, low')
          /\ UNCHANGED <<high, due, now, overflowFlag>>
      BY <1>11 DEF RescheduleLater
    <2>2. /\ Clock' = Clock /\ s \in Task /\ s \notin Periodic
          /\ \A u \in Task : u # s => low'[u] = low[u]
      BY <1>0, <2>1 DEF Clock, Unmoved
    <2>3. ~InQueue(s, arrivalQ)
      <3>1. InQueue(s, reschedule)
        BY <2>1, <1>0, LenProperties, EmptySeq DEF InQueue
      <3> QED
        BY <3>1, WidthFacts
    <2>4. \A u \in Task : u # s => B(u) = A(u)
      BY <1>4, <1>5, <2>1, <2>2
    <2>5. \A u, v \in Task : Before(u, v, arrivalQ) => B(u) <= B(v) \/ B(u) <= 0
      BY <1>1, <1>6, <2>3, <2>4
    <2>6. TurnsIn(arrivalQ, due', low', Clock')
      BY <2>5 DEF TurnsIn, B
    <2>7. arrivalQ' = ArrivalQueueInsert(s, arrivalQ, high', low')
      BY <2>1
    <2>8. TurnsIn(arrivalQ', due', low', Clock')
      BY <1>0, <1>7, <2>2, <2>3, <2>6, <2>7, InsertInTurn
    <2> QED
      BY <2>8 DEF TurnsIn, B
  <1>12. CASE NoneMoves
    <2>1. \A t, u \in Task : Before(t, u, arrivalQ') =>
            Before(t, u, arrivalQ) /\ InQueue(t, arrivalQ') /\ InQueue(u, arrivalQ')
      <3>1. CASE arrivalQ' = arrivalQ
        BY <1>6, <3>1
      <3>2. CASE arrivalQ # <<>> /\ arrivalQ' = Tail(arrivalQ)
        <4>1. \A t, u : Before(t, u, Tail(arrivalQ)) => Before(t, u, arrivalQ)
          BY <1>0, <3>2, TailOrder
        <4>2. \A t, u \in Task : Before(t, u, Tail(arrivalQ)) =>
                InQueue(t, Tail(arrivalQ)) /\ InQueue(u, Tail(arrivalQ))
          BY TaskAssumption DEF Before, InQueue
        <4> QED
          BY <3>2, <4>1, <4>2
      <3> QED
        BY <1>12, <3>1, <3>2 DEF NoneMoves
    <2>2. \A t \in Task : InQueue(t, arrivalQ') => B(t) = A(t)
      BY <1>4, <1>5, <1>12 DEF NoneMoves
    <2> QED
      BY <1>1, <2>1, <2>2
  <1> QED
    BY <1>8, <1>9, <1>10, <1>11, <1>12, ArrivalSteps

LEMMA WokenStep ==
  ASSUME WidthInv, Woken, Listed, Asked, [Next]_vars
  PROVE  Woken' /\ Listed' /\ Asked'
  <1>0. TypeInv /\ IdleOnce
    BY WidthFacts
  <1>1. CASE Tick
    <2>1. /\ UNCHANGED <<reschedule, soft, booted>> /\ booted
          /\ pendSoft => pendSoft'
          /\ comparatorFlag' => comparatorFlag \/ pendSoft'
          /\ overflowFlag' => overflowFlag \/ pendSoft'
      BY <1>1, TickNears DEF Tick
    <2> QED
      BY <2>1 DEF Woken, Listed, Asked, Busy
  <1>2. CASE Leave
    <2>1. /\ soft = "check" /\ ~overflowFlag /\ ~comparatorFlag /\ reschedule = <<>>
          /\ UNCHANGED <<booted, reschedule, overflowFlag, comparatorFlag, pendSoft>>
      BY <1>2 DEF Leave, SoftAt, MoreToDo
    <2> QED
      BY <2>1 DEF Woken, Listed, Asked, Busy
  <1>3. CASE Scheduler /\ ~Leave
    <2>1. soft' # "out" /\ booted' = booted /\ (soft # "out" \/ pendSoft)
      BY <1>3
      DEF Scheduler, SoftTimerInterrupt, TestOverflow, ClearComparatorFlag, ReadTime,
          ReleasePeriodic, Overrun, ArriveSynchronous, ArrivalsDone, RescheduleLater,
          RescheduleNow, RescheduleDone, SetTimer, ClearSoftTimerInterrupt, Again, SoftAt,
          Arrives
    <2> QED
      BY <2>1 DEF Woken, Listed, Asked, Busy
  <1>4. CASE ~Scheduler /\ ~Tick
    <2>1. /\ UNCHANGED <<soft, overflowFlag>> /\ (pendSoft => pendSoft')
          /\ booted \/ (pendSoft' /\ ~pendSoft) => booted'
          /\ \/ pendSoft' /\ comparatorFlag' /\ soft = "out"
             \/ UNCHANGED <<booted, comparatorFlag>>
          /\ \/ pendSoft'
             \/ booted' => reschedule' = reschedule
      BY <1>0, <1>4, BelowScheduler DEF schedulerVars
    <2> QED
      BY <2>1 DEF Woken, Listed, Asked, Busy
  <1> QED
    BY <1>1, <1>2, <1>3, <1>4

(* The comparator is set to the first arrival of this turn of the clock.   *)
LEMMA SetTimerAlarms ==
  ASSUME WidthInv, TimesHold, InTurn, ~overflowFlag, SetTimer, soft' # "clear",
         NEW t \in Task, InQueue(t, arrivalQ)
  PROVE  /\ Ahead(t) > 0
         /\ ArrivalHigh(t, high, low) = 0 => 0 < alarm' /\ alarm' <= Ahead(t)
  <1> DEFINE a == arrivalQ[1]
             thisTurn == arrivalQ # <<>> /\ (a \in Periodic => high[a] = 0)
             ahead == low[a] > now
  <1>0. /\ arrivalQ \in Seq(Task) /\ NoDup(arrivalQ) /\ high \in [Periodic -> Nat]
        /\ low \in [Task -> Int] /\ now \in Nat /\ now < ShiftTimeLimit /\ alarm \in Nat
        /\ ShiftTimeLimit \in Nat /\ TypeInv /\ Clock = now
    BY WidthFacts, ClockType
  <1>1. /\ soft' = IF thisTurn /\ ~ahead THEN "clear" ELSE "pending"
        /\ alarm' = IF ~thisTurn THEN alarm ELSE IF ahead THEN low[a] - now ELSE 0
    BY Zenon DEF SetTimer
  <1>2. arrivalQ # <<>> /\ a \in Task
    BY <1>0, LenProperties, EmptySeq DEF InQueue
  <1>3. a = t \/ Before(a, t, arrivalQ)
    <2>1. PICK i \in DOMAIN arrivalQ : arrivalQ[i] = t
      BY DEF InQueue
    <2>2. DOMAIN arrivalQ = 1 .. Len(arrivalQ) /\ Len(arrivalQ) \in Nat
      BY <1>0, LenProperties
    <2>3. CASE i = 1
      BY <2>1, <2>3
    <2>4. CASE i # 1
      <3>1. 1 \in DOMAIN arrivalQ /\ 1 < i
        BY <2>1, <2>2, <2>4
      <3> QED
        BY <2>1, <3>1 DEF Before
    <2> QED
      BY <2>3, <2>4
  <1>4. /\ Ahead(a) \in Int /\ Ahead(t) \in Int
        /\ ArrivalHigh(a, high, low) > 0 => Ahead(a) >= ShiftTimeLimit - now
        /\ ArrivalHigh(a, high, low) = 0 => Ahead(a) = low[a] - now
        /\ ArrivalHigh(t, high, low) = 0 => Ahead(t) < ShiftTimeLimit - now
    <2>1. /\ Ahead(a) \in Int
          /\ ArrivalHigh(a, high, low) > 0 => Ahead(a) >= ShiftTimeLimit - now
          /\ ArrivalHigh(a, high, low) = 0 => Ahead(a) = low[a] - now
      BY <1>0, <1>2, AheadOf
    <2>2. /\ Ahead(t) \in Int /\ low[t] \in Int
          /\ ArrivalHigh(t, high, low) = 0 =>
               Ahead(t) = low[t] - now /\ low[t] < ShiftTimeLimit
      BY <1>0, AheadOf
    <2> QED
      BY <1>0, <2>1, <2>2
  <1>5. Ahead(a) <= Ahead(t) \/ Ahead(a) <= 0
    <2>1. a = t \/ Ahead(a) <= Ahead(t) \/ Ahead(a) <= 0
      BY <1>2, <1>3 DEF InTurn, TurnsIn, Ahead
    <2> QED
      BY <1>4, <2>1
  <1>6. CASE thisTurn
    <2>1. ahead /\ alarm' = low[a] - now
      BY <1>1, <1>6
    <2>2. Ahead(a) = low[a] - now
      <3>1. CASE a \in Periodic
        <4>1. ArrivalHigh(a, high, low) = 0
          BY <1>6, <3>1 DEF ArrivalHigh
        <4> QED
          BY <4>1, <1>4
      <3>2. CASE a \notin Periodic
        BY <1>0, <3>2 DEF Ahead, AheadBy
      <3> QED
        BY <3>1, <3>2
    <2>3. Ahead(a) > 0
      BY <1>0, <1>2, <2>1, <2>2
    <2> QED
      BY <1>4, <1>5, <2>1, <2>2, <2>3
  <1>7. CASE ~thisTurn
    <2>1. a \in Periodic /\ high[a] # 0
      BY <1>2, <1>7
    <2>2. ArrivalHigh(a, high, low) > 0
      BY <2>1, <1>0 DEF ArrivalHigh
    <2> QED
      BY <1>0, <1>4, <1>5, <2>2
  <1> QED
    BY <1>6, <1>7

LEMMA AlarmedStep ==
  ASSUME WidthInv, WidthInv', TimesHold, TimesHold', InTurn, Woken, Alarmed, [Next]_vars
  PROVE  Alarmed'
  <1>0. /\ TypeInv /\ IdleOnce /\ Clock \in Nat /\ now \in Nat /\ now < ShiftTimeLimit
        /\ alarm \in Nat /\ ShiftTimeLimit \in Nat /\ low \in [Task -> Int]
        /\ due \in [Periodic -> Int]
    BY WidthFacts
  <1> DEFINE B(t) == AheadBy(t, due', low', Clock')
  <1>1. SUFFICES ASSUME booted', ~overflowFlag', ~comparatorFlag', Set',
                        NEW t \in Task, InQueue(t, arrivalQ')
                 PROVE  /\ B(t) > 0
                        /\ ArrivalHigh(t, high', low') = 0 => 0 < alarm' /\ alarm' <= B(t)
    BY DEF Alarmed, Ahead
  <1>2. /\ Ahead(t) \in Int
        /\ ArrivalHigh(t, high, low) \in Nat
        /\ ArrivalHigh(t, high, low) > 0 => Ahead(t) >= ShiftTimeLimit - Clock
    BY AheadOf
  <1>3. CASE Tick
    <2>1. /\ UNCHANGED <<high, low, arrivalQ, soft>>
          /\ \A u \in Periodic : due'[u] = due[u] - 1
          /\ Clock' = Clock + 1
          /\ ~comparatorFlag /\ alarm # 1 /\ ~overflowFlag /\ now # ShiftTimeLimit - 1
          /\ pendSoft => pendSoft'
      BY <1>1, <1>3, TickNears
    <2>2. /\ alarm' = IF alarm > 0 THEN alarm - 1 ELSE 0
          /\ booted
      BY <1>3 DEF Tick
    <2>3. /\ Ahead(t) > 0
          /\ ArrivalHigh(t, high, low) = 0 => 0 < alarm /\ alarm <= Ahead(t)
      BY <1>1, <2>1, <2>2 DEF Alarmed, Set
    <2>4. B(t) = Ahead(t) - 1
      <3>1. CASE t \in Periodic
        BY <3>1, <2>1 DEF AheadBy, Ahead
      <3>2. CASE t \notin Periodic
        <4>1. B(t) = low[t] - (Clock + 1) /\ Ahead(t) = low[t] - Clock /\ low[t] \in Int
          BY <3>2, <1>0, <2>1 DEF AheadBy, Ahead
        <4> QED
          BY <1>0, <4>1
      <3> QED
        BY <3>1, <3>2
    <2>5. Clock = now
      BY <1>0, <2>1, ClockType
    <2> HIDE DEF B
    <2>6. ArrivalHigh(t, high', low') = ArrivalHigh(t, high, low)
      BY <2>1
    <2> QED
      BY <1>0, <1>2, <2>1, <2>2, <2>3, <2>4, <2>5, <2>6
  <1>4. CASE /\ UNCHANGED <<high, low, due, arrivalQ, alarm, now, overflowFlag, comparatorFlag>>
             /\ booted /\ Set
    <2>1. Clock' = Clock
      BY <1>4 DEF Clock, Unmoved
    <2>2. B(t) = Ahead(t)
      BY <1>4, <2>1 DEF AheadBy, Ahead
    <2>3. /\ Ahead(t) > 0
          /\ ArrivalHigh(t, high, low) = 0 => 0 < alarm /\ alarm <= Ahead(t)
      BY <1>1, <1>4 DEF Alarmed
    <2> HIDE DEF B
    <2> QED
      BY <1>4, <2>2, <2>3
  <1>5. CASE SetTimer
    <2>1. /\ UNCHANGED <<high, low, due, arrivalQ, now, overflowFlag>>
          /\ soft' \in {"clear", "pending"}
      BY <1>5 DEF SetTimer
    <2>2. soft' # "clear"
      BY <1>1 DEF Set
    <2>3. Clock' = Clock
      BY <2>1 DEF Clock, Unmoved
    <2>4. B(t) = Ahead(t)
      BY <2>1, <2>3 DEF AheadBy, Ahead
    <2>5. /\ Ahead(t) > 0
          /\ ArrivalHigh(t, high, low) = 0 => 0 < alarm' /\ alarm' <= Ahead(t)
      BY <1>1, <1>5, <2>1, <2>2, SetTimerAlarms
    <2> HIDE DEF B
    <2> QED
      BY <2>1, <2>4, <2>5
  <1>6. CASE ClearSoftTimerInterrupt \/ Leave
    <2>1. /\ UNCHANGED <<high, low, due, arrivalQ, alarm, now, overflowFlag, comparatorFlag,
                         booted>>
          /\ soft \in {"pending", "check"}
      BY <1>6 DEF ClearSoftTimerInterrupt, Leave, SoftAt
    <2> QED
      BY <1>1, <1>4, <2>1 DEF Set
  <1>7. CASE Scheduler /\ ~SetTimer /\ ~ClearSoftTimerInterrupt /\ ~Leave
    <2>1. soft' \notin {"out", "pending", "check"}
      BY <1>7
      DEF Scheduler, SoftTimerInterrupt, TestOverflow, ClearComparatorFlag, ReadTime,
          ReleasePeriodic, Overrun, ArriveSynchronous, ArrivalsDone, RescheduleLater,
          RescheduleNow, RescheduleDone, Again, SoftAt, Arrives
    <2> QED
      BY <1>1, <2>1 DEF Set
  <1>8. CASE ~Scheduler /\ ~Tick
    <2>1. /\ UNCHANGED schedulerVars /\ (pendSoft => pendSoft')
          /\ UNCHANGED <<booted, comparatorFlag>>
      BY <1>0, <1>1, <1>8, BelowScheduler
    <2>2. UNCHANGED <<high, low, due, arrivalQ, alarm, now, overflowFlag, soft>>
      BY <2>1 DEF schedulerVars
    <2>3. booted /\ Set
      BY <1>1, <2>1, <2>2 DEF Set
    <2> QED
      BY <1>4, <2>1, <2>2, <2>3
  <1> QED
    BY <1>3, <1>5, <1>6, <1>7, <1>8

LEMMA PunctualStep ==
  ASSUME RemaindersCover, WidthInv, WidthInv', PunctualInv, TimesHold, [Next]_vars,
         Rests' => TimesHold'
  PROVE  PunctualInv'
  <1>0. TypeInv'
    BY DEF WidthInv, PeriodInv, KernelInv, ClockInv
  <1>1. Rests'
    BY RestsStep DEF PunctualInv
  <1>2. NotLate'
    BY <1>0, NotLateStep DEF PunctualInv
  <1>3. InTurn'
    BY <1>1, InTurnStep DEF PunctualInv
  <1>4. Woken' /\ Listed' /\ Asked'
    BY WokenStep DEF PunctualInv
  <1>5. Alarmed'
    BY <1>1, AlarmedStep DEF PunctualInv
  <1> QED
    BY <1>1, <1>2, <1>3, <1>4, <1>5 DEF PunctualInv

LEMMA PunctualInit == Init => PunctualInv
  <1> SUFFICES ASSUME Init
               PROVE  PunctualInv
    OBVIOUS
  <1>1. /\ ~booted /\ soft = "out" /\ ~pendSoft /\ latency = 0 /\ now = 0 /\ ~overflowFlag
        /\ \A t \in Periodic : high[t] = 0 /\ due[t] = 0
        /\ \A t \in Task : low[t] = 0
        /\ ShiftTimeLimit \in Nat
    BY TimingAssumption DEF Init
  <1>2. Clock = 0
    BY <1>1 DEF Clock, Unmoved
  <1>3. \A t \in Task : Ahead(t) = 0
    BY <1>1, <1>2 DEF Ahead, AheadBy
  <1>4. InTurn
    BY <1>3 DEF InTurn, TurnsIn, Ahead
  <1>5. Rests /\ NotLate
    BY <1>1 DEF Rests, NotLate
  <1>6. Woken /\ Listed /\ Asked /\ Alarmed
    BY <1>1 DEF Woken, Listed, Asked, Alarmed, Busy
  <1> QED
    BY <1>4, <1>5, <1>6 DEF PunctualInv

(* What the invariant says of the scheduler at rest.                       *)
LEMMA RestPunctual == WidthInv /\ PunctualInv => Punctual
  <1> SUFFICES ASSUME WidthInv, PunctualInv, booted, ~Busy
               PROVE  /\ reschedule = <<>>
                      /\ \A t \in Periodic : due[t] > 0
                      /\ \A s \in Synchronous : InQueue(s, arrivalQ) => TrueTime(low[s]) > 0
    BY DEF Punctual
  <1>0. /\ soft = "out" /\ ~pendSoft /\ ~overflowFlag /\ ~comparatorFlag
        /\ TypeInv /\ low \in [Task -> Int] /\ now \in Nat
        /\ Periodic \cap Synchronous = {} /\ Synchronous \subseteq Task
    BY WidthFacts DEF Busy, PunctualInv, Asked
  <1>1. reschedule = <<>>
    BY DEF PunctualInv, Listed
  <1>2. \A t \in Periodic : due[t] > 0
    BY <1>0, NoneDue DEF PunctualInv, Set
  <1>3. ASSUME NEW s \in Synchronous, InQueue(s, arrivalQ)
        PROVE  TrueTime(low[s]) > 0
    <2>1. Ahead(s) > 0
      BY <1>0, <1>3 DEF PunctualInv, Alarmed, Set
    <2>2. Ahead(s) = low[s] - now /\ low[s] \in Int
      BY <1>0, ClockType DEF Ahead, AheadBy
    <2>3. TrueTime(low[s]) = low[s] - now - 0
      BY <1>0 DEF TrueTime, Unmoved
    <2> QED
      BY <1>0, <2>1, <2>2, <2>3
  <1> QED
    BY <1>1, <1>2, <1>3

(* No release is missed or late: for every set of tasks whose periods,     *)
(* deadlines and workloads fit the turns of the clock, whenever the        *)
(* scheduler is neither at work nor asked for, the list of tasks to        *)
(* reschedule is empty and every arrival lies ahead, whatever signals,     *)
(* matches of the comparator and turns of the clock came between the steps *)
(* of the pass before, and between it and the moment the counter was       *)
(* started.                                                                *)
THEOREM Punctuality ==
  ASSUME NEW Demand, Fits(Demand), RemaindersCover
  PROVE  Spec => []Punctual
  <1>1. WidthInv /\ PunctualInv => TimesHold
    BY TimesOfState DEF PunctualInv
  <1>2. (WidthInv /\ Rests => TimesHold)'
    BY TimesOfState, PTL
  <1>3. WidthInv /\ WidthInv' /\ PunctualInv /\ [Next]_vars => PunctualInv'
    <2> SUFFICES ASSUME WidthInv, WidthInv', PunctualInv, [Next]_vars
                 PROVE  PunctualInv'
      OBVIOUS
    <2>1. Rests' => TimesHold'
      BY <1>2
    <2>2. TimesHold
      BY <1>1
    <2> QED
      BY <2>1, <2>2, PunctualStep
  <1> QED
    BY <1>3, PunctualInit, RestPunctual, WidthInvariance, PTL DEF Spec

=============================================================================

-------------------------- MODULE LiveTasksProofs --------------------------
(***************************************************************************)
(* Proofs about tasks created and deleted live, for any pool of blocks,    *)
(* any timings and any length of the clock's turn: each block is linked    *)
(* where its state says, a task's arrival time is kept true from its       *)
(* creation on, and no request is left to wait for the next alarm.         *)
(***************************************************************************)
EXTENDS LiveTasks, SequenceTheorems, FiniteSetTheorems, TLAPS

-----------------------------------------------------------------------------
(***************************************************************************)
(* Lists without repetition.                                               *)
(***************************************************************************)

(* q is a list of members of S that holds those of T, each once.           *)
Lists(q, S, T) == q \in Seq(S) /\ IsInjective(q) /\ ToSet(q) = T

LEMMA ListFacts ==
  ASSUME NEW S, NEW q \in Seq(S)
  PROVE  /\ Len(q) \in Nat /\ DOMAIN q = 1 .. Len(q)
         /\ \A i \in 1 .. Len(q) : q[i] \in S
         /\ ToSet(q) = {q[i] : i \in 1 .. Len(q)}
         /\ IsInjective(q) <=> \A i, j \in 1 .. Len(q) : q[i] = q[j] => i = j
         /\ \A u : Contains(q, u) <=> u \in ToSet(q)
         /\ q = <<>> <=> Len(q) = 0
  <1>1. Len(q) \in Nat /\ DOMAIN q = 1 .. Len(q) /\ \A i \in 1 .. Len(q) : q[i] \in S
    BY LenProperties, ElementOfSeq
  <1>2. q = <<>> <=> Len(q) = 0
    BY EmptySeq
  <1> QED
    BY <1>1, <1>2 DEF ToSet, IsInjective, Contains

(* A list put before another.                                              *)
LEMMA ListConcat ==
  ASSUME NEW S, NEW T, NEW U, NEW p, NEW q, Lists(p, S, T), Lists(q, S, U), T \cap U = {}
  PROVE  Lists(p \o q, S, T \cup U)
  <1> DEFINE r == p \o q
             m == Len(p)
             n == Len(q)
  <1>1. p \in Seq(S) /\ q \in Seq(S)
    BY DEF Lists
  <1>2. /\ m \in Nat /\ n \in Nat
        /\ T = {p[i] : i \in 1 .. m} /\ U = {q[i] : i \in 1 .. n}
        /\ \A i, j \in 1 .. m : p[i] = p[j] => i = j
        /\ \A i, j \in 1 .. n : q[i] = q[j] => i = j
    BY <1>1, ListFacts DEF Lists
  <1>3. /\ r \in Seq(S) /\ Len(r) = m + n
        /\ \A i \in 1 .. m + n : r[i] = IF i <= m THEN p[i] ELSE q[i - m]
    BY <1>1, ConcatProperties
  <1> HIDE DEF r, m, n
  <1>4. /\ ToSet(r) = {r[i] : i \in 1 .. m + n}
        /\ IsInjective(r) <=> \A i, j \in 1 .. m + n : r[i] = r[j] => i = j
    BY <1>3, ListFacts
  <1>5. ASSUME NEW i \in 1 .. m + n
        PROVE  \/ i \in 1 .. m /\ r[i] = p[i] /\ r[i] \in T
               \/ i - m \in 1 .. n /\ r[i] = q[i - m] /\ r[i] \in U
    <2>1. CASE i <= m
      BY <2>1, <1>2, <1>3
    <2>2. CASE i > m
      <3>1. i - m \in 1 .. n /\ r[i] = q[i - m]
        BY <2>2, <1>2, <1>3
      <3> QED
        BY <3>1, <1>2
    <2> QED
      BY <2>1, <2>2, <1>2
  <1>6. ToSet(r) = T \cup U
    <2>1. ASSUME NEW u \in T
          PROVE  u \in ToSet(r)
      <3>1. PICK i \in 1 .. m : u = p[i]
        BY <1>2
      <3>2. i \in 1 .. m + n /\ r[i] = u
        BY <3>1, <1>2, <1>3
      <3> QED
        BY <3>2, <1>4
    <2>2. ASSUME NEW u \in U
          PROVE  u \in ToSet(r)
      <3>1. PICK i \in 1 .. n : u = q[i]
        BY <1>2
      <3>2. i + m \in 1 .. m + n /\ ~(i + m <= m) /\ (i + m) - m = i
        BY <3>1, <1>2
      <3>3. r[i + m] = u
        BY <3>1, <3>2, <1>3
      <3> QED
        BY <3>2, <3>3, <1>4
    <2>3. ASSUME NEW u \in ToSet(r)
          PROVE  u \in T \cup U
      BY <1>4, <1>5
    <2> QED
      BY <2>1, <2>2, <2>3
  <1>7. IsInjective(r)
    <2> SUFFICES ASSUME NEW i \in 1 .. m + n, NEW j \in 1 .. m + n, r[i] = r[j]
                 PROVE  i = j
      BY <1>4
    <2>1. CASE r[i] \in T
      <3>1. i \in 1 .. m /\ j \in 1 .. m /\ p[i] = p[j]
        BY <2>1, <1>5
      <3> QED
        BY <3>1, <1>2
    <2>2. CASE r[i] \in U
      <3>1. i - m \in 1 .. n /\ j - m \in 1 .. n /\ q[i - m] = q[j - m]
        BY <2>2, <1>5
      <3>2. i - m = j - m
        BY <3>1, <1>2
      <3> QED
        BY <3>2, <1>2
    <2> QED
      BY <2>1, <2>2, <1>5
  <1> QED
    BY <1>3, <1>6, <1>7 DEF Lists, r

LEMMA ListPush ==
  ASSUME NEW S, NEW T, NEW q, Lists(q, S, T), NEW e \in S, e \notin T
  PROVE  Lists(<<e>> \o q, S, T \cup {e})
  <1>1. Lists(<<e>>, S, {e})
    <2>1. /\ <<e>> \in Seq(S) /\ Len(<<e>>) = 1
          /\ \A i \in 1 .. 1 : <<e>>[i] = e
      OBVIOUS
    <2>2. ToSet(<<e>>) = {e} /\ IsInjective(<<e>>)
      BY <2>1 DEF ToSet, IsInjective
    <2> QED
      BY <2>1, <2>2 DEF Lists
  <1>2. {e} \cap T = {} /\ {e} \cup T = T \cup {e}
    OBVIOUS
  <1> QED
    BY <1>1, <1>2, ListConcat

(* Any part of a list.                                                     *)
LEMMA ListPart ==
  ASSUME NEW S, NEW T, NEW q, Lists(q, S, T), NEW m \in Int, NEW n \in Int,
         m >= 1, n <= Len(q)
  PROVE  Lists(SubSeq(q, m, n), S, {q[i] : i \in m .. n})
  <1> DEFINE r == SubSeq(q, m, n)
             k == IF m <= n THEN (n - m) + 1 ELSE 0
  <1>1. /\ Len(q) \in Nat /\ \A i \in 1 .. Len(q) : q[i] \in S
        /\ \A i, j \in 1 .. Len(q) : q[i] = q[j] => i = j
    BY ListFacts DEF Lists
  <1>2. \A i \in m .. n : q[i] \in S
    BY <1>1
  <1>3. /\ r \in Seq(S) /\ Len(r) = k
        /\ \A i \in 1 .. (n - m) + 1 : r[i] = q[(m + i) - 1]
    BY <1>2, SubSeqProperties
  <1> HIDE DEF r
  <1>4. /\ k \in Nat /\ \A i \in 1 .. k : r[i] = q[(m + i) - 1] /\ (m + i) - 1 \in m .. n
        /\ \A i \in m .. n : (i - m) + 1 \in 1 .. k /\ r[(i - m) + 1] = q[i]
    <2>1. \A i \in 1 .. k : i \in 1 .. (n - m) + 1 /\ (m + i) - 1 \in m .. n
      OBVIOUS
    <2>2. ASSUME NEW i \in m .. n
          PROVE  (i - m) + 1 \in 1 .. k /\ r[(i - m) + 1] = q[i]
      <3>1. (i - m) + 1 \in 1 .. (n - m) + 1 /\ (i - m) + 1 \in 1 .. k
            /\ (m + ((i - m) + 1)) - 1 = i
        OBVIOUS
      <3> QED
        BY <3>1, <1>3
    <2> QED
      BY <2>1, <2>2, <1>3
  <1> HIDE DEF k
  <1>5. /\ ToSet(r) = {r[i] : i \in 1 .. k}
        /\ IsInjective(r) <=> \A i, j \in 1 .. k : r[i] = r[j] => i = j
    BY <1>3, ListFacts
  <1>6. ToSet(r) = {q[i] : i \in m .. n}
    <2>1. ASSUME NEW u \in ToSet(r)
          PROVE  u \in {q[i] : i \in m .. n}
      BY <1>4, <1>5
    <2>2. ASSUME NEW i \in m .. n
          PROVE  q[i] \in ToSet(r)
      BY <1>4, <1>5
    <2> QED
      BY <2>1, <2>2
  <1>7. IsInjective(r)
    <2> SUFFICES ASSUME NEW i \in 1 .. k, NEW j \in 1 .. k, r[i] = r[j]
                 PROVE  i = j
      BY <1>5
    <2>1. /\ q[(m + i) - 1] = q[(m + j) - 1]
          /\ (m + i) - 1 \in 1 .. Len(q) /\ (m + j) - 1 \in 1 .. Len(q)
      BY <1>1, <1>4
    <2>2. (m + i) - 1 = (m + j) - 1
      BY <2>1, <1>1
    <2> QED
      BY <2>2, <1>4
  <1> QED
    BY <1>3, <1>6, <1>7 DEF Lists, r

LEMMA ListTail ==
  ASSUME NEW S, NEW T, NEW q, Lists(q, S, T), q # <<>>
  PROVE  q[1] \in T /\ q[1] \in S /\ Lists(Tail(q), S, T \ {q[1]})
  <1>1. /\ Len(q) \in Nat /\ Len(q) # 0 /\ q \in Seq(S)
        /\ T = {q[i] : i \in 1 .. Len(q)} /\ \A i \in 1 .. Len(q) : q[i] \in S
        /\ \A i, j \in 1 .. Len(q) : q[i] = q[j] => i = j
    BY ListFacts DEF Lists
  <1>2. Tail(q) = SubSeq(q, 2, Len(q))
    BY <1>1, TailIsSubSeq
  <1>3. Lists(SubSeq(q, 2, Len(q)), S, {q[i] : i \in 2 .. Len(q)})
    BY <1>1, ListPart
  <1>4. {q[i] : i \in 2 .. Len(q)} = T \ {q[1]}
    BY <1>1
  <1>5. q[1] \in T /\ q[1] \in S
    BY <1>1
  <1> QED
    BY <1>2, <1>3, <1>4, <1>5

LEMMA ListInsert ==
  ASSUME NEW S, NEW T, NEW q, Lists(q, S, T), NEW e \in S, e \notin T,
         NEW n \in 1 .. Len(q) + 1
  PROVE  Lists(InsertAt(q, n, e), S, T \cup {e})
  <1> DEFINE A == {q[i] : i \in 1 .. n - 1}
             B == {q[i] : i \in n .. Len(q)}
  <1>1. /\ Len(q) \in Nat /\ T = {q[i] : i \in 1 .. Len(q)}
        /\ \A i, j \in 1 .. Len(q) : q[i] = q[j] => i = j
    BY ListFacts DEF Lists
  <1>2. Lists(SubSeq(q, 1, n - 1), S, A) /\ Lists(SubSeq(q, n, Len(q)), S, B)
    BY <1>1, ListPart
  <1>3. T = A \cup B /\ A \cap B = {}
    BY <1>1
  <1> HIDE DEF A, B
  <1>4. Lists(<<e>>, S, {e})
    <2>1. Lists(<<>>, S, {})
      BY DEF Lists, ToSet, IsInjective
    <2>2. Lists(<<e>> \o <<>>, S, {} \cup {e})
      BY <2>1, ListPush
    <2>3. <<e>> \o <<>> = <<e>>
      OBVIOUS
    <2> QED
      BY <2>2, <2>3
  <1>5. Lists(SubSeq(q, 1, n - 1) \o <<e>>, S, A \cup {e})
    BY <1>2, <1>3, <1>4, ListConcat
  <1>6. Lists((SubSeq(q, 1, n - 1) \o <<e>>) \o SubSeq(q, n, Len(q)), S, (A \cup {e}) \cup B)
    BY <1>2, <1>3, <1>5, ListConcat
  <1>7. (A \cup {e}) \cup B = T \cup {e}
    BY <1>3
  <1> QED
    BY <1>6, <1>7 DEF InsertAt

LEMMA ListRemove ==
  ASSUME NEW S, NEW T, NEW q, Lists(q, S, T), NEW e \in T
  PROVE  Lists(RemoveFirst(q, e), S, T \ {e})
  <1>1. /\ Len(q) \in Nat /\ T = {q[i] : i \in 1 .. Len(q)}
        /\ \A i, j \in 1 .. Len(q) : q[i] = q[j] => i = j
    BY ListFacts DEF Lists
  <1>2. PICK n \in 1 .. Len(q) : q[n] = e
    BY <1>1
  <1>3. {i \in 1 .. Len(q) : q[i] = e} = {n}
    BY <1>1, <1>2
  <1>4. Min({n}) = n
    BY <1>2 DEF Min
  <1>5. RemoveFirst(q, e) = SubSeq(q, 1, n - 1) \o SubSeq(q, n + 1, Len(q))
    BY <1>2, <1>3, <1>4 DEF RemoveFirst, RemoveAt, SelectInSeq
  <1> DEFINE A == {q[i] : i \in 1 .. n - 1}
             B == {q[i] : i \in n + 1 .. Len(q)}
  <1>6. Lists(SubSeq(q, 1, n - 1), S, A) /\ Lists(SubSeq(q, n + 1, Len(q)), S, B)
    BY <1>1, ListPart
  <1>7. T \ {e} = A \cup B /\ A \cap B = {}
    BY <1>1, <1>2
  <1> HIDE DEF A, B
  <1> QED
    BY <1>5, <1>6, <1>7, ListConcat

(* The place that a walk stops at.                                         *)
LEMMA PlaceExists ==
  ASSUME NEW n \in Nat, NEW I, I \subseteq 1 .. n, I # {}
  PROVE  Min(I) \in 1 .. n
  <1>1. I \subseteq Nat
    OBVIOUS
  <1>2. \E x \in I : \A y \in I : ~(<<y, x>> \in OpToRel(<, Nat))
    BY <1>1, NatLessThanWellFounded, WFMin
  <1>3. \A x, y \in Nat : y < x => <<y, x>> \in OpToRel(<, Nat)
    BY DEF OpToRel
  <1>4. \E x \in I : \A y \in I : x <= y
    <2>1. PICK x \in I : \A y \in I : ~(<<y, x>> \in OpToRel(<, Nat))
      BY <1>2
    <2>2. \A y \in I : ~(y < x)
      BY <1>1, <1>3, <2>1
    <2> QED
      BY <1>1, <2>2
  <1> QED
    BY <1>4 DEF Min

-----------------------------------------------------------------------------
(***************************************************************************)
(* The inductive invariant.                                                *)
(***************************************************************************)

Places == {"out", "overflow", "clear", "window", "serve", "arrivals", "soft", "check"}

Types ==
  /\ state \in [Block -> {"NONE", "CREATE", "ASKED", "DELETE", "FREE"}]
  /\ zombie \in [Block -> BOOLEAN] /\ timing \in [Block -> Timings \cup {NoTiming}]
  /\ high \in [Block -> Nat] /\ low \in [Block -> Int] /\ due \in [Block -> Int]
  /\ pool \in Seq(Block) /\ requests \in Seq(Block) /\ serving \in Seq(Block)
  /\ readyQ \in Seq(Block) /\ arrivalQ \in Seq(Block)
  /\ hpc \in Places /\ ending \in Block \cup {None} /\ raising \subseteq Block
  /\ now \in 0 .. ShiftTimeLimit - 1 /\ currentTime \in 0 .. ShiftTimeLimit - 1
  /\ lastTime \in 0 .. ShiftTimeLimit - 1
  /\ wrapped \in BOOLEAN /\ overflowFlag \in BOOLEAN
  /\ age \in Nat /\ latency \in 0 .. MaxLatency

(* Out of the handler the task active is the head of the ready queue; one  *)
(* that has begun to end is the one active, and a pass of the handler      *)
(* takes it out of the queue first.                                        *)
Ending ==
  /\ hpc = "out" => active = IF readyQ = <<>> THEN None ELSE readyQ[1]
  /\ ending # None => hpc = "out" /\ active = ending /\ zombie[ending]

(* The flag of a turn is tested before another can begin: from its         *)
(* interrupt on the handler is at work or asked for, within its latency.   *)
FlagSeen ==
  /\ wrapped \/ overflowFlag => booted
  /\ wrapped => now = 0 /\ ~overflowFlag
  /\ overflowFlag => (hpc # "out" \/ pendSoft) /\ now <= latency

(* The time read, with the ticks since, is the time: or else a turn began  *)
(* between the test and the reading, which a flag still up tells, or an    *)
(* interrupt still to come.  Requests are served in the first case only.   *)
TimeRead ==
  /\ hpc = "window" => \/ currentTime + age = TrueNow
                       \/ currentTime + age = now /\ (overflowFlag \/ wrapped)
  /\ hpc = "serve" => currentTime + age = TrueNow

(* A task asked for has no turns before its arrival.                       *)
CreatedNow == \A b \in Block : state[b] = "CREATE" => high[b] = 0

(* Requests taken are served before the handler goes on.                   *)
Taken == hpc # "serve" => serving = <<>>

LiveInv ==
  /\ Types /\ BlocksKept /\ Ending /\ FlagSeen /\ TimeRead /\ CreatedNow /\ Taken
  /\ ArrivalsTrue /\ RequestsAwaited

USE DEF blocks, lists, queues, thread, handler, timer, bounds, liveVars

-----------------------------------------------------------------------------
(***************************************************************************)
(* The blocks.                                                             *)
(***************************************************************************)

In(places) == {b \in Block : state[b] \in places}
Waits == In({"CREATE", "ASKED"})
Arriving == {b \in Block : state[b] \notin {"FREE", "CREATE"}}
Ready == {b \in Block : ~zombie[b] \/ ending = b}

LEMMA NoBlock == None \notin Block
  BY LiveAssumption

(* The lists, with R the requests made and V those being served.           *)
Kept(R, V) ==
  /\ Lists(pool, Block, In({"FREE"}))
  /\ Lists(requests, Block, R) /\ Lists(serving, Block, V)
  /\ R \cap V = {} /\ R \cup V = Waits
  /\ Lists(arrivalQ, Block, Arriving) /\ Lists(readyQ, Block, Ready)
  /\ \A b \in In({"FREE", "CREATE"}) : zombie[b]

Sequences == /\ pool \in Seq(Block) /\ requests \in Seq(Block) /\ serving \in Seq(Block)
             /\ readyQ \in Seq(Block) /\ arrivalQ \in Seq(Block)

LEMMA KeptNow ==
  ASSUME Sequences, BlocksKept
  PROVE  \E R, V : Kept(R, V)
  <1>1. Kept(ToSet(requests), ToSet(serving))
    BY DEF Sequences, BlocksKept, Kept, Lists, In, Waits, Arriving, Ready
  <1> QED
    BY <1>1

LEMMA KeptThen ==
  ASSUME NEW R, NEW V, Kept(R, V)'
  PROVE  BlocksKept' /\ Sequences'
  BY DEF Sequences, BlocksKept, Kept, Lists, In, Waits, Arriving, Ready

(* A task's block changes its state.                                       *)
LEMMA StateSets ==
  ASSUME NEW b \in Block, NEW s, s \in {"NONE", "CREATE", "ASKED", "DELETE", "FREE"},
         state \in [Block -> {"NONE", "CREATE", "ASKED", "DELETE", "FREE"}],
         state' = [state EXCEPT ![b] = s]
  PROVE  /\ s = "FREE" => /\ In({"FREE"})' = In({"FREE"}) \cup {b} /\ Waits' = Waits \ {b}
                          /\ Arriving' = Arriving \ {b}
                          /\ In({"FREE", "CREATE"})' = In({"FREE", "CREATE"}) \cup {b}
         /\ s = "CREATE" => /\ In({"FREE"})' = In({"FREE"}) \ {b} /\ Waits' = Waits \cup {b}
                            /\ Arriving' = Arriving \ {b}
                            /\ In({"FREE", "CREATE"})' = In({"FREE", "CREATE"}) \cup {b}
         /\ s = "ASKED" => /\ In({"FREE"})' = In({"FREE"}) \ {b} /\ Waits' = Waits \cup {b}
                           /\ Arriving' = Arriving \cup {b}
                           /\ In({"FREE", "CREATE"})' = In({"FREE", "CREATE"}) \ {b}
         /\ s \in {"NONE", "DELETE"} =>
              /\ In({"FREE"})' = In({"FREE"}) \ {b} /\ Waits' = Waits \ {b}
              /\ Arriving' = Arriving \cup {b}
              /\ In({"FREE", "CREATE"})' = In({"FREE", "CREATE"}) \ {b}
  <1>1. \A c \in Block : state'[c] = IF c = b THEN s ELSE state[c]
    OBVIOUS
  <1>2. CASE s = "FREE"
    BY <1>1, <1>2 DEF In, Waits, Arriving
  <1>3. CASE s = "CREATE"
    BY <1>1, <1>3 DEF In, Waits, Arriving
  <1>4. CASE s = "ASKED"
    BY <1>1, <1>4 DEF In, Waits, Arriving
  <1>5. CASE s \in {"NONE", "DELETE"}
    BY <1>1, <1>5 DEF In, Waits, Arriving
  <1> QED
    BY <1>2, <1>3, <1>4, <1>5

(* The places where the queues insert.                                     *)
LEMMA ArrivalPlace ==
  ASSUME NEW b, NEW q \in Seq(Block), NEW h, NEW l
  PROVE  \E n \in 1 .. Len(q) + 1 : ArrivalQueueInsert(b, q, h, l) = InsertAt(q, n, b)
  <1> DEFINE I == {i \in 1 .. Len(q) : h[b] < h[q[i]] \/ (h[b] = h[q[i]] /\ l[b] <= l[q[i]])}
             m == IF I # {} THEN Min(I) ELSE 0
             n == IF m = 0 THEN Len(q) + 1 ELSE m
  <1>1. Len(q) \in Nat
    BY LenProperties
  <1>2. I \subseteq 1 .. Len(q)
    OBVIOUS
  <1>3. ArrivalQueueInsert(b, q, h, l) = InsertAt(q, n, b)
    BY DEF ArrivalQueueInsert, SelectInSeq
  <1> HIDE DEF I
  <1>4. n \in 1 .. Len(q) + 1
    <2>1. CASE I = {}
      BY <2>1, <1>1
    <2>2. CASE I # {}
      <3>1. Min(I) \in 1 .. Len(q)
        BY <2>2, <1>1, <1>2, PlaceExists
      <3> QED
        BY <2>2, <3>1, <1>1
    <2> QED
      BY <2>1, <2>2
  <1> QED
    BY <1>3, <1>4

LEMMA ReadyPlace ==
  ASSUME NEW b, readyQ \in Seq(Block), NEW nd
  PROVE  \E n \in 1 .. Len(readyQ) + 1 : ReadyQueueInsert(b, nd) = InsertAt(readyQ, n, b)
  <1> DEFINE I == {i \in 1 .. Len(readyQ) : nd[b] <= nd[readyQ[i]]}
             m == IF I # {} THEN Min(I) ELSE 0
             n == IF m = 0 THEN Len(readyQ) + 1 ELSE m
  <1>1. Len(readyQ) \in Nat
    BY LenProperties
  <1>2. I \subseteq 1 .. Len(readyQ)
    OBVIOUS
  <1>3. ReadyQueueInsert(b, nd) = InsertAt(readyQ, n, b)
    BY DEF ReadyQueueInsert, SelectInSeq
  <1> HIDE DEF I
  <1>4. n \in 1 .. Len(readyQ) + 1
    <2>1. CASE I = {}
      BY <2>1, <1>1
    <2>2. CASE I # {}
      <3>1. Min(I) \in 1 .. Len(readyQ)
        BY <2>2, <1>1, <1>2, PlaceExists
      <3> QED
        BY <2>2, <3>1, <1>1
    <2> QED
      BY <2>1, <2>2
  <1> QED
    BY <1>3, <1>4

LEMMA ArrivalInsertList ==
  ASSUME NEW T, NEW q, Lists(q, Block, T), NEW b \in Block, b \notin T, NEW h, NEW l
  PROVE  Lists(ArrivalQueueInsert(b, q, h, l), Block, T \cup {b})
  <1>1. q \in Seq(Block)
    BY DEF Lists
  <1>2. PICK n \in 1 .. Len(q) + 1 : ArrivalQueueInsert(b, q, h, l) = InsertAt(q, n, b)
    BY <1>1, ArrivalPlace
  <1> QED
    BY <1>2, ListInsert

LEMMA ReadyInsertList ==
  ASSUME NEW T, Lists(readyQ, Block, T), NEW b \in Block, b \notin T, NEW nd
  PROVE  Lists(ReadyQueueInsert(b, nd), Block, T \cup {b})
  <1>1. readyQ \in Seq(Block)
    BY DEF Lists
  <1>2. PICK n \in 1 .. Len(readyQ) + 1 : ReadyQueueInsert(b, nd) = InsertAt(readyQ, n, b)
    BY <1>1, ReadyPlace
  <1> QED
    BY <1>2, ListInsert

LEMMA KeptSame ==
  ASSUME Sequences, BlocksKept,
         UNCHANGED <<state, zombie, pool, requests, serving, readyQ, arrivalQ, ending>>
  PROVE  BlocksKept' /\ Sequences'
  BY DEF BlocksKept, Sequences

(* A task is asked for.                                                    *)
LEMMA TakeKept ==
  ASSUME Types, BlocksKept, NEW b \in Block, NEW k, Take(b, k),
         UNCHANGED <<serving, readyQ, arrivalQ, ending>>
  PROVE  BlocksKept' /\ Sequences'
  <1>1. PICK R, V : Kept(R, V)
    BY KeptNow DEF Types, Sequences
  <1>2. /\ pool # <<>> /\ b = pool[1] /\ pool' = Tail(pool) /\ requests' = <<b>> \o requests
        /\ state' = [state EXCEPT ![b] = "CREATE"] /\ zombie' = [zombie EXCEPT ![b] = TRUE]
    BY DEF Take
  <1>3. b \in In({"FREE"}) /\ Lists(pool', Block, In({"FREE"}) \ {b})
    BY <1>1, <1>2, ListTail DEF Kept
  <1>4. /\ In({"FREE"})' = In({"FREE"}) \ {b} /\ Waits' = Waits \cup {b}
        /\ Arriving' = Arriving \ {b} /\ In({"FREE", "CREATE"})' = In({"FREE", "CREATE"}) \cup {b}
    BY <1>2, StateSets DEF Types
  <1>5. b \notin Waits /\ b \notin Arriving /\ b \in In({"FREE", "CREATE"}) /\ zombie[b]
    BY <1>1, <1>3 DEF In, Waits, Arriving, Kept
  <1>6. Lists(requests', Block, R \cup {b})
    BY <1>1, <1>2, <1>5, ListPush DEF Kept
  <1>7. zombie' = zombie
    BY <1>2, <1>5 DEF Types
  <1>8. Ready' = Ready /\ Arriving' = Arriving
    BY <1>4, <1>5, <1>7 DEF Ready
  <1>9. Kept(R \cup {b}, V)'
    <2>1. (R \cup {b}) \cap V = {} /\ (R \cup {b}) \cup V = Waits \cup {b}
      BY <1>1, <1>5 DEF Kept
    <2> QED
      BY <1>1, <1>3, <1>4, <1>5, <1>6, <1>7, <1>8, <2>1 DEF Kept
  <1> QED
    BY <1>9, KeptThen

(* The deletion of a task is asked for.                                    *)
LEMMA AskKept ==
  ASSUME Types, BlocksKept, NEW b \in Block, Ask(b),
         UNCHANGED <<serving, readyQ, arrivalQ, ending>>
  PROVE  BlocksKept' /\ Sequences'
  <1>1. PICK R, V : Kept(R, V)
    BY KeptNow DEF Types, Sequences
  <1>2. /\ state[b] = "NONE" /\ pool' = pool /\ requests' = <<b>> \o requests
        /\ state' = [state EXCEPT ![b] = "ASKED"] /\ zombie' = zombie
    BY DEF Ask
  <1>3. b \notin In({"FREE"}) /\ b \notin Waits /\ b \in Arriving /\ b \notin In({"FREE", "CREATE"})
    BY <1>2 DEF In, Waits, Arriving
  <1>4. /\ In({"FREE"})' = In({"FREE"}) /\ Waits' = Waits \cup {b}
        /\ Arriving' = Arriving /\ In({"FREE", "CREATE"})' = In({"FREE", "CREATE"})
    <2>1. /\ In({"FREE"})' = In({"FREE"}) \ {b} /\ Waits' = Waits \cup {b}
          /\ Arriving' = Arriving \cup {b}
          /\ In({"FREE", "CREATE"})' = In({"FREE", "CREATE"}) \ {b}
      BY <1>2, StateSets DEF Types
    <2> QED
      BY <1>3, <2>1
  <1>5. Lists(requests', Block, R \cup {b})
    BY <1>1, <1>2, <1>3, ListPush DEF Kept
  <1>6. Ready' = Ready
    BY <1>2 DEF Ready
  <1>7. Kept(R \cup {b}, V)'
    <2>1. (R \cup {b}) \cap V = {} /\ (R \cup {b}) \cup V = Waits \cup {b}
      BY <1>1, <1>3 DEF Kept
    <2> QED
      BY <1>1, <1>2, <1>4, <1>5, <1>6, <2>1 DEF Kept
  <1> QED
    BY <1>7, KeptThen

(* A task begins to end, and leaves the ready queue.                       *)
LEMMA EndTaskKept ==
  ASSUME Types, BlocksKept, Ending, NEW b \in Block, EndTask(b)
  PROVE  BlocksKept' /\ Sequences'
  <1>1. PICK R, V : Kept(R, V)
    BY KeptNow DEF Types, Sequences
  <1>2. /\ zombie' = [zombie EXCEPT ![b] = TRUE] /\ ending' = b /\ ending = None
        /\ UNCHANGED <<state, pool, requests, serving, readyQ, arrivalQ>>
    BY DEF EndTask, Runs
  <1>3. \A c \in Block : zombie'[c] = (zombie[c] \/ c = b)
    BY <1>2 DEF Types
  <1>4. /\ In({"FREE"})' = In({"FREE"}) /\ Waits' = Waits /\ Arriving' = Arriving
        /\ In({"FREE", "CREATE"})' = In({"FREE", "CREATE"})
    BY <1>2 DEF In, Waits, Arriving
  <1>5. Ready' = Ready
    <2>1. \A c \in Block : ending # c
      BY <1>2, NoBlock
    <2>2. b \in Ready
      <3>1. readyQ # <<>> /\ b = readyQ[1]
        BY NoBlock DEF EndTask, Runs, Ending
      <3> QED
        BY <1>1, <3>1, ListTail DEF Kept
    <2> QED
      BY <1>2, <1>3, <2>1, <2>2 DEF Ready
  <1>6. \A c \in In({"FREE", "CREATE"}) : zombie'[c]
    BY <1>1, <1>3 DEF Kept, In
  <1>7. Kept(R, V)'
    BY <1>1, <1>2, <1>4, <1>5, <1>6 DEF Kept
  <1> QED
    BY <1>7, KeptThen

LEMMA EndTaskUnlinkKept ==
  ASSUME Types, BlocksKept, Ending, EndTaskUnlink
  PROVE  BlocksKept' /\ Sequences'
  <1>1. PICK R, V : Kept(R, V)
    BY KeptNow DEF Types, Sequences
  <1>2. /\ readyQ' = Tail(readyQ) /\ ending' = None /\ ending # None
        /\ UNCHANGED <<state, zombie, pool, requests, serving, arrivalQ>>
    BY DEF EndTaskUnlink
  <1>3. readyQ # <<>> /\ ending = readyQ[1] /\ ending \in Block /\ zombie[ending]
    BY <1>2 DEF Ending, Types
  <1>4. Lists(readyQ', Block, Ready \ {ending})
    BY <1>1, <1>2, <1>3, ListTail DEF Kept
  <1>5. Ready' = Ready \ {ending}
    BY <1>2, <1>3, NoBlock DEF Ready
  <1>6. /\ In({"FREE"})' = In({"FREE"}) /\ Waits' = Waits /\ Arriving' = Arriving
        /\ In({"FREE", "CREATE"})' = In({"FREE", "CREATE"})
    BY <1>2 DEF In, Waits, Arriving
  <1>7. Kept(R, V)'
    BY <1>1, <1>2, <1>4, <1>5, <1>6 DEF Kept
  <1> QED
    BY <1>7, KeptThen

(* The handler comes in: a task that was ending leaves the queue.          *)
LEMMA EnterKept ==
  ASSUME Types, BlocksKept, Ending, Enter
  PROVE  BlocksKept' /\ Sequences'
  <1>1. PICK R, V : Kept(R, V)
    BY KeptNow DEF Types, Sequences
  <1>2. /\ readyQ' = IF readyQ # <<>> /\ zombie[readyQ[1]] THEN Tail(readyQ) ELSE readyQ
        /\ ending' = None /\ hpc = "out"
        /\ UNCHANGED <<state, zombie, pool, requests, serving, arrivalQ>>
    BY DEF Enter
  <1>3. Ready' = {b \in Block : ~zombie[b]}
    BY <1>2, NoBlock DEF Ready
  <1>4. Lists(readyQ', Block, Ready')
    <2>1. CASE readyQ # <<>> /\ zombie[readyQ[1]]
      <3>1. readyQ[1] \in Ready /\ Lists(readyQ', Block, Ready \ {readyQ[1]})
        BY <1>1, <1>2, <2>1, ListTail DEF Kept
      <3>2. ending = readyQ[1]
        BY <2>1, <3>1 DEF Ready
      <3>3. Ready \ {readyQ[1]} = Ready'
        BY <1>3, <2>1, <3>2 DEF Ready
      <3> QED
        BY <3>1, <3>3
    <2>2. CASE ~(readyQ # <<>> /\ zombie[readyQ[1]])
      <3>1. ending = None
        BY <1>2, <2>2 DEF Ending
      <3>2. Ready' = Ready
        BY <1>3, <3>1, NoBlock DEF Ready
      <3> QED
        BY <1>1, <1>2, <2>2, <3>2 DEF Kept
    <2> QED
      BY <2>1, <2>2
  <1>5. /\ In({"FREE"})' = In({"FREE"}) /\ Waits' = Waits /\ Arriving' = Arriving
        /\ In({"FREE", "CREATE"})' = In({"FREE", "CREATE"})
    BY <1>2 DEF In, Waits, Arriving
  <1>6. Kept(R, V)'
    BY <1>1, <1>2, <1>4, <1>5 DEF Kept
  <1> QED
    BY <1>6, KeptThen

LEMMA TakeRequestsKept ==
  ASSUME Types, BlocksKept, Taken, TakeRequests
  PROVE  BlocksKept' /\ Sequences'
  <1>1. CASE InWindow
    BY <1>1, KeptSame DEF TakeRequests, Types, Sequences
  <1>2. CASE ~InWindow
    <2>1. PICK R, V : Kept(R, V)
      BY KeptNow DEF Types, Sequences
    <2>2. /\ serving' = requests /\ requests' = <<>> /\ serving = <<>>
          /\ UNCHANGED <<state, zombie, pool, readyQ, arrivalQ, ending>>
      BY <1>2 DEF TakeRequests, Taken
    <2>3. Lists(<<>>, Block, {})
      BY DEF Lists, ToSet, IsInjective
    <2>4. V = {}
      BY <2>1, <2>2, <2>3 DEF Kept, Lists
    <2>5. UNCHANGED <<In({"FREE"}), Waits, Arriving, Ready, In({"FREE", "CREATE"})>>
      BY <2>2 DEF In, Waits, Arriving, Ready
    <2>6. Kept({}, R)'
      BY <2>1, <2>2, <2>3, <2>4, <2>5 DEF Kept
    <2> QED
      BY <2>6, KeptThen
  <1> QED
    BY <1>1, <1>2

LEMMA ServeCreateKept ==
  ASSUME Types, BlocksKept, NEW b \in Block, ServeCreate(b)
  PROVE  BlocksKept' /\ Sequences'
  <1>1. PICK R, V : Kept(R, V)
    BY KeptNow DEF Types, Sequences
  <1>2. /\ serving # <<>> /\ b = serving[1] /\ serving' = Tail(serving)
        /\ state[b] = "CREATE" /\ state' = [state EXCEPT ![b] = "NONE"]
        /\ arrivalQ' = ArrivalQueueInsert(b, arrivalQ, high, low')
        /\ UNCHANGED <<zombie, pool, requests, readyQ, ending>>
    BY DEF ServeCreate, Served
  <1>3. b \in V /\ Lists(serving', Block, V \ {b})
    BY <1>1, <1>2, ListTail DEF Kept
  <1>4. b \notin In({"FREE"}) /\ b \notin Arriving
    BY <1>2 DEF In, Arriving
  <1>5. /\ In({"FREE"})' = In({"FREE"}) \ {b} /\ Waits' = Waits \ {b}
        /\ Arriving' = Arriving \cup {b}
        /\ In({"FREE", "CREATE"})' = In({"FREE", "CREATE"}) \ {b}
    BY <1>2, StateSets DEF Types
  <1>6. Lists(arrivalQ', Block, Arriving \cup {b})
    BY <1>1, <1>2, <1>4, ArrivalInsertList DEF Kept
  <1>7. In({"FREE"})' = In({"FREE"})
    BY <1>4, <1>5
  <1>8. R \cap (V \ {b}) = {} /\ R \cup (V \ {b}) = Waits \ {b}
    BY <1>1, <1>3 DEF Kept
  <1>9. Ready' = Ready
    BY <1>2 DEF Ready
  <1>10. Kept(R, V \ {b})'
    BY <1>1, <1>2, <1>3, <1>5, <1>6, <1>7, <1>8, <1>9 DEF Kept
  <1> QED
    BY <1>10, KeptThen

LEMMA ServeIdleKept ==
  ASSUME Types, BlocksKept, Ending, NEW b \in Block, ServeIdle(b)
  PROVE  BlocksKept' /\ Sequences'
  <1>1. PICK R, V : Kept(R, V)
    BY KeptNow DEF Types, Sequences
  <1>2. /\ serving # <<>> /\ b = serving[1] /\ serving' = Tail(serving)
        /\ state[b] # "CREATE" /\ zombie[b] /\ state' = [state EXCEPT ![b] = "FREE"]
        /\ arrivalQ' = RemoveFirst(arrivalQ, b) /\ pool' = <<b>> \o pool
        /\ UNCHANGED <<zombie, requests, readyQ, ending>>
    BY DEF ServeIdle, Served, FreeLive
  <1>3. b \in V /\ Lists(serving', Block, V \ {b})
    BY <1>1, <1>2, ListTail DEF Kept
  <1>4. b \in Waits /\ b \notin In({"FREE"}) /\ b \in Arriving
    BY <1>1, <1>2, <1>3 DEF Kept, Waits, In, Arriving
  <1>5. /\ In({"FREE"})' = In({"FREE"}) \cup {b} /\ Waits' = Waits \ {b}
        /\ Arriving' = Arriving \ {b}
        /\ In({"FREE", "CREATE"})' = In({"FREE", "CREATE"}) \cup {b}
    BY <1>2, StateSets DEF Types
  <1>6. Lists(arrivalQ', Block, Arriving \ {b})
    BY <1>1, <1>2, <1>4, ListRemove DEF Kept
  <1>7. Lists(pool', Block, In({"FREE"}) \cup {b})
    BY <1>1, <1>2, <1>4, ListPush DEF Kept
  <1>8. R \cap (V \ {b}) = {} /\ R \cup (V \ {b}) = Waits \ {b}
    BY <1>1, <1>3 DEF Kept
  <1>9. Ready' = Ready
    BY <1>2 DEF Ready
  <1>10. Kept(R, V \ {b})'
    BY <1>1, <1>2, <1>3, <1>5, <1>6, <1>7, <1>8, <1>9 DEF Kept
  <1> QED
    BY <1>10, KeptThen

LEMMA ServeLaterKept ==
  ASSUME Types, BlocksKept, NEW b \in Block, ServeLater(b)
  PROVE  BlocksKept' /\ Sequences'
  <1>1. PICK R, V : Kept(R, V)
    BY KeptNow DEF Types, Sequences
  <1>2. /\ serving # <<>> /\ b = serving[1] /\ serving' = Tail(serving)
        /\ state[b] # "CREATE" /\ ~zombie[b] /\ state' = [state EXCEPT ![b] = "DELETE"]
        /\ UNCHANGED <<zombie, pool, requests, readyQ, arrivalQ, ending>>
    BY DEF ServeLater, Served
  <1>3. b \in V /\ Lists(serving', Block, V \ {b})
    BY <1>1, <1>2, ListTail DEF Kept
  <1>4. b \in Waits /\ b \notin In({"FREE"}) /\ b \in Arriving /\ b \notin In({"FREE", "CREATE"})
    BY <1>1, <1>2, <1>3 DEF Kept, Waits, In, Arriving
  <1>5. /\ In({"FREE"})' = In({"FREE"}) \ {b} /\ Waits' = Waits \ {b}
        /\ Arriving' = Arriving \cup {b}
        /\ In({"FREE", "CREATE"})' = In({"FREE", "CREATE"}) \ {b}
    BY <1>2, StateSets DEF Types
  <1>6. In({"FREE"})' = In({"FREE"}) /\ Arriving' = Arriving
    BY <1>4, <1>5
  <1>7. R \cap (V \ {b}) = {} /\ R \cup (V \ {b}) = Waits \ {b}
    BY <1>1, <1>3 DEF Kept
  <1>8. Ready' = Ready
    BY <1>2 DEF Ready
  <1>9. Kept(R, V \ {b})'
    BY <1>1, <1>2, <1>3, <1>5, <1>6, <1>7, <1>8 DEF Kept
  <1> QED
    BY <1>9, KeptThen

(* The blocks at an arrival: given back, or put back for the next one.     *)
LEMMA GiveBackKept ==
  ASSUME Types, BlocksKept, NEW b \in Block, GiveBack(b)
  PROVE  BlocksKept' /\ Sequences'
  <1>1. PICK R, V : Kept(R, V)
    BY KeptNow DEF Types, Sequences
  <1>2. /\ arrivalQ # <<>> /\ b = arrivalQ[1] /\ arrivalQ' = Tail(arrivalQ)
        /\ state[b] = "DELETE" /\ zombie[b] /\ state' = [state EXCEPT ![b] = "FREE"]
        /\ pool' = <<b>> \o pool
        /\ UNCHANGED <<zombie, requests, serving, readyQ, ending>>
    BY DEF GiveBack, Arrives, GoesBack, FreeLive
  <1>3. Lists(arrivalQ', Block, Arriving \ {b})
    BY <1>1, <1>2, ListTail DEF Kept
  <1>4. b \notin Waits /\ b \notin In({"FREE"})
    BY <1>2 DEF Waits, In
  <1>5. /\ In({"FREE"})' = In({"FREE"}) \cup {b} /\ Waits' = Waits \ {b}
        /\ Arriving' = Arriving \ {b}
        /\ In({"FREE", "CREATE"})' = In({"FREE", "CREATE"}) \cup {b}
    BY <1>2, StateSets DEF Types
  <1>6. Lists(pool', Block, In({"FREE"}) \cup {b})
    BY <1>1, <1>2, <1>4, ListPush DEF Kept
  <1>7. Waits' = Waits
    BY <1>4, <1>5
  <1>8. Ready' = Ready
    BY <1>2 DEF Ready
  <1>9. Kept(R, V)'
    BY <1>1, <1>2, <1>3, <1>5, <1>6, <1>7, <1>8 DEF Kept
  <1> QED
    BY <1>9, KeptThen

LEMMA NextArrivalList ==
  ASSUME Types, BlocksKept, NEW b \in Block, Arrives(b), NextPeriodicArrival(b)
  PROVE  b \in Arriving /\ Lists(arrivalQ', Block, Arriving)
  <1>1. arrivalQ # <<>> /\ b = arrivalQ[1] /\ Lists(arrivalQ, Block, Arriving)
    BY DEF Arrives, Types, BlocksKept, Lists, Arriving
  <1>2. b \in Arriving /\ Lists(Tail(arrivalQ), Block, Arriving \ {b})
    BY <1>1, ListTail
  <1>3. arrivalQ' = ArrivalQueueInsert(b, Tail(arrivalQ), high', low')
    BY DEF NextPeriodicArrival
  <1>4. Lists(arrivalQ', Block, (Arriving \ {b}) \cup {b})
    BY <1>2, <1>3, ArrivalInsertList
  <1>5. (Arriving \ {b}) \cup {b} = Arriving
    BY <1>2
  <1> QED
    BY <1>2, <1>4, <1>5

LEMMA OverrunKept ==
  ASSUME Types, BlocksKept, NEW b \in Block, Overrun(b)
  PROVE  BlocksKept' /\ Sequences'
  <1>1. PICK R, V : Kept(R, V)
    BY KeptNow DEF Types, Sequences
  <1>2. UNCHANGED <<state, zombie, pool, requests, serving, readyQ, ending>>
    BY DEF Overrun
  <1>3. Lists(arrivalQ', Block, Arriving)
    BY NextArrivalList DEF Overrun
  <1>4. UNCHANGED <<In({"FREE"}), Waits, Arriving, Ready, In({"FREE", "CREATE"})>>
    BY <1>2 DEF In, Waits, Arriving, Ready
  <1>5. Kept(R, V)'
    BY <1>1, <1>2, <1>3, <1>4 DEF Kept
  <1> QED
    BY <1>5, KeptThen

LEMMA ReleaseKept ==
  ASSUME Types, BlocksKept, Ending, NEW b \in Block, Release(b)
  PROVE  BlocksKept' /\ Sequences'
  <1>1. PICK R, V : Kept(R, V)
    BY KeptNow DEF Types, Sequences
  <1>2. /\ zombie[b] /\ zombie' = [zombie EXCEPT ![b] = FALSE]
        /\ readyQ' = ReadyQueueInsert(b, nextDeadline') /\ hpc = "arrivals"
        /\ UNCHANGED <<state, pool, requests, serving, ending>>
    BY DEF Release, Arrives
  <1>3. b \in Arriving /\ Lists(arrivalQ', Block, Arriving)
    BY NextArrivalList DEF Release
  <1>4. UNCHANGED <<In({"FREE"}), Waits, Arriving, In({"FREE", "CREATE"})>>
    BY <1>2 DEF In, Waits, Arriving
  <1>5. \A c \in Block : ending # c
    BY <1>2, NoBlock DEF Ending
  <1>6. \A c \in Block : zombie'[c] = (zombie[c] /\ c # b)
    BY <1>2 DEF Types
  <1>7. b \notin Ready /\ Ready' = Ready \cup {b}
    BY <1>2, <1>5, <1>6 DEF Ready
  <1>8. Lists(readyQ', Block, Ready \cup {b})
    BY <1>1, <1>2, <1>7, ReadyInsertList DEF Kept
  <1>9. \A c \in In({"FREE", "CREATE"}) : zombie'[c]
    BY <1>1, <1>3, <1>6 DEF Kept, In, Arriving
  <1>10. Kept(R, V)'
    BY <1>1, <1>2, <1>3, <1>4, <1>7, <1>8, <1>9 DEF Kept
  <1> QED
    BY <1>10, KeptThen

-----------------------------------------------------------------------------
(***************************************************************************)
(* Types.                                                                  *)
(***************************************************************************)

LEMMA Constants ==
  /\ ShiftTimeLimit \in Nat \ {0} /\ None \notin Block
  /\ MaxLatency \in Nat /\ MaxLatency > 0 /\ MaxLatency < ShiftTimeLimit
  /\ \A k \in Timings \cup {NoTiming} :
       k.high \in Nat /\ k.low \in Nat /\ k.low < ShiftTimeLimit
  <1>1. ShiftTimeLimit \in Nat \ {0} /\ MaxLatency \in 1 .. ShiftTimeLimit - 1
    BY LiveAssumption
  <1>2. \A k \in Timings : k.high \in Nat /\ k.low \in 0 .. ShiftTimeLimit - 1
    BY LiveAssumption
  <1> QED
    BY <1>1, <1>2, NoBlock DEF NoTiming

(* What is not a list.                                                     *)
Values ==
  /\ state \in [Block -> {"NONE", "CREATE", "ASKED", "DELETE", "FREE"}]
  /\ zombie \in [Block -> BOOLEAN] /\ timing \in [Block -> Timings \cup {NoTiming}]
  /\ high \in [Block -> Nat] /\ low \in [Block -> Int] /\ due \in [Block -> Int]
  /\ hpc \in Places /\ ending \in Block \cup {None} /\ raising \subseteq Block
  /\ now \in 0 .. ShiftTimeLimit - 1 /\ currentTime \in 0 .. ShiftTimeLimit - 1
  /\ lastTime \in 0 .. ShiftTimeLimit - 1
  /\ wrapped \in BOOLEAN /\ overflowFlag \in BOOLEAN
  /\ age \in Nat /\ latency \in 0 .. MaxLatency

LEMMA TypesParts == /\ Types <=> Values /\ Sequences
                    /\ Types' <=> Values' /\ Sequences'
  BY DEF Types, Values, Sequences

LEMMA StepCases ==
  ASSUME [Next]_liveVars
  PROVE  \/ UNCHANGED liveVars
         \/ Enter \/ TestOverflow \/ ReadTime \/ TakeRequests \/ ServeDone \/ SetTimer
         \/ ClearSoftTimerInterrupt \/ Leave
         \/ Overflow \/ Tick \/ StartTimer \/ CallByInterrupt \/ EndTaskUnlink
         \/ \E b \in Block : \/ ServeCreate(b) \/ ServeIdle(b) \/ ServeLater(b)
                             \/ GiveBack(b) \/ Overrun(b) \/ Release(b)
                             \/ CallByTask(b) \/ Raise(b) \/ EndTask(b)
  BY DEF Next, Handler

(* The turns and the remainder of the next arrival.                        *)
LEMMA NextArrivalTimes ==
  ASSUME Values, NEW b \in Block, NextPeriodicArrival(b)
  PROVE  /\ high' \in [Block -> Nat] /\ low' \in [Block -> Int] /\ due' \in [Block -> Int]
         /\ \A c \in Block : c # b => high'[c] = high[c] /\ low'[c] = low[c] /\ due'[c] = due[c]
         /\ high'[b] * ShiftTimeLimit + low'[b] = low[b] + PeriodOf(b)
         /\ due'[b] = due[b] + PeriodOf(b)
  <1> DEFINE sum == low[b] + timing[b].low
             carry == IF sum >= ShiftTimeLimit THEN 1 ELSE 0
             th == timing[b].high
  <1>1. /\ high' = [high EXCEPT ![b] = th + carry]
        /\ low' = [low EXCEPT ![b] = sum - carry * ShiftTimeLimit]
        /\ due' = [due EXCEPT ![b] = @ + PeriodOf(b)]
    BY DEF NextPeriodicArrival
  <1>2. /\ th \in Nat /\ timing[b].low \in Nat /\ low[b] \in Int /\ ShiftTimeLimit \in Nat
        /\ high \in [Block -> Nat] /\ low \in [Block -> Int] /\ due \in [Block -> Int]
    BY Constants DEF Values
  <1>3. sum \in Int /\ carry \in {0, 1} /\ PeriodOf(b) = th * ShiftTimeLimit + timing[b].low
    BY <1>2 DEF PeriodOf
  <1>4. th * ShiftTimeLimit \in Nat
    BY <1>2
  <1>5. PeriodOf(b) \in Int /\ sum = low[b] + timing[b].low
    BY <1>2, <1>3, <1>4
  <1> HIDE DEF sum, carry, th
  <1>6. th + carry \in Nat /\ sum - carry * ShiftTimeLimit \in Int
    <2>1. CASE carry = 0
      BY <2>1, <1>2, <1>3
    <2>2. CASE carry = 1
      BY <2>2, <1>2, <1>3
    <2> QED
      BY <1>3, <2>1, <2>2
  <1>7. (th + carry) * ShiftTimeLimit + (sum - carry * ShiftTimeLimit) = low[b] + PeriodOf(b)
    <2>1. CASE carry = 0
      BY <2>1, <1>2, <1>3, <1>4, <1>5
    <2>2. CASE carry = 1
      <3>1. (th + 1) * ShiftTimeLimit = th * ShiftTimeLimit + ShiftTimeLimit
        BY <1>2
      <3> QED
        BY <2>2, <3>1, <1>2, <1>3, <1>4, <1>5
    <2> QED
      BY <1>3, <2>1, <2>2
  <1>8. /\ high'[b] = th + carry /\ low'[b] = sum - carry * ShiftTimeLimit
        /\ due'[b] = due[b] + PeriodOf(b)
        /\ \A c \in Block : c # b => high'[c] = high[c] /\ low'[c] = low[c] /\ due'[c] = due[c]
    BY <1>1, <1>2
  <1>9. /\ high' \in [Block -> Nat] /\ low' \in [Block -> Int] /\ due' \in [Block -> Int]
    <2>1. due[b] + PeriodOf(b) \in Int
      BY <1>2, <1>5
    <2> QED
      BY <1>1, <1>2, <1>6, <2>1
  <1> QED
    BY <1>7, <1>8, <1>9

LEMMA ValuesStep ==
  ASSUME Types, BlocksKept, FlagSeen, [Next]_liveVars
  PROVE  Values'
  <1>0. Values
    BY TypesParts
  <1> USE DEF Values
  <1>1. CASE UNCHANGED liveVars
    BY <1>0, <1>1
  <1>2. CASE Enter
    BY <1>0, <1>2 DEF Enter, Places
  <1>3. CASE TestOverflow
    <2>1. /\ high' \in [Block -> Nat] /\ low' \in [Block -> Int]
          /\ lastTime' \in 0 .. ShiftTimeLimit - 1
      BY <1>0, <1>3, Constants DEF TestOverflow, ShiftTimes
    <2>2. hpc' = "clear" /\ overflowFlag' = FALSE
      BY <1>3 DEF TestOverflow
    <2>3. UNCHANGED <<state, zombie, timing, due, ending, raising, now, currentTime, wrapped,
                      age, latency>>
      BY <1>3 DEF TestOverflow
    <2> QED
      BY <1>0, <2>1, <2>2, <2>3 DEF Places
  <1>4. CASE ReadTime
    BY <1>0, <1>4 DEF ReadTime, Places
  <1>5. CASE TakeRequests
    BY <1>0, <1>5 DEF TakeRequests, Places
  <1>6. CASE ServeDone
    BY <1>0, <1>6 DEF ServeDone, Places
  <1>7. CASE SetTimer
    BY <1>0, <1>7, Constants DEF SetTimer, Places
  <1>8. CASE ClearSoftTimerInterrupt
    BY <1>0, <1>8 DEF ClearSoftTimerInterrupt, Places
  <1>9. CASE Leave
    <2>1. hpc' \in Places /\ latency' \in 0 .. MaxLatency
      BY <1>0, <1>9, Constants DEF Leave, Places
    <2> QED
      BY <1>0, <1>9, <2>1 DEF Leave
  <1>10. CASE Overflow
    BY <1>0, <1>10 DEF Overflow
  <1>11. CASE Tick
    <2>1. /\ now' = IF now + 1 = ShiftTimeLimit THEN 0 ELSE now + 1
          /\ wrapped' = (now' = 0)
          /\ due' = [b \in Block |-> IF Contains(arrivalQ, b) THEN due[b] - 1 ELSE 0]
          /\ age' = IF hpc \in {"window", "serve"} THEN age + 1 ELSE 0
          /\ latency' = IF pendSoft \/ hpc # "out" THEN latency + 1 ELSE 0
          /\ pendSoft \/ hpc # "out" => latency < MaxLatency
          /\ UNCHANGED <<state, zombie, timing, high, low, hpc, ending, raising, currentTime,
                         lastTime, overflowFlag>>
      BY <1>11 DEF Tick
    <2>2. now' \in 0 .. ShiftTimeLimit - 1 /\ latency' \in 0 .. MaxLatency /\ age' \in Nat
      BY <1>0, <2>1, Constants
    <2>3. due' \in [Block -> Int] /\ wrapped' \in BOOLEAN
      BY <1>0, <2>1
    <2> QED
      BY <1>0, <2>1, <2>2, <2>3
  <1>12. CASE StartTimer
    BY <1>0, <1>12 DEF StartTimer
  <1>13. ASSUME Request, UNCHANGED <<due, hpc, ending, now, currentTime, lastTime, wrapped,
                                     overflowFlag, age, latency>>, raising' \subseteq Block
         PROVE  Values'
    <2>1. CASE \E b \in Block : Ask(b)
      BY <1>0, <1>13, <2>1 DEF Ask
    <2>2. CASE \E b \in Block : \E k \in Timings : Take(b, k)
      BY <1>0, <1>13, <2>2 DEF Take
    <2> QED
      BY <1>13, <2>1, <2>2 DEF Request
  <1>14. CASE CallByInterrupt
    BY <1>0, <1>13, <1>14 DEF CallByInterrupt
  <1>15. CASE EndTaskUnlink
    BY <1>0, <1>15 DEF EndTaskUnlink
  <1>16. ASSUME NEW b \in Block
         PROVE  /\ ServeCreate(b) => Values'
                /\ ServeIdle(b) => Values'
                /\ ServeLater(b) => Values'
                /\ GiveBack(b) => Values'
    <2>1. CASE ServeCreate(b)
      <3>1. /\ state' = [state EXCEPT ![b] = "NONE"] /\ low' = [low EXCEPT ![b] = currentTime]
            /\ due' = [due EXCEPT ![b] = -age]
        BY <2>1 DEF ServeCreate
      <3>2. UNCHANGED <<zombie, timing, high, hpc, ending, raising, now, currentTime, lastTime,
                        wrapped, overflowFlag, age, latency>>
        BY <2>1 DEF ServeCreate, Served
      <3> QED
        BY <1>0, <3>1, <3>2
    <2>2. CASE ServeIdle(b)
      <3>1. state' = [state EXCEPT ![b] = "FREE"] /\ UNCHANGED <<high, low, due>>
        BY <2>2 DEF ServeIdle, FreeLive
      <3>2. UNCHANGED <<zombie, timing, hpc, ending, raising, now, currentTime, lastTime, wrapped,
                        overflowFlag, age, latency>>
        BY <2>2 DEF ServeIdle, Served
      <3> QED
        BY <1>0, <3>1, <3>2
    <2>3. CASE ServeLater(b)
      BY <1>0, <2>3 DEF ServeLater, Served
    <2>4. CASE GiveBack(b)
      BY <1>0, <2>4 DEF GiveBack, FreeLive
    <2> QED
      BY <2>1, <2>2, <2>3, <2>4
  <1>17. ASSUME NEW b \in Block
         PROVE  /\ Overrun(b) => Values'
                /\ Release(b) => Values'
                /\ CallByTask(b) => Values'
                /\ Raise(b) => Values'
                /\ EndTask(b) => Values'
    <2>1. CASE Overrun(b)
      BY <1>0, <2>1, NextArrivalTimes DEF Overrun
    <2>2. CASE Release(b)
      BY <1>0, <2>2, NextArrivalTimes DEF Release
    <2>3. CASE CallByTask(b)
      BY <1>0, <1>13, <2>3 DEF CallByTask
    <2>4. CASE Raise(b)
      BY <1>0, <2>4 DEF Raise
    <2>5. CASE EndTask(b)
      BY <1>0, <2>5 DEF EndTask
    <2> QED
      BY <2>1, <2>2, <2>3, <2>4, <2>5
  <1> QED
    BY <1>1, <1>2, <1>3, <1>4, <1>5, <1>6, <1>7, <1>8, <1>9, <1>10, <1>11, <1>12, <1>14,
       <1>15, <1>16, <1>17, StepCases

-----------------------------------------------------------------------------
(***************************************************************************)
(* Each part of the invariant is kept.                                     *)
(***************************************************************************)

LEMMA KeptStep ==
  ASSUME LiveInv, [Next]_liveVars
  PROVE  BlocksKept' /\ Sequences'
  <1>0. /\ Types /\ BlocksKept /\ Ending /\ Taken
        /\ Sequences
    BY TypesParts DEF LiveInv
  <1>1. CASE UNCHANGED liveVars
    BY <1>0, <1>1, KeptSame
  <1>2. CASE TestOverflow \/ ReadTime \/ ServeDone \/ SetTimer \/ ClearSoftTimerInterrupt
    BY <1>0, <1>2, KeptSame DEF TestOverflow, ReadTime, ServeDone, SetTimer,
       ClearSoftTimerInterrupt
  <1>3. CASE Leave \/ Overflow \/ Tick \/ StartTimer
    BY <1>0, <1>3, KeptSame DEF Leave, Overflow, Tick, StartTimer
  <1>4. ASSUME Request, UNCHANGED <<serving, readyQ, arrivalQ, ending>>
        PROVE  BlocksKept' /\ Sequences'
    BY <1>0, <1>4, TakeKept, AskKept DEF Request
  <1>5. CASE CallByInterrupt
    BY <1>4, <1>5 DEF CallByInterrupt
  <1>6. CASE Enter \/ TakeRequests \/ EndTaskUnlink
    BY <1>0, <1>6, EnterKept, TakeRequestsKept, EndTaskUnlinkKept
  <1>7. ASSUME NEW b \in Block,
               ServeCreate(b) \/ ServeIdle(b) \/ ServeLater(b) \/ GiveBack(b)
        PROVE  BlocksKept' /\ Sequences'
    BY <1>0, <1>7, ServeCreateKept, ServeIdleKept, ServeLaterKept, GiveBackKept
  <1>8. ASSUME NEW b \in Block,
               Overrun(b) \/ Release(b) \/ CallByTask(b) \/ Raise(b) \/ EndTask(b)
        PROVE  BlocksKept' /\ Sequences'
    <2>1. CASE CallByTask(b)
      BY <1>4, <2>1 DEF CallByTask
    <2>2. CASE Raise(b)
      BY <1>0, <2>2, KeptSame DEF Raise
    <2> QED
      BY <1>0, <1>8, <2>1, <2>2, OverrunKept, ReleaseKept, EndTaskKept
  <1> QED
    BY <1>1, <1>2, <1>3, <1>5, <1>6, <1>7, <1>8, StepCases

LEMMA EndingStep ==
  ASSUME LiveInv, [Next]_liveVars
  PROVE  Ending'
  <1>0. /\ Ending /\ None \notin Block /\ ending \in Block \cup {None}
        /\ zombie \in [Block -> BOOLEAN]
    BY NoBlock DEF LiveInv, Types
  <1> USE DEF Ending
  <1>1. CASE UNCHANGED liveVars
    BY <1>0, <1>1
  <1>2. CASE Enter
    BY <1>0, <1>2 DEF Enter
  <1>3. CASE TestOverflow \/ ReadTime \/ TakeRequests \/ ServeDone \/ SetTimer
             \/ ClearSoftTimerInterrupt
    BY <1>0, <1>3 DEF TestOverflow, ReadTime, TakeRequests, ServeDone, SetTimer,
       ClearSoftTimerInterrupt
  <1>4. CASE Leave
    BY <1>0, <1>4 DEF Leave
  <1>5. CASE Overflow \/ Tick \/ StartTimer
    BY <1>0, <1>5 DEF Overflow, Tick, StartTimer
  <1>6. ASSUME Request, UNCHANGED <<hpc, active, ending, readyQ>>
        PROVE  Ending'
    <2>1. \A c \in Block : zombie[c] => zombie'[c]
      BY <1>0, <1>6 DEF Request, Take, Ask
    <2> QED
      BY <1>0, <1>6, <2>1
  <1>7. CASE CallByInterrupt
    BY <1>6, <1>7 DEF CallByInterrupt
  <1>8. CASE EndTaskUnlink
    <2>1. readyQ # <<>> /\ readyQ \in Seq(Block)
      BY <1>0, <1>8 DEF EndTaskUnlink, LiveInv, Types
    <2>2. /\ Tail(readyQ) = <<>> <=> ~(Len(readyQ) > 1)
          /\ Len(readyQ) > 1 => Tail(readyQ)[1] = readyQ[2]
      <3>1. /\ Tail(readyQ) \in Seq(Block) /\ Len(Tail(readyQ)) = Len(readyQ) - 1
            /\ \A i \in 1 .. Len(Tail(readyQ)) : Tail(readyQ)[i] = readyQ[i + 1]
        BY <2>1, HeadTailProperties
      <3>2. Len(readyQ) \in Nat /\ (Tail(readyQ) = <<>> <=> Len(Tail(readyQ)) = 0)
        BY <2>1, <3>1, EmptySeq, LenProperties
      <3> QED
        BY <3>1, <3>2
    <2> QED
      BY <1>0, <1>8, <2>2 DEF EndTaskUnlink
  <1>9. ASSUME NEW b \in Block,
               ServeCreate(b) \/ ServeIdle(b) \/ ServeLater(b) \/ GiveBack(b)
        PROVE  Ending'
    BY <1>0, <1>9 DEF ServeCreate, ServeIdle, ServeLater, GiveBack, Served, Arrives, FreeLive
  <1>10. ASSUME NEW b \in Block, Overrun(b) \/ Release(b)
         PROVE  Ending'
    BY <1>0, <1>10 DEF Overrun, Release, Arrives
  <1>11. ASSUME NEW b \in Block, CallByTask(b) \/ Raise(b)
         PROVE  Ending'
    BY <1>0, <1>6, <1>11 DEF CallByTask, Raise
  <1>12. ASSUME NEW b \in Block, EndTask(b)
         PROVE  Ending'
    BY <1>0, <1>12 DEF EndTask, Runs
  <1> QED
    BY <1>1, <1>2, <1>3, <1>4, <1>5, <1>7, <1>8, <1>9, <1>10, <1>11, <1>12, StepCases

LEMMA TakenStep ==
  ASSUME LiveInv, [Next]_liveVars
  PROVE  Taken'
  <1>0. Taken
    BY DEF LiveInv
  <1> USE DEF Taken
  <1>1. CASE UNCHANGED liveVars
    BY <1>0, <1>1
  <1>2. CASE Enter \/ TestOverflow \/ ReadTime \/ TakeRequests \/ ServeDone
    BY <1>0, <1>2 DEF Enter, TestOverflow, ReadTime, TakeRequests, ServeDone
  <1>3. CASE SetTimer \/ ClearSoftTimerInterrupt \/ Leave \/ Overflow \/ Tick \/ StartTimer
             \/ CallByInterrupt \/ EndTaskUnlink
    BY <1>0, <1>3 DEF SetTimer, ClearSoftTimerInterrupt, Leave, Overflow, Tick, StartTimer,
       CallByInterrupt, EndTaskUnlink
  <1>4. ASSUME NEW b \in Block,
               ServeCreate(b) \/ ServeIdle(b) \/ ServeLater(b) \/ GiveBack(b) \/ Overrun(b)
               \/ Release(b)
        PROVE  Taken'
    BY <1>0, <1>4 DEF ServeCreate, ServeIdle, ServeLater, Served, GiveBack, Overrun, Release
  <1>5. ASSUME NEW b \in Block, CallByTask(b) \/ Raise(b) \/ EndTask(b)
        PROVE  Taken'
    BY <1>0, <1>5 DEF CallByTask, Raise, EndTask
  <1> QED
    BY <1>1, <1>2, <1>3, <1>4, <1>5, StepCases

LEMMA AwaitedStep ==
  ASSUME LiveInv, [Next]_liveVars
  PROVE  RequestsAwaited'
  <1>0. RequestsAwaited
    BY DEF LiveInv
  <1> USE DEF RequestsAwaited
  <1>1. CASE UNCHANGED liveVars
    BY <1>0, <1>1
  <1>2. CASE Enter \/ TestOverflow \/ ReadTime \/ TakeRequests \/ ServeDone \/ SetTimer
             \/ ClearSoftTimerInterrupt
    BY <1>0, <1>2 DEF Enter, TestOverflow, ReadTime, TakeRequests, ServeDone, SetTimer,
       ClearSoftTimerInterrupt
  <1>3. CASE Leave \/ Overflow \/ Tick \/ StartTimer \/ CallByInterrupt \/ EndTaskUnlink
    <2>1. CASE Leave
      BY <1>0, <2>1 DEF Leave, Again
    <2>2. CASE Overflow
      BY <1>0, <2>2 DEF Overflow
    <2>3. CASE Tick
      <3>1. pendSoft => pendSoft'
        BY <2>3, Zenon DEF Tick
      <3> QED
        BY <1>0, <2>3, <3>1 DEF Tick
    <2>4. CASE StartTimer
      BY <1>0, <2>4 DEF StartTimer
    <2>5. CASE CallByInterrupt
      <3>1. booted' => pendSoft'
        BY <2>5, Zenon DEF CallByInterrupt, timer
      <3> QED
        BY <3>1
    <2>6. CASE EndTaskUnlink
      BY <1>0, <2>6 DEF EndTaskUnlink
    <2> QED
      BY <1>3, <2>1, <2>2, <2>3, <2>4, <2>5, <2>6
  <1>4. ASSUME NEW b \in Block,
               ServeCreate(b) \/ ServeIdle(b) \/ ServeLater(b) \/ GiveBack(b) \/ Overrun(b)
               \/ Release(b)
        PROVE  RequestsAwaited'
    BY <1>0, <1>4 DEF ServeCreate, ServeIdle, ServeLater, Served, GiveBack, Overrun, Release,
       Arrives
  <1>5. ASSUME NEW b \in Block, CallByTask(b) \/ Raise(b) \/ EndTask(b)
        PROVE  RequestsAwaited'
    <2>1. CASE CallByTask(b)
      <3>1. b \in raising'
        BY <2>1 DEF CallByTask
      <3> QED
        BY <3>1
    <2>2. CASE Raise(b)
      <3>1. pendSoft'
        BY <2>2, Zenon DEF Raise
      <3> QED
        BY <3>1
    <2>3. CASE EndTask(b)
      BY <1>0, <2>3 DEF EndTask
    <2> QED
      BY <1>5, <2>1, <2>2, <2>3
  <1> QED
    BY <1>1, <1>2, <1>3, <1>4, <1>5, StepCases

(* A tick is one tick of the true time, and no turn begins while the flag  *)
(* of the one before is up.                                                *)
LEMMA TickTime ==
  ASSUME Values, FlagSeen, Tick
  PROVE  /\ ~wrapped /\ TrueNow' = TrueNow + 1
         /\ now' = (IF wrapped' THEN 0 ELSE now + 1)
         /\ overflowFlag => ~wrapped' /\ now' = now + 1 /\ now' <= latency'
         /\ overflowFlag' = overflowFlag
  <1>1. /\ ~wrapped /\ booted
        /\ now' = IF now + 1 = ShiftTimeLimit THEN 0 ELSE now + 1
        /\ wrapped' = (now' = 0)
        /\ latency' = IF pendSoft \/ hpc # "out" THEN latency + 1 ELSE 0
        /\ pendSoft \/ hpc # "out" => latency < MaxLatency
        /\ overflowFlag' = overflowFlag
    BY DEF Tick
  <1>2. /\ now \in Nat /\ now < ShiftTimeLimit /\ latency \in Nat /\ ShiftTimeLimit \in Nat
        /\ MaxLatency \in Nat /\ MaxLatency < ShiftTimeLimit
        /\ wrapped \in BOOLEAN /\ overflowFlag \in BOOLEAN
    BY Constants DEF Values
  <1>3. ASSUME overflowFlag
        PROVE  ~wrapped' /\ now' = now + 1 /\ now' <= latency'
    <2>1. now <= latency /\ (pendSoft \/ hpc # "out")
      BY <1>3 DEF FlagSeen
    <2>2. latency < MaxLatency /\ latency' = latency + 1
      BY <1>1, <2>1
    <2>3. now' = now + 1 /\ now' <= latency'
      BY <1>1, <1>2, <2>1, <2>2
    <2> QED
      BY <1>1, <1>2, <2>3
  <1>4. now' = (IF wrapped' THEN 0 ELSE now + 1)
    BY <1>1, <1>2
  <1>5. CASE overflowFlag
    BY <1>1, <1>2, <1>3, <1>4, <1>5 DEF TrueNow
  <1>6. CASE ~overflowFlag
    <2>1. TrueNow = now
      BY <1>1, <1>2, <1>6 DEF TrueNow
    <2>2. TrueNow' = now' + (IF wrapped' THEN ShiftTimeLimit ELSE 0)
      BY <1>1, <1>6 DEF TrueNow
    <2>3. wrapped' => now + 1 = ShiftTimeLimit
      BY <1>1, <1>2
    <2> QED
      BY <1>1, <1>2, <1>3, <1>4, <2>1, <2>2, <2>3
  <1> QED
    BY <1>5, <1>6

LEMMA FlagSeenStep ==
  ASSUME LiveInv, [Next]_liveVars
  PROVE  FlagSeen'
  <1>0. FlagSeen /\ Values
    BY TypesParts DEF LiveInv
  <1>1. CASE UNCHANGED liveVars
    BY <1>0, <1>1 DEF FlagSeen
  <1>2. CASE Enter \/ TestOverflow \/ ReadTime \/ TakeRequests \/ ServeDone \/ SetTimer
             \/ ClearSoftTimerInterrupt
    BY <1>0, <1>2 DEF FlagSeen, Enter, TestOverflow, ReadTime, TakeRequests, ServeDone, SetTimer,
       ClearSoftTimerInterrupt
  <1>3. CASE Leave
    BY <1>0, <1>3 DEF FlagSeen, Leave, Again
  <1>4. CASE Overflow
    <2>1. /\ wrapped /\ ~wrapped' /\ overflowFlag' /\ UNCHANGED <<booted, now, latency>>
      BY <1>4, Zenon DEF Overflow
    <2>2. pendSoft'
      BY <1>4, Zenon DEF Overflow
    <2>3. now = 0 /\ latency \in Nat /\ booted
      BY <1>0, <2>1 DEF FlagSeen, Values
    <2> QED
      BY <2>1, <2>2, <2>3 DEF FlagSeen
  <1>5. CASE Tick
    <2>1. /\ booted /\ booted' = booted /\ hpc' = hpc
          /\ now' = IF now + 1 = ShiftTimeLimit THEN 0 ELSE now + 1
          /\ wrapped' = (now' = 0)
      BY <1>5 DEF Tick
    <2>2. pendSoft => pendSoft'
      BY <1>5, Zenon DEF Tick
    <2> QED
      BY <1>0, <1>5, <2>1, <2>2, TickTime DEF FlagSeen
  <1>6. CASE StartTimer
    BY <1>0, <1>6 DEF FlagSeen, StartTimer
  <1>7. CASE CallByInterrupt
    <2>1. booted => pendSoft'
      BY <1>7, Zenon DEF CallByInterrupt
    <2>2. UNCHANGED <<booted, wrapped, overflowFlag, now, hpc, latency>>
      BY <1>7 DEF CallByInterrupt
    <2> QED
      BY <1>0, <2>1, <2>2 DEF FlagSeen
  <1>8. CASE EndTaskUnlink
    BY <1>0, <1>8 DEF FlagSeen, EndTaskUnlink
  <1>9. ASSUME NEW b \in Block,
               ServeCreate(b) \/ ServeIdle(b) \/ ServeLater(b) \/ GiveBack(b) \/ Overrun(b)
               \/ Release(b)
        PROVE  FlagSeen'
    BY <1>0, <1>9 DEF FlagSeen, ServeCreate, ServeIdle, ServeLater, Served, GiveBack, Overrun,
       Release, Arrives
  <1>10. ASSUME NEW b \in Block, CallByTask(b) \/ Raise(b) \/ EndTask(b)
         PROVE  FlagSeen'
    BY <1>0, <1>10 DEF FlagSeen, CallByTask, Raise, EndTask
  <1> QED
    BY <1>1, <1>2, <1>3, <1>4, <1>5, <1>6, <1>7, <1>8, <1>9, <1>10, StepCases

LEMMA TimeReadStep ==
  ASSUME LiveInv, [Next]_liveVars
  PROVE  TimeRead'
  <1>0. TimeRead /\ FlagSeen /\ Values
    BY TypesParts DEF LiveInv
  <1>1. /\ now \in Nat /\ currentTime \in Nat /\ lastTime \in Nat /\ age \in Nat
        /\ ShiftTimeLimit \in Nat /\ wrapped \in BOOLEAN /\ overflowFlag \in BOOLEAN
    BY <1>0, Constants DEF Values
  <1>2. ASSUME hpc' \in {"out", "overflow", "clear", "arrivals", "soft", "check"}
        PROVE  TimeRead'
    BY <1>2 DEF TimeRead
  <1>3. ASSUME UNCHANGED <<hpc, currentTime, age, now, wrapped, overflowFlag>>
        PROVE  TimeRead'
    BY <1>0, <1>3 DEF TimeRead, TrueNow
  <1>4. CASE UNCHANGED liveVars
    BY <1>3, <1>4
  <1>5. CASE Enter \/ TestOverflow \/ ServeDone \/ SetTimer \/ ClearSoftTimerInterrupt \/ Leave
    BY <1>2, <1>5 DEF Enter, TestOverflow, ServeDone, SetTimer, ClearSoftTimerInterrupt, Leave
  <1>6. CASE ReadTime
    <2>1. /\ hpc' = "window" /\ currentTime' = now /\ age' = 0
          /\ UNCHANGED <<now, wrapped, overflowFlag>>
      BY <1>6 DEF ReadTime
    <2> QED
      BY <1>1, <2>1 DEF TimeRead, TrueNow
  <1>7. CASE TakeRequests
    <2>1. /\ hpc = "window" /\ ~FirstTickAgain /\ hpc' \in {"arrivals", "serve"}
          /\ hpc' = "serve" => ~InWindow
          /\ UNCHANGED <<currentTime, age, now, wrapped, overflowFlag>>
      BY <1>7 DEF TakeRequests
    <2>2. ASSUME ~InWindow
          PROVE  currentTime + age = TrueNow
      <3>1. ~overflowFlag /\ ~(currentTime < lastTime)
        BY <2>2 DEF InWindow
      <3>2. wrapped => now = 0
        BY <1>0 DEF FlagSeen
      <3>3. ~(currentTime + age = now /\ wrapped)
        BY <1>1, <2>1, <3>1, <3>2 DEF FirstTickAgain
      <3> QED
        BY <1>0, <2>1, <3>1, <3>3 DEF TimeRead
    <2> QED
      BY <2>1, <2>2 DEF TimeRead, TrueNow
  <1>8. CASE Overflow
    <2>1. /\ wrapped /\ ~wrapped' /\ overflowFlag' /\ UNCHANGED <<hpc, currentTime, age, now>>
      BY <1>8, Zenon DEF Overflow
    <2> QED
      BY <1>0, <2>1 DEF TimeRead, TrueNow
  <1>9. CASE Tick
    <2>1. /\ hpc' = hpc /\ currentTime' = currentTime
          /\ hpc \in {"window", "serve"} => age' = age + 1
      BY <1>9 DEF Tick
    <2>2. /\ ~wrapped /\ TrueNow' = TrueNow + 1 /\ overflowFlag' = overflowFlag
          /\ overflowFlag => now' = now + 1
      BY <1>0, <1>9, TickTime
    <2>3. TrueNow \in Int
      BY <1>1 DEF TrueNow
    <2>4. ASSUME hpc \in {"window", "serve"}
          PROVE  /\ currentTime + age = TrueNow => currentTime' + age' = TrueNow'
                 /\ currentTime + age = now /\ overflowFlag => currentTime' + age' = now'
      BY <1>1, <2>1, <2>2, <2>3, <2>4
    <2> QED
      BY <1>0, <2>1, <2>2, <2>4 DEF TimeRead
  <1>10. CASE StartTimer \/ CallByInterrupt \/ EndTaskUnlink
    BY <1>3, <1>10 DEF StartTimer, CallByInterrupt, EndTaskUnlink
  <1>11. ASSUME NEW b \in Block,
                ServeCreate(b) \/ ServeIdle(b) \/ ServeLater(b) \/ GiveBack(b) \/ Overrun(b)
                \/ Release(b)
         PROVE  TimeRead'
    BY <1>3, <1>11 DEF ServeCreate, ServeIdle, ServeLater, Served, GiveBack, Overrun, Release
  <1>12. ASSUME NEW b \in Block, CallByTask(b) \/ Raise(b) \/ EndTask(b)
         PROVE  TimeRead'
    BY <1>3, <1>12 DEF CallByTask, Raise, EndTask
  <1> QED
    BY <1>4, <1>5, <1>6, <1>7, <1>8, <1>9, <1>10, <1>11, <1>12, StepCases

(* The heads of the arrival queue and of the requests served.              *)
LEMMA HeadArriving ==
  ASSUME Sequences, BlocksKept, arrivalQ # <<>>
  PROVE  arrivalQ[1] \in Block /\ state[arrivalQ[1]] \notin {"FREE", "CREATE"}
  <1>1. arrivalQ[1] \in ToSet(arrivalQ)
    BY ListFacts DEF Sequences
  <1> QED
    BY <1>1 DEF BlocksKept

LEMMA HeadServed ==
  ASSUME Sequences, BlocksKept, serving # <<>>
  PROVE  serving[1] \in Waits
  <1>1. serving[1] \in ToSet(serving)
    BY ListFacts DEF Sequences
  <1> QED
    BY <1>1 DEF BlocksKept, Waits, In

LEMMA CreatedNowStep ==
  ASSUME LiveInv, [Next]_liveVars
  PROVE  CreatedNow'
  <1>0. CreatedNow /\ Values /\ BlocksKept /\ Sequences
    BY TypesParts DEF LiveInv
  <1>1. /\ state \in [Block -> {"NONE", "CREATE", "ASKED", "DELETE", "FREE"}]
        /\ high \in [Block -> Nat]
    BY <1>0 DEF Values
  <1>2. ASSUME UNCHANGED <<state, high>>
        PROVE  CreatedNow'
    BY <1>0, <1>2 DEF CreatedNow
  <1>3. CASE UNCHANGED liveVars
    BY <1>2, <1>3
  <1>4. CASE Enter \/ ReadTime \/ TakeRequests \/ ServeDone \/ SetTimer
             \/ ClearSoftTimerInterrupt \/ Leave
    BY <1>2, <1>4 DEF Enter, ReadTime, TakeRequests, ServeDone, SetTimer,
       ClearSoftTimerInterrupt, Leave
  <1>5. CASE TestOverflow
    <2>1. state' = state /\ \A c \in Block : high[c] = 0 => high'[c] = 0
      BY <1>1, <1>5 DEF TestOverflow, ShiftTimes
    <2> QED
      BY <1>0, <2>1 DEF CreatedNow
  <1>6. CASE Overflow \/ Tick \/ StartTimer \/ EndTaskUnlink
    BY <1>2, <1>6 DEF Overflow, Tick, StartTimer, EndTaskUnlink
  <1>7. ASSUME Request
        PROVE  CreatedNow'
    <2>1. CASE \E b \in Block : Ask(b)
      BY <1>0, <1>1, <2>1 DEF Ask, CreatedNow
    <2>2. CASE \E b \in Block : \E k \in Timings : Take(b, k)
      BY <1>0, <1>1, <2>2 DEF Take, CreatedNow
    <2> QED
      BY <1>7, <2>1, <2>2 DEF Request
  <1>8. CASE CallByInterrupt
    BY <1>7, <1>8 DEF CallByInterrupt
  <1>9. ASSUME NEW b \in Block,
               ServeCreate(b) \/ ServeIdle(b) \/ ServeLater(b) \/ GiveBack(b)
        PROVE  CreatedNow'
    BY <1>0, <1>1, <1>9 DEF CreatedNow, ServeCreate, ServeIdle, ServeLater, Served, GiveBack,
       FreeLive
  <1>10. ASSUME NEW b \in Block, Overrun(b) \/ Release(b)
         PROVE  CreatedNow'
    <2>1. NextPeriodicArrival(b) /\ state' = state /\ arrivalQ # <<>> /\ b = arrivalQ[1]
      BY <1>10 DEF Overrun, Release, Arrives
    <2>2. state[b] # "CREATE"
      BY <1>0, <2>1, HeadArriving
    <2>3. \A c \in Block : c # b => high'[c] = high[c]
      BY <1>0, <2>1, NextArrivalTimes
    <2> QED
      BY <1>0, <2>1, <2>2, <2>3 DEF CreatedNow
  <1>11. ASSUME NEW b \in Block, CallByTask(b) \/ Raise(b) \/ EndTask(b)
         PROVE  CreatedNow'
    BY <1>2, <1>7, <1>11 DEF CallByTask, Raise, EndTask
  <1> QED
    BY <1>3, <1>4, <1>5, <1>6, <1>8, <1>9, <1>10, <1>11, StepCases

LEMMA ArrivalsTrueStep ==
  ASSUME LiveInv, [Next]_liveVars
  PROVE  ArrivalsTrue'
  <1> DEFINE Q == ToSet(arrivalQ)
  <1>0. /\ ArrivalsTrue /\ CreatedNow /\ TimeRead /\ FlagSeen /\ Values /\ BlocksKept /\ Sequences
    BY TypesParts DEF LiveInv
  <1>1. /\ state \in [Block -> {"NONE", "CREATE", "ASKED", "DELETE", "FREE"}]
        /\ high \in [Block -> Nat] /\ low \in [Block -> Int] /\ due \in [Block -> Int]
        /\ ShiftTimeLimit \in Nat /\ now \in Nat /\ currentTime \in Nat /\ age \in Nat
        /\ wrapped \in BOOLEAN /\ overflowFlag \in BOOLEAN
    BY <1>0, Constants DEF Values
  <1>2. Q \subseteq Block /\ Q = {b \in Block : state[b] \notin {"FREE", "CREATE"}}
    BY <1>0 DEF BlocksKept
  <1>3. Q' \subseteq Block /\ Q' = {b \in Block : state'[b] \notin {"FREE", "CREATE"}}
    <2>1. BlocksKept'
      BY KeptStep
    <2> QED
      BY <2>1 DEF BlocksKept
  <1>4. TrueNow \in Int
    BY <1>1 DEF TrueNow
  <1>5. \A b \in Q : high[b] * ShiftTimeLimit + low[b] - TrueNow = due[b]
    BY <1>0 DEF ArrivalsTrue
  <1>6. ASSUME \A b \in Q' : high'[b] * ShiftTimeLimit + low'[b] - TrueNow' = due'[b]
        PROVE  ArrivalsTrue'
    BY <1>6 DEF ArrivalsTrue
  <1> HIDE DEF Q
  <1>7. ASSUME TrueNow' = TrueNow, Q' \subseteq Q,
               \A b \in Q' : high'[b] = high[b] /\ low'[b] = low[b] /\ due'[b] = due[b]
        PROVE  ArrivalsTrue'
    BY <1>5, <1>6, <1>7
  <1>8. ASSUME UNCHANGED <<state, high, low, due, now, wrapped, overflowFlag>>
        PROVE  ArrivalsTrue'
    <2>1. TrueNow' = TrueNow
      BY <1>8 DEF TrueNow
    <2> QED
      BY <1>2, <1>3, <1>7, <1>8, <2>1
  <1>9. CASE UNCHANGED liveVars
    BY <1>8, <1>9
  <1>10. CASE Enter \/ ReadTime \/ TakeRequests \/ ServeDone \/ SetTimer
              \/ ClearSoftTimerInterrupt \/ Leave
    BY <1>8, <1>10 DEF Enter, ReadTime, TakeRequests, ServeDone, SetTimer,
       ClearSoftTimerInterrupt, Leave
  <1>11. CASE TestOverflow
    <2>0. UNCHANGED <<state, now, wrapped, due, arrivalQ>> /\ overflowFlag' = FALSE
      BY <1>11 DEF TestOverflow
    <2>1. Q' = Q
      BY <1>2, <1>3, <2>0
    <2>2. CASE ~overflowFlag
      <3>1. TrueNow' = TrueNow
        BY <1>1, <2>0, <2>2 DEF TrueNow
      <3>2. UNCHANGED <<high, low>>
        BY <1>11, <2>2 DEF TestOverflow
      <3> QED
        BY <1>7, <2>0, <2>1, <3>1, <3>2
    <2>3. CASE overflowFlag
      <3>1. TrueNow = now + ShiftTimeLimit /\ TrueNow' = now
        BY <1>0, <1>1, <2>0, <2>3 DEF TrueNow, FlagSeen
      <3>2. ASSUME NEW b \in Q
            PROVE  high'[b] * ShiftTimeLimit + low'[b] - TrueNow' = due'[b]
        <4>1. b \in Block /\ Contains(arrivalQ, b)
          BY <1>0, <1>2, ListFacts DEF Sequences, Q
        <4>2. /\ high[b] > 0 => high'[b] = high[b] - 1 /\ low'[b] = low[b]
              /\ high[b] = 0 => high'[b] = 0 /\ low'[b] = low[b] - ShiftTimeLimit
          BY <1>1, <1>11, <2>3, <4>1 DEF TestOverflow, ShiftTimes
        <4>3. high[b] * ShiftTimeLimit + low[b] - TrueNow = due[b] /\ due'[b] = due[b]
          BY <1>5, <2>0
        <4>4. high[b] \in Nat /\ low[b] \in Int /\ due[b] \in Int
          BY <1>1, <4>1
        <4>5. (high[b] - 1) * ShiftTimeLimit = high[b] * ShiftTimeLimit - ShiftTimeLimit
          BY <1>1, <4>4
        <4>6. high[b] * ShiftTimeLimit \in Int
          BY <1>1, <4>4
        <4>7. CASE high[b] > 0
          BY <1>1, <3>1, <4>2, <4>3, <4>4, <4>5, <4>6, <4>7
        <4>8. CASE high[b] = 0
          BY <1>1, <3>1, <4>2, <4>3, <4>4, <4>8
        <4> QED
          BY <4>4, <4>7, <4>8
      <3> QED
        BY <1>6, <2>1, <3>2
    <2> QED
      BY <2>2, <2>3
  <1>12. CASE Overflow
    <2>1. /\ wrapped /\ wrapped' = FALSE /\ overflowFlag' = TRUE
          /\ UNCHANGED <<state, high, low, due, now>>
      BY <1>12 DEF Overflow
    <2>2. TrueNow' = TrueNow
      BY <1>1, <2>1 DEF TrueNow
    <2> QED
      BY <1>2, <1>3, <1>7, <2>1, <2>2
  <1>13. CASE Tick
    <2>1. UNCHANGED <<state, high, low, arrivalQ>>
          /\ due' = [b \in Block |-> IF Contains(arrivalQ, b) THEN due[b] - 1 ELSE 0]
      BY <1>13 DEF Tick
    <2>2. Q' = Q /\ \A b \in Q : high'[b] = high[b] /\ low'[b] = low[b] /\ due'[b] = due[b] - 1
      BY <1>0, <1>2, <1>3, <2>1, ListFacts DEF Sequences, Q
    <2>3. TrueNow' = TrueNow + 1
      BY <1>0, <1>13, TickTime
    <2>4. ASSUME NEW b \in Q
          PROVE  high'[b] * ShiftTimeLimit + low'[b] - TrueNow' = due'[b]
      <3>1. high[b] * ShiftTimeLimit \in Int /\ low[b] \in Int /\ due[b] \in Int
        BY <1>1, <1>2
      <3> QED
        BY <1>4, <1>5, <2>2, <2>3, <3>1
    <2> QED
      BY <1>6, <2>2, <2>4
  <1>14. CASE StartTimer \/ EndTaskUnlink
    BY <1>8, <1>14 DEF StartTimer, EndTaskUnlink
  <1>15. ASSUME Request, UNCHANGED <<due, now, wrapped, overflowFlag>>
         PROVE  ArrivalsTrue'
    <2>1. TrueNow' = TrueNow
      BY <1>15 DEF TrueNow
    <2>2. ASSUME NEW b \in Block, Ask(b)
          PROVE  ArrivalsTrue'
      <3>1. Q' \subseteq Q /\ UNCHANGED <<high, low>>
        BY <1>1, <1>2, <1>3, <2>2 DEF Ask
      <3> QED
        BY <1>7, <1>15, <2>1, <3>1
    <2>3. ASSUME NEW b \in Block, NEW k \in Timings, Take(b, k)
          PROVE  ArrivalsTrue'
      <3>1. /\ state' = [state EXCEPT ![b] = "CREATE"] /\ high' = [high EXCEPT ![b] = 0]
            /\ low' = low
        BY <2>3 DEF Take
      <3>2. Q' \subseteq Q /\ b \notin Q'
        BY <1>1, <1>2, <1>3, <3>1
      <3>3. \A c \in Q' : high'[c] = high[c]
        BY <1>1, <1>3, <3>1, <3>2
      <3> QED
        BY <1>7, <1>15, <2>1, <3>1, <3>2, <3>3
    <2> QED
      BY <1>15, <2>2, <2>3 DEF Request
  <1>16. CASE CallByInterrupt
    BY <1>15, <1>16 DEF CallByInterrupt
  <1>17. ASSUME NEW b \in Block, ServeCreate(b)
         PROVE  ArrivalsTrue'
    <2>1. /\ hpc = "serve" /\ state[b] = "CREATE" /\ state' = [state EXCEPT ![b] = "NONE"]
          /\ low' = [low EXCEPT ![b] = currentTime] /\ due' = [due EXCEPT ![b] = -age]
          /\ high' = high /\ UNCHANGED <<now, wrapped, overflowFlag>>
      BY <1>17 DEF ServeCreate, Served
    <2>2. TrueNow' = TrueNow /\ currentTime + age = TrueNow /\ high[b] = 0
      BY <1>0, <2>1 DEF TrueNow, TimeRead, CreatedNow
    <2>3. Q' \subseteq Q \cup {b}
      BY <1>1, <1>2, <1>3, <2>1
    <2>4. high'[b] * ShiftTimeLimit + low'[b] - TrueNow' = due'[b]
      BY <1>1, <2>1, <2>2
    <2>5. \A c \in Q' : c # b => low'[c] = low[c] /\ due'[c] = due[c]
      BY <1>1, <1>3, <2>1
    <2> QED
      BY <1>5, <1>6, <2>1, <2>2, <2>3, <2>4, <2>5
  <1>18. ASSUME NEW b \in Block, ServeIdle(b) \/ ServeLater(b) \/ GiveBack(b)
         PROVE  ArrivalsTrue'
    <2>1. UNCHANGED <<high, low, due, now, wrapped, overflowFlag>>
      BY <1>18 DEF ServeIdle, ServeLater, Served, GiveBack
    <2>2. \/ state' = [state EXCEPT ![b] = "FREE"]
          \/ state' = [state EXCEPT ![b] = "DELETE"] /\ state[b] # "CREATE" /\ b \in Waits
      <3>1. ASSUME ServeLater(b)
            PROVE  b \in Waits
        <4>1. serving # <<>> /\ b = serving[1]
          BY <3>1 DEF ServeLater, Served
        <4> QED
          BY <1>0, <4>1, HeadServed
      <3> QED
        BY <1>18, <3>1 DEF ServeIdle, ServeLater, GiveBack, FreeLive
    <2>3. Q' \subseteq Q
      BY <1>1, <1>2, <1>3, <2>2 DEF Waits, In
    <2>4. TrueNow' = TrueNow
      BY <2>1 DEF TrueNow
    <2> QED
      BY <1>7, <2>1, <2>3, <2>4
  <1>19. ASSUME NEW b \in Block, Overrun(b) \/ Release(b)
         PROVE  ArrivalsTrue'
    <2>1. /\ NextPeriodicArrival(b) /\ arrivalQ # <<>> /\ b = arrivalQ[1] /\ high[b] = 0
          /\ UNCHANGED <<state, now, wrapped, overflowFlag>>
      BY <1>19 DEF Overrun, Release, Arrives
    <2>2. Q' = Q /\ TrueNow' = TrueNow
      BY <1>2, <1>3, <2>1 DEF TrueNow
    <2>3. b \in Q
      BY <1>0, <1>2, <2>1, HeadArriving
    <2>4. /\ high'[b] * ShiftTimeLimit + low'[b] = low[b] + PeriodOf(b)
          /\ due'[b] = due[b] + PeriodOf(b)
          /\ high' \in [Block -> Nat] /\ low' \in [Block -> Int]
          /\ \A c \in Block : c # b => high'[c] = high[c] /\ low'[c] = low[c] /\ due'[c] = due[c]
      BY <1>0, <2>1, NextArrivalTimes
    <2>5. low[b] - TrueNow = due[b] /\ low[b] \in Int /\ due[b] \in Int
      BY <1>1, <1>2, <1>4, <1>5, <2>1, <2>3
    <2>6. PeriodOf(b) \in Int
      BY <1>0, Constants DEF Values, PeriodOf
    <2>7. high'[b] * ShiftTimeLimit + low'[b] - TrueNow' = due'[b]
      <3>1. (low[b] + PeriodOf(b)) - TrueNow = due[b] + PeriodOf(b)
        BY <1>4, <2>5, <2>6
      <3>2. high'[b] * ShiftTimeLimit \in Int /\ low'[b] \in Int
        BY <1>1, <2>4
      <3> DEFINE turns == high'[b] * ShiftTimeLimit
      <3> HIDE DEF turns
      <3>3. (turns + low'[b]) - TrueNow = due'[b] /\ turns \in Int
        BY <2>4, <3>1, <3>2 DEF turns
      <3>4. turns + low'[b] - TrueNow = due'[b]
        BY <1>4, <3>2, <3>3
      <3> QED
        BY <2>2, <3>4 DEF turns
    <2> QED
      BY <1>2, <1>5, <1>6, <2>2, <2>4, <2>7
  <1>20. ASSUME NEW b \in Block, CallByTask(b) \/ Raise(b) \/ EndTask(b)
         PROVE  ArrivalsTrue'
    BY <1>8, <1>15, <1>20 DEF CallByTask, Raise, EndTask
  <1> QED
    BY <1>9, <1>10, <1>11, <1>12, <1>13, <1>14, <1>16, <1>17, <1>18, <1>19, <1>20, StepCases

-----------------------------------------------------------------------------
(***************************************************************************)
(* At the start.                                                           *)
(***************************************************************************)

(* The pool holds every block, in any order.                               *)
LEMMA FullPool ==
  ASSUME IsFiniteSet(Block), NEW p \in SetToSeqs(Block)
  PROVE  p \in Seq(Block) /\ IsInjective(p) /\ ToSet(p) = Block
  <1> DEFINE n == Cardinality(Block)
             D == 1 .. n
  <1>1. n \in Nat
    BY FS_CardinalityType
  <1>2. p \in [D -> Block] /\ \A i, j \in D : i # j => p[i] # p[j]
    BY DEF SetToSeqs
  <1>3. p \in Seq(Block) /\ Len(p) = n /\ DOMAIN p = D
    BY <1>1, <1>2
  <1>4. IsFiniteSet(D) /\ Cardinality(D) = n
    <2>1. IsFiniteSet(1 .. n) /\ Cardinality(1 .. n) = IF 1 > n THEN 0 ELSE n - 1 + 1
      BY <1>1, FS_Interval
    <2> QED
      BY <1>1, <2>1
  <1>5. p \in Injection(D, Block)
    BY <1>2 DEF Injection, IsInjective
  <1>6. p \in Surjection(D, Block)
    BY <1>4, <1>5, FS_Injection
  <1>7. \A b \in Block : \E i \in D : p[i] = b
    BY <1>6 DEF Surjection
  <1>8. ToSet(p) = {p[i] : i \in D}
    BY <1>3 DEF ToSet
  <1>9. ToSet(p) = Block
    BY <1>2, <1>7, <1>8
  <1> QED
    BY <1>2, <1>3, <1>9 DEF IsInjective

LEMMA LiveInit ==
  ASSUME Init
  PROVE  LiveInv
  <1>1. pool \in Seq(Block) /\ IsInjective(pool) /\ ToSet(pool) = Block
    BY FullPool, LiveAssumption DEF Init
  <1>2. <<>> \in Seq(Block) /\ ToSet(<<>>) = {} /\ IsInjective(<<>>)
    BY DEF ToSet, IsInjective
  <1>3. Sequences
    BY <1>1, <1>2 DEF Init, Sequences
  <1>4. Values
    <2>1. /\ 0 \in 0 .. ShiftTimeLimit - 1 /\ 0 \in 0 .. MaxLatency
      BY Constants
    <2>2. /\ hpc = "out" /\ ending = None /\ raising = {} /\ now = 0 /\ currentTime = 0
          /\ lastTime = 0 /\ wrapped = FALSE /\ overflowFlag = FALSE /\ age = 0 /\ latency = 0
      BY DEF Init
    <2>3. /\ state \in [Block -> {"NONE", "CREATE", "ASKED", "DELETE", "FREE"}]
          /\ zombie \in [Block -> BOOLEAN] /\ timing \in [Block -> Timings \cup {NoTiming}]
          /\ high \in [Block -> Nat] /\ low \in [Block -> Int] /\ due \in [Block -> Int]
      BY DEF Init
    <2> QED
      BY <2>1, <2>2, <2>3 DEF Values, Places
  <1>5. BlocksKept
    <2>1. /\ requests = <<>> /\ serving = <<>> /\ readyQ = <<>> /\ arrivalQ = <<>>
          /\ state = [b \in Block |-> "FREE"] /\ zombie = [b \in Block |-> TRUE]
          /\ ending = None
      BY DEF Init
    <2>2. \A b \in Block : state[b] = "FREE" /\ zombie[b] /\ ending # b
      BY <2>1, NoBlock
    <2> QED
      BY <1>1, <1>2, <2>1, <2>2 DEF BlocksKept
  <1>6. Ending /\ Taken /\ TimeRead /\ RequestsAwaited
    BY DEF Init, Ending, Taken, TimeRead, RequestsAwaited
  <1>7. FlagSeen /\ CreatedNow
    BY DEF Init, FlagSeen, CreatedNow
  <1>8. ArrivalsTrue
    <2>1. ToSet(arrivalQ) = {}
      BY <1>2 DEF Init
    <2> QED
      BY <2>1 DEF ArrivalsTrue
  <1> QED
    BY <1>3, <1>4, <1>5, <1>6, <1>7, <1>8, TypesParts DEF LiveInv

-----------------------------------------------------------------------------
(***************************************************************************)
(* The theorems.                                                           *)
(***************************************************************************)

(* The invariant holds whatever the tasks, the interrupts and the clock do *)
(* between any two steps of the handler.                                   *)
THEOREM LiveInvariant == Spec => []LiveInv
  <1>1. Init => LiveInv
    BY LiveInit
  <1>2. LiveInv /\ [Next]_liveVars => LiveInv'
    <2> SUFFICES ASSUME LiveInv, [Next]_liveVars
                 PROVE  LiveInv'
      OBVIOUS
    <2>1. Types /\ BlocksKept /\ FlagSeen
      BY DEF LiveInv
    <2>2. BlocksKept' /\ Sequences'
      BY KeptStep
    <2>3. Values'
      BY <2>1, ValuesStep
    <2>4. Ending' /\ FlagSeen' /\ TimeRead'
      BY EndingStep, FlagSeenStep, TimeReadStep
    <2>5. CreatedNow' /\ Taken' /\ ArrivalsTrue' /\ RequestsAwaited'
      BY CreatedNowStep, TakenStep, ArrivalsTrueStep, AwaitedStep
    <2> QED
      BY <2>2, <2>3, <2>4, <2>5, TypesParts DEF LiveInv
  <1> QED
    BY <1>1, <1>2, PTL DEF Spec

(* Of the lists of LiveFree, LiveRequests and the requests taken, and of   *)
(* the queues of the kernel, each block is on those its state tells and no *)
(* others, once: a request, a deletion and an instance that ends never     *)
(* link a block twice or lose it, between whichever steps of the handler   *)
(* they come.                                                              *)
THEOREM Blocks == Spec => []BlocksKept
  <1>1. LiveInv => BlocksKept
    BY DEF LiveInv
  <1> QED
    BY <1>1, LiveInvariant, PTL

(* The turns and the remainder kept of a task's next arrival always add up *)
(* to its true arrival, of one created while a turn begins as well: the    *)
(* window of ServeLiveRequests is as narrow as InWindow takes it to be.    *)
THEOREM Arrivals == Spec => []ArrivalsTrue
  <1>1. LiveInv => ArrivalsTrue
    BY DEF LiveInv
  <1> QED
    BY <1>1, LiveInvariant, PTL

(* Once the timer runs, a request waits only while a pass of the handler   *)
(* is under way or asked for, or a caller has yet to raise its interrupt.  *)
THEOREM Awaited == Spec => []RequestsAwaited
  <1>1. LiveInv => RequestsAwaited
    BY DEF LiveInv
  <1> QED
    BY <1>1, LiveInvariant, PTL

=============================================================================

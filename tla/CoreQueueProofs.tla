---------------------------- MODULE CoreQueueProofs ----------------------------
(***************************************************************************)
(* Proofs about the queue between the two cores of the RP2350, for any     *)
(* length, any depth of preemption on each core and any items: every       *)
(* operation takes effect once, at one instant, as its index moves on.     *)
(***************************************************************************)
EXTENDS CoreQueue, FiniteSetTheorems, SequenceTheorems, TLAPS

(***************************************************************************)
(* The inductive invariant.                                                *)
(***************************************************************************)

(* How many items lie between the indices, and how far the index that an   *)
(* operation has read has moved on since.                                  *)
Dist == (tail - head) % IndexLimit
IndexFor(kind) == IF kind = "enqueue" THEN tail ELSE head
Behind(o) == (IndexFor(o.kind) - o.index) % IndexLimit

(* An operation that has made its store, and one whose index lags behind   *)
(* its store.                                                              *)
Lags(o) == o.settled /\ o.index = IndexFor(o.kind)
Lag(kind) == \E t \in Thread : op[t].kind = kind /\ Lags(op[t])

(* The place at an index is filled between Head and Tail, but for the      *)
(* store of an operation whose index lags behind it.                       *)
Shape ==
  /\ Dist <= QueueLength
  /\ \A i \in 0 .. QueueLength - 1 :
       q[Mask(head + i)] # NULL <=> \/ i < Dist /\ ~(i = 0 /\ Lag("dequeue"))
                                    \/ i = Dist /\ Lag("enqueue")

(* What an operation knows at each place, of itself ...                    *)
Bound == {"link", "check", "store", "linkIndex", "moveIndex"}

Sound(o) ==
  /\ o.pc = "idle" => o = Idle
  /\ o.kind = "none" <=> o.pc = "idle"
  /\ o.kind = "enqueue" <=> o.item # NULL
  /\ o.settled => o.pc \in {"linkIndex", "moveIndex", "return"}
  /\ o.slot # NULL => \/ o.pc = "check"
                      \/ o.kind = "dequeue" /\ (o.pc = "store" \/ o.settled)
  /\ o.kind = "dequeue" /\ (o.pc = "store" \/ o.settled) => o.slot # NULL

(* ... and of the queue, as long as its index has not moved on.            *)
Helps(o) ==
  \/ o.pc = "check" /\ ((o.slot = NULL) <=> (o.kind = "dequeue"))
  \/ o.pc \in {"linkIndex", "moveIndex"}

Knows(o) ==
  IF o.index = IndexFor(o.kind)
  THEN /\ o.pc \in Bound => IF o.kind = "enqueue" THEN Dist < QueueLength ELSE Dist > 0
       /\ Helps(o) => Lag(o.kind)
       /\ o.settled => q[Mask(o.index)] = o.item /\ o.pc # "return"
  ELSE TRUE

(* One operation lags, at most, at each end.                               *)
Alone ==
  \A t, u \in Thread :
    op[t].kind = op[u].kind /\ Lags(op[t]) /\ Lags(op[u]) => t = u

(* What a reservation is worth to the thread that its core runs.           *)
Top(t) == Active(t) /\ \A u \in Above(t) : ~Active(u)

Reserves(o, granule) ==
  /\ o.pc \in {"check", "store"} =>
       granule = Granule(Mask(o.index)) /\ q[Mask(o.index)] = o.slot
  /\ o.pc = "store" => o.index = IndexFor(o.kind)
  /\ o.pc = "moveIndex" => granule = IndexGranule /\ o.index = IndexFor(o.kind)

Reserved ==
  \A t \in Thread : Top(t) /\ monitor[t[1]] # NULL => Reserves(op[t], monitor[t[1]])

(* No index comes round to where an operation read it.                     *)
Unmoved == {t \in Thread : Active(t) /\ (op[t].settled => Lags(op[t]))}

Counted ==
  /\ Cardinality(Unmoved) <= calls
  /\ \A t \in Thread : op[t].pc \notin {"idle", "read"} =>
                         Behind(op[t]) + Cardinality(Unmoved) <= calls

CoreInv ==
  /\ TypeOK /\ Shape /\ Alone /\ Reserved /\ Counted
  /\ \A t \in Thread : Sound(op[t]) /\ Knows(op[t])

(***************************************************************************)
(* Arithmetic of the indices.                                              *)
(***************************************************************************)
LEMMA Division ==
  ASSUME NEW n \in Nat \ {0}, NEW a \in Nat
  PROVE  a = n * (a \div n) + (a % n) /\ (a % n) \in 0 .. n - 1 /\ a \div n \in Nat
  OBVIOUS

LEMMA Remainder ==
  ASSUME NEW n \in Nat \ {0}, NEW k \in Nat, NEW r \in 0 .. n - 1
  PROVE  (n * k + r) % n = r
  OBVIOUS

LEMMA Offset ==
  ASSUME NEW n \in Nat \ {0}, NEW a \in Nat, NEW i \in 0 .. n
  PROVE  (a + i) % n = IF (a % n) + i < n THEN (a % n) + i ELSE ((a % n) + i) - n
  <1> DEFINE k == a \div n
             r == a % n
  <1>1. a = n * k + r /\ r \in 0 .. n - 1 /\ k \in Nat
    BY Division
  <1> HIDE DEF k, r
  <1>2. CASE r + i < n
    <2>1. r + i \in 0 .. n - 1 /\ a + i = n * k + (r + i)
      BY <1>1, <1>2
    <2>2. (a + i) % n = r + i
      BY <2>1, <1>1, Remainder
    <2> QED
      BY <1>2, <2>2 DEF r
  <1>3. CASE ~(r + i < n)
    <2>1. (r + i) - n \in 0 .. n - 1
      BY <1>1, <1>3
    <2>2. a + i = n * (k + 1) + ((r + i) - n)
      <3>1. n * (k + 1) = n * k + n
        BY <1>1
      <3> QED
        BY <1>1, <3>1
    <2>3. (a + i) % n = (r + i) - n
      <3>1. k + 1 \in Nat
        BY <1>1
      <3> QED
        BY <2>1, <2>2, <3>1, Remainder
    <2> QED
      BY <1>3, <2>3 DEF r
  <1> QED
    BY <1>2, <1>3

LEMMA Multiple ==
  ASSUME NEW n \in Nat \ {0}, NEW m \in Nat, m % n = 0, NEW a \in Nat
  PROVE  (m + a) % n = a % n
  <1> DEFINE k == a \div n
             r == a % n
             j == m \div n
  <1>1. a = n * k + r /\ r \in 0 .. n - 1 /\ k \in Nat
    BY Division
  <1>2. m = n * j /\ j \in Nat
    BY Division
  <1> HIDE DEF k, r, j
  <1>3. n * (j + k) = n * j + n * k
    BY <1>1, <1>2
  <1>4. m + a = n * (j + k) + r /\ j + k \in Nat
    BY <1>1, <1>2, <1>3
  <1>5. (m + a) % n = r
    BY <1>1, <1>4, Remainder
  <1> QED
    BY <1>5 DEF r

(* Places one after the other in an array are different ones, and they     *)
(* are all there are.                                                      *)
LEMMA Distinct ==
  ASSUME NEW n \in Nat \ {0}, NEW a \in Nat
  PROVE  /\ \A i, j \in 0 .. n - 1 : (a + i) % n = (a + j) % n => i = j
         /\ (a + n) % n = a % n
         /\ \A p \in 0 .. n - 1 : \E i \in 0 .. n - 1 : (a + i) % n = p
  <1> DEFINE r == a % n
  <1>1. r \in 0 .. n - 1
    BY Division
  <1>2. \A i \in 0 .. n : (a + i) % n = IF r + i < n THEN r + i ELSE (r + i) - n
    BY Offset
  <1> HIDE DEF r
  <1>3. \A i, j \in 0 .. n - 1 : (a + i) % n = (a + j) % n => i = j
    BY <1>1, <1>2
  <1>4. (a + n) % n = r
    BY <1>1, <1>2
  <1>5. ASSUME NEW p \in 0 .. n - 1
        PROVE  \E i \in 0 .. n - 1 : (a + i) % n = p
    <2> DEFINE i == IF p >= r THEN p - r ELSE (p + n) - r
    <2>1. i \in 0 .. n - 1
      BY <1>1
    <2>2. i \in 0 .. n /\ (IF r + i < n THEN r + i ELSE (r + i) - n) = p
      BY <1>1, <2>1
    <2>3. (a + i) % n = p
      BY <1>2, <2>2
    <2> QED
      BY <2>1, <2>3
  <1> QED
    BY <1>3, <1>4, <1>5 DEF r

(* The place so many after another.                                        *)
LEMMA PlaceFrom ==
  ASSUME NEW n \in Nat \ {0}, NEW a \in Nat, NEW i \in 0 .. n - 1
  PROVE  LET k == ((i + n) - (a % n)) % n
         IN  k \in 0 .. n - 1 /\ (a + k) % n = i /\ (k = 0 <=> i = a % n)
  <1> DEFINE r == a % n
             k == ((i + n) - r) % n
  <1>1. r \in 0 .. n - 1
    BY Division
  <1>2. \A j \in 0 .. n : (a + j) % n = IF r + j < n THEN r + j ELSE (r + j) - n
    BY Offset
  <1> HIDE DEF r
  <1>3. CASE i >= r
    <2> DEFINE d0 == i - r
    <2>1. d0 \in 0 .. n - 1 /\ (i + n) - r = n * 1 + d0
      BY <1>1, <1>3
    <2>2. (n * 1 + d0) % n = d0
      <3> HIDE DEF d0
      <3> QED
        BY <2>1, Remainder
    <2>3. k = d0
      BY <2>1, <2>2
    <2>4. d0 \in 0 .. n /\ r + d0 = i /\ i < n /\ (d0 = 0 <=> i = r)
      BY <1>1, <1>3
    <2> HIDE DEF k
    <2>5. (a + d0) % n = i
      BY <1>2, <2>4
    <2> QED
      BY <2>1, <2>3, <2>4, <2>5 DEF k, r
  <1>4. CASE ~(i >= r)
    <2> DEFINE d0 == (i + n) - r
    <2>1. d0 \in 0 .. n - 1 /\ d0 = n * 0 + d0
      BY <1>1, <1>4
    <2>2. (n * 0 + d0) % n = d0
      <3> HIDE DEF d0
      <3> QED
        BY <2>1, Remainder
    <2>3. k = d0
      BY <2>1, <2>2
    <2>4. d0 \in 0 .. n /\ r + d0 = i + n /\ (r + d0) - n = i /\ ~(r + d0 < n) /\ d0 # 0
          /\ i # r
      BY <1>1, <1>4
    <2> HIDE DEF k
    <2>5. (a + d0) % n = i
      BY <1>2, <2>4
    <2> QED
      BY <2>1, <2>3, <2>4, <2>5 DEF k, r
  <1> QED
    BY <1>3, <1>4

LEMMA Difference ==
  ASSUME NEW n \in Nat \ {0}, NEW a \in 0 .. n - 1, NEW b \in 0 .. n - 1
  PROVE  /\ (a - b) % n = IF b <= a THEN a - b ELSE (a - b) + n
         /\ (a - b) % n \in 0 .. n - 1
  <1>1. CASE b <= a
    <2>1. a - b \in 0 .. n - 1 /\ n * 0 + (a - b) = a - b
      BY <1>1
    <2>2. (n * 0 + (a - b)) % n = a - b
      BY <2>1, Remainder
    <2> QED
      BY <1>1, <2>1, <2>2
  <1>2. CASE ~(b <= a)
    <2> DEFINE d == (a - b) + n
    <2>1. d \in 0 .. n - 1 /\ a - b = n * (-1) + d
      BY <1>2
    <2> HIDE DEF d
    <2>2. (n * (-1) + d) % n = d
      BY <2>1
    <2> QED
      BY <1>2, <2>1, <2>2 DEF d
  <1> QED
    BY <1>1, <1>2

LEMMA Sizes ==
  ASSUME CoreQueueAssumption
  PROVE  /\ QueueLength \in Nat \ {0} /\ IndexLimit \in Nat \ {0} /\ MaxCalls \in Nat
         /\ IndexLimit % QueueLength = 0 /\ IndexLimit > MaxCalls + QueueLength
         /\ Index = 0 .. IndexLimit - 1 /\ Place = 0 .. QueueLength - 1 /\ MaxLevel \in Nat
  BY DEF CoreQueueAssumption, Index, Place

(* An index and those after it.                                            *)
Following(i) == (i + 1) % IndexLimit

LEMMA FollowingFacts ==
  ASSUME CoreQueueAssumption, NEW i \in Index
  PROVE  /\ Following(i) = IF i + 1 < IndexLimit THEN i + 1 ELSE 0
         /\ Following(i) \in Index /\ Following(i) # i
  <1>1. /\ i \in 0 .. IndexLimit - 1 /\ IndexLimit \in Nat \ {0} /\ IndexLimit > 1
        /\ Index = 0 .. IndexLimit - 1
    BY Sizes
  <1>2. CASE i + 1 < IndexLimit
    <2>1. i + 1 \in 0 .. IndexLimit - 1 /\ IndexLimit * 0 + (i + 1) = i + 1
      BY <1>1, <1>2
    <2>2. (IndexLimit * 0 + (i + 1)) % IndexLimit = i + 1
      BY <1>1, <2>1, Remainder
    <2> QED
      BY <1>1, <1>2, <2>1, <2>2 DEF Following
  <1>3. CASE ~(i + 1 < IndexLimit)
    <2>1. i + 1 = IndexLimit
      BY <1>1, <1>3
    <2>2. IndexLimit % IndexLimit = 0
      BY <1>1
    <2> QED
      BY <1>1, <1>3, <2>1, <2>2 DEF Following
  <1> QED
    BY <1>2, <1>3

(* How far apart two indices are, as either moves on.                      *)
Apart(a, b) == (a - b) % IndexLimit

LEMMA ApartFacts ==
  ASSUME CoreQueueAssumption, NEW a \in Index, NEW b \in Index
  PROVE  /\ Apart(a, b) \in 0 .. IndexLimit - 1
         /\ Apart(a, b) = 0 <=> a = b
         /\ Apart(Following(a), b) = IF Apart(a, b) = IndexLimit - 1 THEN 0
                                     ELSE Apart(a, b) + 1
         /\ Apart(a, Following(b)) = IF a = b THEN IndexLimit - 1 ELSE Apart(a, b) - 1
         /\ Apart(Following(a), a) = 1
  <1>1. /\ IndexLimit \in Nat \ {0} /\ IndexLimit > 1
        /\ a \in 0 .. IndexLimit - 1 /\ b \in 0 .. IndexLimit - 1
    BY Sizes
  <1>2. \A i, j \in 0 .. IndexLimit - 1 :
           /\ Apart(i, j) = IF j <= i THEN i - j ELSE (i - j) + IndexLimit
           /\ Apart(i, j) \in 0 .. IndexLimit - 1
    BY <1>1, Difference DEF Apart
  <1>3. /\ Following(a) \in 0 .. IndexLimit - 1 /\ Following(b) \in 0 .. IndexLimit - 1
        /\ Following(a) = IF a + 1 < IndexLimit THEN a + 1 ELSE 0
        /\ Following(b) = IF b + 1 < IndexLimit THEN b + 1 ELSE 0
    BY FollowingFacts, Sizes
  <1>4. ASSUME NEW i \in 0 .. IndexLimit - 1, NEW j \in 0 .. IndexLimit - 1
        PROVE  /\ Apart(i, j) = IF j <= i THEN i - j ELSE (i - j) + IndexLimit
               /\ Apart(i, j) \in 0 .. IndexLimit - 1
    BY <1>2
  <1> DEFINE c == Following(a)
             e == Following(b)
             ab == Apart(a, b)
             cb == Apart(c, b)
             ae == Apart(a, e)
             ca == Apart(c, a)
  <1>5. /\ ab = IF b <= a THEN a - b ELSE (a - b) + IndexLimit
        /\ ab \in 0 .. IndexLimit - 1
    BY <1>1, <1>4
  <1>6. cb = IF b <= c THEN c - b ELSE (c - b) + IndexLimit
    BY <1>1, <1>3, <1>4
  <1>7. ae = IF e <= a THEN a - e ELSE (a - e) + IndexLimit
    BY <1>1, <1>3, <1>4
  <1>8. ca = IF a <= c THEN c - a ELSE (c - a) + IndexLimit
    BY <1>1, <1>3, <1>4
  <1> HIDE DEF c, e, ab, cb, ae, ca
  <1>9. /\ c = IF a + 1 < IndexLimit THEN a + 1 ELSE 0
        /\ e = IF b + 1 < IndexLimit THEN b + 1 ELSE 0
    BY <1>3 DEF c, e
  <1>10. ab = 0 <=> a = b
    BY <1>1, <1>5
  <1>11. cb = IF ab = IndexLimit - 1 THEN 0 ELSE ab + 1
    BY <1>1, <1>5, <1>6, <1>9
  <1>12. ae = IF a = b THEN IndexLimit - 1 ELSE ab - 1
    BY <1>1, <1>5, <1>7, <1>9
  <1>13. ca = 1
    BY <1>1, <1>8, <1>9
  <1> QED
    BY <1>5, <1>10, <1>11, <1>12, <1>13 DEF c, e, ab, cb, ae, ca

(* The place of an index is that of its number before the wrap.            *)
LEMMA WrapPlace ==
  ASSUME CoreQueueAssumption, NEW i \in Index, NEW k \in 0 .. IndexLimit
  PROVE  Mask((i + k) % IndexLimit) = Mask(i + k) /\ (i + k) % IndexLimit \in Index
  <1>1. /\ IndexLimit \in Nat \ {0} /\ QueueLength \in Nat \ {0} /\ i \in 0 .. IndexLimit - 1
        /\ IndexLimit % QueueLength = 0 /\ Index = 0 .. IndexLimit - 1
    BY Sizes
  <1>2. i % IndexLimit = i
    <2>1. (IndexLimit * 0 + i) % IndexLimit = i /\ IndexLimit * 0 + i = i
      BY <1>1, Remainder
    <2> QED
      BY <2>1
  <1>3. (i + k) % IndexLimit = IF i + k < IndexLimit THEN i + k ELSE (i + k) - IndexLimit
    <2>1. i \in Nat
      BY <1>1
    <2>2. (i + k) % IndexLimit = IF (i % IndexLimit) + k < IndexLimit THEN (i % IndexLimit) + k
                                 ELSE ((i % IndexLimit) + k) - IndexLimit
      BY <1>1, <2>1, Offset
    <2> QED
      BY <1>2, <2>2
  <1>4. CASE i + k < IndexLimit
    BY <1>1, <1>3, <1>4
  <1>5. CASE ~(i + k < IndexLimit)
    <2> DEFINE x == (i + k) - IndexLimit
    <2>1. x \in 0 .. IndexLimit - 1 /\ x \in Nat /\ i + k = IndexLimit + x
      BY <1>1, <1>5
    <2> HIDE DEF x
    <2>2. (IndexLimit + x) % QueueLength = x % QueueLength
      BY <1>1, <2>1, Multiple
    <2> QED
      BY <1>1, <1>3, <1>5, <2>1, <2>2 DEF x, Mask
  <1> QED
    BY <1>4, <1>5

(* The places from Head on, and the place at Tail.                         *)
LEMMA PlaceFacts ==
  ASSUME CoreQueueAssumption, head \in Index, tail \in Index, Dist <= QueueLength
  PROVE  /\ Dist \in 0 .. QueueLength /\ Dist \in Nat
         /\ tail = (head + Dist) % IndexLimit /\ Mask(tail) = Mask(head + Dist)
         /\ Mask(head + QueueLength) = Mask(head) /\ Mask(head + 0) = Mask(head)
         /\ \A i, j \in 0 .. QueueLength - 1 : Mask(head + i) = Mask(head + j) => i = j
         /\ \A i \in 0 .. QueueLength : Mask(head + i) \in Place
         /\ \A p \in Place : \E i \in 0 .. QueueLength - 1 : Mask(head + i) = p
         /\ \A i \in 0 .. QueueLength - 1 : Mask(Following(head) + i) = Mask(head + (i + 1))
  <1>1. /\ QueueLength \in Nat \ {0} /\ head \in 0 .. IndexLimit - 1
        /\ tail \in 0 .. IndexLimit - 1 /\ IndexLimit \in Nat \ {0}
        /\ Place = 0 .. QueueLength - 1 /\ QueueLength < IndexLimit
        /\ IndexLimit % QueueLength = 0
    BY Sizes
  <1>2. /\ Dist = IF head <= tail THEN tail - head ELSE (tail - head) + IndexLimit
        /\ Dist \in 0 .. IndexLimit - 1
    BY <1>1, Difference DEF Dist
  <1> HIDE DEF Dist
  <1>3. tail = (head + Dist) % IndexLimit
    <2>1. (head % IndexLimit) = head
      <3>1. (IndexLimit * 0 + head) % IndexLimit = head /\ IndexLimit * 0 + head = head
        BY <1>1, Remainder
      <3> QED
        BY <3>1
    <2>2. (head + Dist) % IndexLimit = IF head + Dist < IndexLimit THEN head + Dist
                                       ELSE (head + Dist) - IndexLimit
      <3>1. Dist \in 0 .. IndexLimit /\ head \in Nat
        BY <1>1, <1>2
      <3> QED
        BY <1>1, <2>1, <3>1, Offset
    <2> QED
      BY <1>1, <1>2, <2>2
  <1>4. Mask(tail) = Mask(head + Dist)
    <2>1. Dist \in 0 .. IndexLimit
      BY <1>1, <1>2
    <2> QED
      BY <1>3, <2>1, WrapPlace
  <1>5. head \in Nat
    BY <1>1
  <1>6. /\ \A i, j \in 0 .. QueueLength - 1 : Mask(head + i) = Mask(head + j) => i = j
        /\ Mask(head + QueueLength) = Mask(head)
        /\ \A p \in Place : \E i \in 0 .. QueueLength - 1 : Mask(head + i) = p
    <2>1. /\ \A i, j \in 0 .. QueueLength - 1 :
               (head + i) % QueueLength = (head + j) % QueueLength => i = j
          /\ (head + QueueLength) % QueueLength = head % QueueLength
          /\ \A p \in 0 .. QueueLength - 1 :
               \E i \in 0 .. QueueLength - 1 : (head + i) % QueueLength = p
      <3>1. QueueLength \in Nat \ {0} /\ head \in Nat
        BY <1>1, <1>5
      <3> QED
        BY <3>1, Distinct
    <2> QED
      BY <1>1, <2>1, Zenon DEF Mask
  <1>7. \A i \in 0 .. QueueLength : Mask(head + i) \in Place
    <2> SUFFICES ASSUME NEW i \in 0 .. QueueLength
                 PROVE  Mask(head + i) \in Place
      OBVIOUS
    <2>1. head + i \in Nat
      BY <1>1
    <2> QED
      BY <1>1, <2>1, Division DEF Mask
  <1>8. ASSUME NEW i \in 0 .. QueueLength - 1
        PROVE  Mask(Following(head) + i) = Mask(head + (i + 1))
    <2>1. Following(head) = IF head + 1 < IndexLimit THEN head + 1 ELSE 0
      BY FollowingFacts
    <2>2. CASE head + 1 < IndexLimit
      <3>1. Following(head) + i = head + (i + 1)
        BY <1>1, <2>1, <2>2
      <3> QED
        BY <3>1
    <2>3. CASE ~(head + 1 < IndexLimit)
      <3>1. Following(head) + i = i /\ head + (i + 1) = IndexLimit + i /\ i \in Nat
        BY <1>1, <2>1, <2>3
      <3>2. (IndexLimit + i) % QueueLength = i % QueueLength
        BY <1>1, <3>1, Multiple
      <3> QED
        BY <3>1, <3>2 DEF Mask
    <2> QED
      BY <2>2, <2>3
  <1>9. head + 0 = head
    BY <1>1
  <1> QED
    BY <1>1, <1>2, <1>3, <1>4, <1>6, <1>7, <1>8, <1>9

(***************************************************************************)
(* Threads and types.                                                      *)
(***************************************************************************)
Ops == [pc : {"idle", "read", "bound", "link", "check", "store", "linkIndex",
              "moveIndex", "return"},
        kind : {"none", "enqueue", "dequeue"}, item : Items \cup {NULL},
        index : Index, slot : Items \cup {NULL}, settled : BOOLEAN]

LEMMA Types ==
  ASSUME TypeOK
  PROVE  /\ q \in [Place -> Items \cup {NULL}] /\ head \in Index /\ tail \in Index
         /\ monitor \in [Core -> {NULL} \cup 0 .. QueueLength]
         /\ op \in [Thread -> Ops] /\ calls \in 0 .. MaxCalls
         /\ \A t \in Thread : op[t] \in Ops
  BY DEF TypeOK, Ops

LEMMA Threads ==
  ASSUME CoreQueueAssumption
  PROVE  /\ IsFiniteSet(Thread)
         /\ \A t \in Thread : t[1] \in Core /\ Above(t) \subseteq Thread /\ t \notin Above(t)
         /\ \A t, u \in Thread : t[1] = u[1] /\ t # u => t \in Above(u) \/ u \in Above(t)
  <1>1. MaxLevel \in Nat
    BY Sizes
  <1>2. IsFiniteSet(Core) /\ IsFiniteSet(0 .. MaxLevel)
    <2>1. IsFiniteSet({0} \cup {1})
      BY FS_Singleton, FS_AddElement
    <2>2. Core = {0} \cup {1}
      BY DEF Core
    <2>3. IsFiniteSet(0 .. MaxLevel)
      BY <1>1, FS_Interval
    <2> QED
      BY <2>1, <2>2, <2>3
  <1>3. IsFiniteSet(Thread)
    BY <1>2, FS_Product DEF Thread
  <1>4. \A t \in Thread : t[1] \in Core /\ Above(t) \subseteq Thread /\ t \notin Above(t)
    BY <1>1 DEF Thread, Above
  <1>5. ASSUME NEW t \in Thread, NEW u \in Thread, t[1] = u[1], t # u
        PROVE  t \in Above(u) \/ u \in Above(t)
    <2>1. /\ t = <<t[1], t[2]>> /\ u = <<u[1], u[2]>>
          /\ t[2] \in 0 .. MaxLevel /\ u[2] \in 0 .. MaxLevel
      BY DEF Thread
    <2>2. t[2] # u[2]
      BY <1>5, <2>1
    <2>3. CASE t[2] < u[2]
      <3>1. u[2] \in t[2] + 1 .. MaxLevel /\ u = <<t[1], u[2]>>
        BY <1>1, <1>5, <2>1, <2>3
      <3> QED
        BY <3>1 DEF Above
    <2>4. CASE u[2] < t[2]
      <3>1. t[2] \in u[2] + 1 .. MaxLevel /\ t = <<u[1], t[2]>>
        BY <1>1, <1>5, <2>1, <2>4
      <3> QED
        BY <3>1 DEF Above
    <2> QED
      BY <2>1, <2>2, <2>3, <2>4
  <1> QED
    BY <1>3, <1>4, <1>5

LEMMA UnmovedFacts ==
  ASSUME CoreQueueAssumption
  PROVE  /\ IsFiniteSet(Unmoved) /\ Cardinality(Unmoved) \in Nat
         /\ \A S : S \subseteq Unmoved =>
              IsFiniteSet(S) /\ Cardinality(S) \in Nat /\ Cardinality(S) <= Cardinality(Unmoved)
         /\ \A t, S : t \in Thread /\ S \subseteq Unmoved \cup {t} =>
              IsFiniteSet(S) /\ Cardinality(S) \in Nat
              /\ Cardinality(S) <= Cardinality(Unmoved) + 1
         /\ \A t, S : t \in Unmoved /\ S \subseteq Unmoved \ {t} =>
              IsFiniteSet(S) /\ Cardinality(S) \in Nat
              /\ Cardinality(S) + 1 <= Cardinality(Unmoved)
  <1>1. Unmoved \subseteq Thread
    BY DEF Unmoved
  <1>2. IsFiniteSet(Unmoved) /\ Cardinality(Unmoved) \in Nat
    BY <1>1, Threads, FS_Subset, FS_CardinalityType
  <1>3. ASSUME NEW S, S \subseteq Unmoved
        PROVE  IsFiniteSet(S) /\ Cardinality(S) \in Nat /\ Cardinality(S) <= Cardinality(Unmoved)
    BY <1>2, <1>3, FS_Subset, FS_CardinalityType
  <1>4. ASSUME NEW t \in Thread, NEW S, S \subseteq Unmoved \cup {t}
        PROVE  IsFiniteSet(S) /\ Cardinality(S) \in Nat
               /\ Cardinality(S) <= Cardinality(Unmoved) + 1
    <2>1. /\ IsFiniteSet(Unmoved \cup {t})
          /\ Cardinality(Unmoved \cup {t}) = IF t \in Unmoved THEN Cardinality(Unmoved)
                                             ELSE Cardinality(Unmoved) + 1
      BY <1>2, FS_AddElement
    <2>2. Cardinality(Unmoved \cup {t}) \in Nat
      BY <1>2, <2>1
    <2>3. IsFiniteSet(S) /\ Cardinality(S) <= Cardinality(Unmoved \cup {t})
      BY <1>4, <2>1, FS_Subset
    <2>4. Cardinality(S) \in Nat
      BY <2>3, FS_CardinalityType
    <2> QED
      BY <1>2, <2>1, <2>3, <2>4
  <1>5. ASSUME NEW t \in Unmoved, NEW S, S \subseteq Unmoved \ {t}
        PROVE  IsFiniteSet(S) /\ Cardinality(S) \in Nat
               /\ Cardinality(S) + 1 <= Cardinality(Unmoved)
    <2>1. IsFiniteSet(Unmoved \ {t}) /\ Cardinality(Unmoved \ {t}) = Cardinality(Unmoved) - 1
      BY <1>2, FS_RemoveElement
    <2>2. IsFiniteSet(S) /\ Cardinality(S) <= Cardinality(Unmoved \ {t})
      BY <1>5, <2>1, FS_Subset
    <2>3. Cardinality(S) \in Nat
      BY <2>2, FS_CardinalityType
    <2> QED
      BY <1>2, <2>1, <2>2, <2>3
  <1> QED
    BY <1>2, <1>3, <1>4, <1>5

(* A thread that runs does so alone on its core.                           *)
LEMMA Others ==
  ASSUME CoreQueueAssumption, NEW t \in Thread, \A u \in Above(t) : ~Active(u),
         NEW u \in Thread, u # t, u[1] = t[1]
  PROVE  Active(u) => t \in Above(u)
  BY Threads

(***************************************************************************)
(* A step of a thread that leaves the queue as it is.                      *)
(***************************************************************************)
LEMMA OwnLags ==
  ASSUME NEW t \in Thread, NEW x, op'[t] = x, \A u \in Thread : u # t => op'[u] = op[u],
         UNCHANGED queue, Lags(x) <=> Lags(op[t]), Lags(x) => x.kind = op[t].kind
  PROVE  /\ op'[t] = x /\ \A u \in Thread : u # t => op'[u] = op[u]
         /\ \A k : Lag(k)' <=> Lag(k)
         /\ \A o : Lags(o)' <=> Lags(o)
  <1>1. op'[t] = x /\ \A u \in Thread : u # t => op'[u] = op[u]
    OBVIOUS
  <1>2. head' = head /\ tail' = tail
    BY DEF queue
  <1>3. \A o : Lags(o)' <=> Lags(o)
    BY <1>2 DEF Lags, IndexFor
  <1>4. ASSUME NEW k
        PROVE  Lag(k)' <=> Lag(k)
    <2>1. \A u \in Thread : op[u].kind = k /\ Lags(op[u]) <=> op'[u].kind = k /\ Lags(op[u])'
      <3> SUFFICES ASSUME NEW u \in Thread
                   PROVE  op[u].kind = k /\ Lags(op[u]) <=> op'[u].kind = k /\ Lags(op[u])'
        OBVIOUS
      <3>1. Lags(op[u])' <=> Lags(op'[u])
        BY <1>2 DEF Lags, IndexFor
      <3> QED
        BY <1>1, <3>1
    <2> QED
      BY <2>1 DEF Lag
  <1> QED
    BY <1>1, <1>3, <1>4

LEMMA OwnStep ==
  ASSUME CoreQueueAssumption, CoreInv, NEW t \in Thread, NEW x \in Ops,
         op' \in [Thread -> Ops], op'[t] = x, \A u \in Thread : u # t => op'[u] = op[u],
         UNCHANGED queue, \A u \in Above(t) : ~Active(u),
         Lags(x) <=> Lags(op[t]), Lags(x) => x.kind = op[t].kind,
         Sound(x), Knows(x), calls' \in 0 .. MaxCalls,
         \/ calls' = calls /\ (x.pc # "idle" /\ (x.settled => Lags(x)) => t \in Unmoved)
         \/ calls' = calls + 1,
         x.pc \notin {"idle", "read"} =>
           \/ x.index = IndexFor(x.kind)
           \/ op[t].pc \notin {"idle", "read"} /\ x.kind = op[t].kind /\ x.index = op[t].index,
         monitor' \in [Core -> {NULL} \cup 0 .. QueueLength],
         \A c \in Core : c # t[1] => monitor'[c] = monitor[c],
         monitor'[t[1]] # NULL => x.pc # "idle" /\ Reserves(x, monitor'[t[1]])
  PROVE  CoreInv'
  <1>1. op'[t] = x /\ (\A u \in Thread : u # t => op'[u] = op[u])
        /\ (\A k : Lag(k)' <=> Lag(k)) /\ (\A o : Lags(o)' <=> Lags(o))
    BY OwnLags DEF CoreInv
  <1>2. q' = q /\ head' = head /\ tail' = tail
    BY DEF queue
  <1>3. TypeOK'
    BY <1>2, Types DEF CoreInv, TypeOK, Ops
  <1>4. Shape'
    BY <1>1, <1>2 DEF CoreInv, Shape, Dist
  <1>5. Alone'
    <2> SUFFICES ASSUME NEW a \in Thread, NEW b \in Thread,
                        op'[a].kind = op'[b].kind, Lags(op[a])', Lags(op[b])'
                 PROVE  a = b
      BY DEF Alone
    <2>1. \A u \in Thread : Lags(op[u])' => Lags(op[u]) /\ op'[u].kind = op[u].kind
      <3> SUFFICES ASSUME NEW u \in Thread, Lags(op[u])'
                   PROVE  Lags(op[u]) /\ op'[u].kind = op[u].kind
        OBVIOUS
      <3>1. Lags(op'[u])
        BY <1>2 DEF Lags, IndexFor
      <3> QED
        BY <1>1, <3>1
    <2> QED
      BY <2>1 DEF CoreInv, Alone
  <1>6. \A u \in Thread : Sound(op'[u])
    BY <1>1 DEF CoreInv
  <1>7. \A u \in Thread : Knows(op[u])'
    <2>1. \A u \in Thread : Knows(op'[u])
      BY <1>1 DEF CoreInv
    <2>2. \A u \in Thread : Knows(op[u])' <=> Knows(op'[u])
      BY <1>1, <1>2 DEF Knows, Helps, IndexFor, Dist
    <2> QED
      BY <2>1, <2>2
  <1>8. Reserved'
    <2> SUFFICES ASSUME NEW u \in Thread, Top(u)', monitor'[u[1]] # NULL
                 PROVE  Reserves(op[u], monitor[u[1]])'
      BY DEF Reserved
    <2>1. Reserves(op[u], monitor[u[1]])' <=> Reserves(op'[u], monitor'[u[1]])
      BY <1>2 DEF Reserves, IndexFor
    <2>2. CASE u = t
      BY <1>1, <2>1, <2>2
    <2>3. CASE u # t /\ u[1] = t[1]
      <3>1. op'[u] = op[u] /\ op'[u].pc # "idle"
        BY <1>1, <2>3 DEF Top, Active
      <3>2. t \in Above(u)
        BY <2>3, <3>1, Others DEF Active
      <3>3. op'[t].pc = "idle"
        BY <3>2 DEF Top, Active
      <3> QED
        BY <1>1, <2>3, <3>3
    <2>4. CASE u # t /\ u[1] # t[1]
      <3>1. op'[u] = op[u] /\ monitor'[u[1]] = monitor[u[1]]
        BY <1>1, <2>4, Threads
      <3>2. Top(u)
        <4>1. \A v \in {u} \cup Above(u) : v # t /\ v \in Thread
          BY <2>4, Threads DEF Above
        <4> QED
          BY <1>1, <4>1 DEF Top, Active
      <3> QED
        BY <2>1, <3>1, <3>2 DEF CoreInv, Reserved
    <2> QED
      BY <2>2, <2>3, <2>4
  <1>9. Counted'
    <2>1. /\ Cardinality(Unmoved) \in Nat /\ calls \in Nat /\ Cardinality(Unmoved) <= calls
          /\ Cardinality(Unmoved') \in Nat /\ calls' \in Nat
          /\ Cardinality(Unmoved') - Cardinality(Unmoved) <= calls' - calls
      <3>1. Cardinality(Unmoved) \in Nat /\ calls \in Nat /\ Cardinality(Unmoved) <= calls
            /\ calls' \in Nat
        BY Types, UnmovedFacts, Sizes DEF CoreInv, Counted
      <3>2. Unmoved' \subseteq Unmoved \cup {t}
        <4> SUFFICES ASSUME NEW u \in Unmoved', u # t
                     PROVE  u \in Unmoved
          OBVIOUS
        <4>1. u \in Thread /\ op'[u] = op[u]
          BY <1>1 DEF Unmoved
        <4>2. Lags(op[u])' <=> Lags(op[u])
          BY <1>2, <4>1 DEF Lags, IndexFor
        <4> QED
          BY <4>1, <4>2 DEF Unmoved, Active
      <3>3. CASE calls' = calls + 1
        <4>1. Cardinality(Unmoved') \in Nat /\ Cardinality(Unmoved') <= Cardinality(Unmoved) + 1
          BY <3>2, UnmovedFacts
        <4> QED
          BY <3>1, <3>3, <4>1
      <3>4. CASE calls' = calls /\ (x.pc # "idle" /\ (x.settled => Lags(x)) => t \in Unmoved)
        <4>1. t \in Unmoved' => x.pc # "idle" /\ (x.settled => Lags(x))
          <5>1. Lags(op[t])' <=> Lags(x)
            BY <1>1, <1>2 DEF Lags, IndexFor
          <5> QED
            BY <1>1, <5>1 DEF Unmoved, Active
        <4>2. Unmoved' \subseteq Unmoved
          BY <3>2, <3>4, <4>1
        <4>3. Cardinality(Unmoved') \in Nat /\ Cardinality(Unmoved') <= Cardinality(Unmoved)
          BY <4>2, UnmovedFacts
        <4> QED
          BY <3>1, <3>4, <4>3
      <3> QED
        BY <3>3, <3>4
    <2>2. \A o : Behind(o)' = Behind(o)
      BY <1>2 DEF Behind, IndexFor
    <2>3. ASSUME NEW u \in Thread, op'[u].pc \notin {"idle", "read"}
          PROVE  Behind(op[u])' + Cardinality(Unmoved') <= calls'
      <3>1. Behind(op[u])' = Behind(op'[u])
        BY <1>2 DEF Behind, IndexFor
      <3>2. op'[u].index \in Index /\ IndexFor(op'[u].kind) \in Index
        BY <1>1, Types DEF CoreInv, IndexFor, Ops
      <3>3. Behind(op'[u]) \in Nat
        BY <3>2, ApartFacts DEF Behind, Apart
      <3>4. CASE op'[u].index = IndexFor(op'[u].kind)
        <4>1. Behind(op'[u]) = 0
          BY <3>2, <3>4, ApartFacts DEF Behind, Apart
        <4> QED
          BY <2>1, <3>1, <4>1
      <3>5. CASE op[u].pc \notin {"idle", "read"} /\ op'[u].kind = op[u].kind
                 /\ op'[u].index = op[u].index
        <4>1. Behind(op'[u]) = Behind(op[u])
          BY <3>5 DEF Behind
        <4>2. Behind(op[u]) + Cardinality(Unmoved) <= calls
          BY <3>5 DEF CoreInv, Counted
        <4> QED
          BY <2>1, <3>1, <3>3, <4>1, <4>2
      <3> QED
        BY <1>1, <2>3, <3>4, <3>5
    <2> QED
      BY <2>1, <2>3 DEF Counted
  <1> QED
    BY <1>3, <1>4, <1>5, <1>6, <1>7, <1>8, <1>9 DEF CoreInv, Sound

LEMMA Monitors ==
  ASSUME TypeOK, NEW t \in Thread, NEW g \in {NULL} \cup 0 .. QueueLength,
         monitor' = [monitor EXCEPT ![t[1]] = g]
  PROVE  /\ monitor' \in [Core -> {NULL} \cup 0 .. QueueLength] /\ monitor'[t[1]] = g
         /\ \A c \in Core : c # t[1] => monitor'[c] = monitor[c]
  <1>1. t[1] \in Core
    BY DEF Thread
  <1> QED
    BY <1>1, Types

LEMMA Granules ==
  ASSUME CoreQueueAssumption, NEW i \in Index
  PROVE  /\ Mask(i) \in Place /\ Granule(Mask(i)) \in 0 .. QueueLength
         /\ IndexGranule \in 0 .. QueueLength /\ Granule(Mask(i)) # IndexGranule
         /\ NULL \notin 0 .. QueueLength
  <1>1. i \in Nat /\ QueueLength \in Nat \ {0} /\ Place = 0 .. QueueLength - 1
    BY Sizes
  <1>2. Mask(i) \in 0 .. QueueLength - 1
    BY <1>1, Division DEF Mask
  <1>3. \A p \in 0 .. QueueLength - 1 : p \div 4 \in 0 .. QueueLength - 1
    BY <1>1
  <1>4. Granule(Mask(i)) \in 0 .. QueueLength - 1
    BY <1>2, <1>3 DEF Granule
  <1>5. NULL \notin 0 .. QueueLength
    BY DEF CoreQueueAssumption
  <1> QED
    BY <1>1, <1>2, <1>4, <1>5 DEF IndexGranule

LEMMA CallKeeps ==
  ASSUME CoreQueueAssumption, CoreInv, NEW t \in Thread, NEW kind, NEW item,
         (kind = "enqueue" /\ item \in Items) \/ (kind = "dequeue" /\ item = NULL),
         Call(t, kind, item)
  PROVE  CoreInv'
  <1> DEFINE x == op'[t]
  <1>1. op \in [Thread -> Ops] /\ op[t] \in Ops /\ 0 \in Index
    BY Types, Sizes DEF CoreInv
  <1>2. /\ op' \in [Thread -> Ops] /\ \A u \in Thread : u # t => op'[u] = op[u]
        /\ x \in Ops /\ x.pc = "read" /\ x.kind = kind /\ x.item = item /\ x.index = 0
        /\ x.slot = NULL /\ ~x.settled
    BY <1>1 DEF Call, Idle, Ops
  <1>3. UNCHANGED queue /\ monitor' = monitor /\ calls' = calls + 1 /\ calls < MaxCalls
        /\ \A u \in {t} \cup Above(t) : ~Active(u)
    BY DEF Call
  <1> HIDE DEF x
  <1>4. op[t] = Idle
    BY <1>3 DEF Active, CoreInv, Sound
  <1>5. ~Lags(x) /\ ~Lags(op[t])
    BY <1>2, <1>4 DEF Lags, Idle
  <1>6. NULL \notin Items
    BY DEF CoreQueueAssumption
  <1>7. Sound(x) /\ Knows(x) /\ \A g : Reserves(x, g)
    BY <1>2, <1>6 DEF Sound, Knows, Bound, Helps, Reserves
  <1>8. calls' \in 0 .. MaxCalls /\ monitor' \in [Core -> {NULL} \cup 0 .. QueueLength]
    BY <1>3, Types, Sizes DEF CoreInv
  <1> QED
    BY <1>2, <1>3, <1>5, <1>7, <1>8, OwnStep DEF x

LEMMA ReadIndexKeeps ==
  ASSUME CoreQueueAssumption, CoreInv, NEW t \in Thread, ReadIndex(t)
  PROVE  CoreInv'
  <1> DEFINE x == op'[t]
  <1>1. op \in [Thread -> Ops] /\ op[t] \in Ops /\ IndexOf(t) \in Index
    BY Types DEF CoreInv, IndexOf
  <1>2. /\ op' \in [Thread -> Ops] /\ \A u \in Thread : u # t => op'[u] = op[u]
        /\ x \in Ops /\ x.pc = "bound" /\ x.kind = op[t].kind /\ x.item = op[t].item
        /\ x.index = IndexOf(t) /\ x.slot = op[t].slot /\ (x.settled <=> op[t].settled)
    BY <1>1 DEF ReadIndex, Ops
  <1>3. UNCHANGED queue /\ monitor' = monitor /\ calls' = calls /\ op[t].pc = "read"
        /\ \A u \in Above(t) : ~Active(u)
    BY DEF ReadIndex, At
  <1> HIDE DEF x
  <1>4. ~op[t].settled /\ Sound(op[t])
    BY <1>3 DEF CoreInv, Sound
  <1>5. ~Lags(x) /\ ~Lags(op[t]) /\ Sound(x) /\ Knows(x) /\ \A g : Reserves(x, g)
    BY <1>2, <1>3, <1>4 DEF Lags, Sound, Knows, Bound, Helps, Reserves
  <1>6. t \in Unmoved
    BY <1>3, <1>4 DEF Unmoved, Active
  <1>7. calls' \in 0 .. MaxCalls /\ monitor' \in [Core -> {NULL} \cup 0 .. QueueLength]
    BY <1>3, Types DEF CoreInv
  <1>8. x.index = IndexFor(x.kind)
    BY <1>2 DEF IndexOf, IndexFor
  <1> QED
    BY <1>2, <1>3, <1>5, <1>6, <1>7, <1>8, OwnStep DEF x

(* The places at the indices tell of the operations that lag.              *)
LEMMA AtIndices ==
  ASSUME CoreQueueAssumption, CoreInv
  PROVE  /\ Dist \in Nat /\ Dist \in 0 .. QueueLength /\ QueueLength \in Nat \ {0}
         /\ Dist < QueueLength => (q[Mask(tail)] # NULL <=> Lag("enqueue"))
         /\ Dist > 0 => (q[Mask(head)] = NULL <=> Lag("dequeue"))
  <1>1. head \in Index /\ tail \in Index /\ Dist <= QueueLength
    BY Types DEF CoreInv, Shape
  <1>2. /\ Dist \in 0 .. QueueLength /\ Dist \in Nat /\ Mask(tail) = Mask(head + Dist)
        /\ Mask(head + 0) = Mask(head) /\ QueueLength \in Nat \ {0}
    BY <1>1, PlaceFacts, Sizes
  <1>3. ASSUME NEW i \in 0 .. QueueLength - 1
        PROVE  q[Mask(head + i)] # NULL <=> \/ i < Dist /\ ~(i = 0 /\ Lag("dequeue"))
                                            \/ i = Dist /\ Lag("enqueue")
    BY DEF CoreInv, Shape
  <1>4. Dist < QueueLength => (q[Mask(tail)] # NULL <=> Lag("enqueue"))
    <2> SUFFICES ASSUME Dist < QueueLength
                 PROVE  q[Mask(tail)] # NULL <=> Lag("enqueue")
      OBVIOUS
    <2>1. Dist \in 0 .. QueueLength - 1 /\ ~(Dist < Dist)
      BY <1>2
    <2>2. q[Mask(head + Dist)] # NULL <=> Lag("enqueue")
      BY <1>3, <2>1
    <2> QED
      BY <1>2, <2>2
  <1>5. Dist > 0 => (q[Mask(head)] = NULL <=> Lag("dequeue"))
    <2> SUFFICES ASSUME Dist > 0
                 PROVE  q[Mask(head)] = NULL <=> Lag("dequeue")
      OBVIOUS
    <2>1. 0 \in 0 .. QueueLength - 1 /\ 0 < Dist /\ 0 # Dist
      BY <1>2
    <2>2. q[Mask(head + 0)] # NULL <=> ~Lag("dequeue")
      BY <1>3, <2>1
    <2> QED
      BY <1>2, <2>2
  <1> QED
    BY <1>2, <1>4, <1>5

LEMMA TestBoundKeeps ==
  ASSUME CoreQueueAssumption, CoreInv, NEW t \in Thread, TestBound(t)
  PROVE  CoreInv'
  <1> DEFINE x == op'[t]
  <1>1. op \in [Thread -> Ops] /\ op[t] \in Ops /\ head \in Index /\ tail \in Index
    BY Types DEF CoreInv
  <1>2. /\ op' \in [Thread -> Ops] /\ \A u \in Thread : u # t => op'[u] = op[u]
        /\ x \in Ops /\ x.pc = IF Refused(t) THEN "return" ELSE "link"
        /\ x.kind = op[t].kind /\ x.item = op[t].item
        /\ x.index = op[t].index /\ x.slot = op[t].slot /\ (x.settled <=> op[t].settled)
    BY <1>1 DEF TestBound, Goto, Ops
  <1>3. UNCHANGED queue /\ monitor' = monitor /\ calls' = calls /\ op[t].pc = "bound"
        /\ \A u \in Above(t) : ~Active(u)
    BY DEF TestBound, At
  <1> HIDE DEF x
  <1>4. ~op[t].settled /\ Sound(op[t])
    BY <1>3 DEF CoreInv, Sound
  <1>5. ~Lags(x) /\ ~Lags(op[t]) /\ Sound(x) /\ \A g : Reserves(x, g)
    BY <1>2, <1>3, <1>4 DEF Lags, Sound, Reserves
  <1>6. Knows(x)
    <2>1. x.pc = "link" /\ x.index = IndexFor(x.kind) =>
            IF x.kind = "enqueue" THEN Dist < QueueLength ELSE Dist > 0
      <3> SUFFICES ASSUME ~Refused(t), x.index = IndexFor(x.kind)
                   PROVE  IF x.kind = "enqueue" THEN Dist < QueueLength ELSE Dist > 0
        BY <1>2
      <3>1. /\ Dist \in 0 .. QueueLength /\ tail = (head + Dist) % IndexLimit
            /\ QueueLength \in Nat /\ (Dist = 0 <=> tail = head)
        <4>1. Dist <= QueueLength
          BY DEF CoreInv, Shape
        <4>2. Dist \in 0 .. QueueLength /\ tail = (head + Dist) % IndexLimit
          BY <1>1, <4>1, PlaceFacts
        <4>3. Apart(tail, head) = 0 <=> tail = head
          BY <1>1, ApartFacts
        <4> QED
          BY <4>2, <4>3, Sizes DEF Dist, Apart
      <3>2. CASE x.kind = "enqueue"
        <4>1. Dist # QueueLength
          BY <1>2, <3>1, <3>2 DEF Refused, IndexFor
        <4> QED
          BY <3>1, <3>2, <4>1
      <3>3. CASE x.kind # "enqueue"
        <4>1. Dist # 0
          BY <1>2, <3>1, <3>3 DEF Refused, IndexFor
        <4> QED
          BY <3>1, <3>3, <4>1
      <3> QED
        BY <3>2, <3>3
    <2> QED
      BY <1>2, <1>4, <2>1 DEF Knows, Bound, Helps
  <1>7. t \in Unmoved
    BY <1>3, <1>4 DEF Unmoved, Active
  <1>8. calls' \in 0 .. MaxCalls /\ monitor' \in [Core -> {NULL} \cup 0 .. QueueLength]
    BY <1>3, Types DEF CoreInv
  <1> QED
    BY <1>2, <1>3, <1>5, <1>6, <1>7, <1>8, OwnStep DEF x

LEMMA LinkPlaceKeeps ==
  ASSUME CoreQueueAssumption, CoreInv, NEW t \in Thread, LinkPlace(t)
  PROVE  CoreInv'
  <1> DEFINE x == op'[t]
             g == Granule(Mask(op[t].index))
  <1>1. /\ op \in [Thread -> Ops] /\ op[t] \in Ops /\ op[t].index \in Index
        /\ op[t].kind \in {"none", "enqueue", "dequeue"}
        /\ q \in [Place -> Items \cup {NULL}]
    BY Types DEF CoreInv, Ops
  <1>2. q[Mask(op[t].index)] \in Items \cup {NULL} /\ g \in 0 .. QueueLength
    BY <1>1, Granules
  <1>3. /\ op' \in [Thread -> Ops] /\ \A u \in Thread : u # t => op'[u] = op[u]
        /\ x \in Ops /\ x.pc = "check" /\ x.kind = op[t].kind /\ x.item = op[t].item
        /\ x.index = op[t].index /\ x.slot = q[Mask(op[t].index)]
        /\ (x.settled <=> op[t].settled)
    BY <1>1, <1>2 DEF LinkPlace, Ops
  <1>4. UNCHANGED queue /\ calls' = calls /\ op[t].pc = "link"
        /\ monitor' = [monitor EXCEPT ![t[1]] = g]
        /\ \A u \in Above(t) : ~Active(u)
    BY DEF LinkPlace, LoadLinked, At
  <1>5. /\ monitor' \in [Core -> {NULL} \cup 0 .. QueueLength] /\ monitor'[t[1]] = g
        /\ \A c \in Core : c # t[1] => monitor'[c] = monitor[c]
    BY <1>2, <1>4, Monitors DEF CoreInv
  <1> HIDE DEF x, g
  <1>6. ~op[t].settled /\ Sound(op[t]) /\ Knows(op[t])
    BY <1>4 DEF CoreInv, Sound
  <1>7. ~Lags(x) /\ ~Lags(op[t]) /\ Sound(x)
    BY <1>3, <1>4, <1>6 DEF Lags, Sound
  <1>8. Reserves(x, g)
    BY <1>3 DEF Reserves, g
  <1>9. Knows(x)
    <2> SUFFICES ASSUME x.index = IndexFor(x.kind)
                 PROVE  /\ IF x.kind = "enqueue" THEN Dist < QueueLength ELSE Dist > 0
                        /\ Helps(x) => Lag(x.kind)
      BY <1>3, <1>6 DEF Knows
    <2>1. IF x.kind = "enqueue" THEN Dist < QueueLength ELSE Dist > 0
      BY <1>3, <1>4, <1>6 DEF Knows, Bound
    <2>2. op[t].kind \in {"enqueue", "dequeue"}
      BY <1>1, <1>4, <1>6 DEF Sound
    <2>3. CASE x.kind = "enqueue"
      <3>1. Helps(x) => q[Mask(tail)] # NULL
        BY <1>3, <2>3 DEF Helps, IndexFor
      <3> QED
        BY <2>1, <2>3, <3>1, AtIndices
    <2>4. CASE x.kind = "dequeue"
      <3>1. Helps(x) => q[Mask(head)] = NULL
        BY <1>3, <2>4 DEF Helps, IndexFor
      <3>2. Dist > 0
        BY <2>1, <2>4
      <3> QED
        BY <2>1, <2>4, <3>1, <3>2, AtIndices
    <2> QED
      BY <1>3, <2>2, <2>3, <2>4
  <1>10. t \in Unmoved
    BY <1>4, <1>6 DEF Unmoved, Active
  <1>11. calls' \in 0 .. MaxCalls
    BY <1>4, Types DEF CoreInv
  <1>12. op[t].pc \notin {"idle", "read"} /\ x.kind = op[t].kind /\ x.index = op[t].index
    BY <1>3, <1>4
  <1> QED
    BY <1>3, <1>4, <1>5, <1>7, <1>8, <1>9, <1>10, <1>11, <1>12, OwnStep DEF x

LEMMA CheckIndexKeeps ==
  ASSUME CoreQueueAssumption, CoreInv, NEW t \in Thread, CheckIndex(t)
  PROVE  CoreInv'
  <1> DEFINE x == op'[t]
             o == op[t]
             back == Moved(t)
             help == (op[t].slot = NULL) <=> (op[t].kind = "dequeue")
  <1>1. op \in [Thread -> Ops] /\ op[t] \in Ops /\ NULL \in Items \cup {NULL}
    BY Types DEF CoreInv
  <1>2. /\ op' \in [Thread -> Ops] /\ \A u \in Thread : u # t => op'[u] = op[u]
        /\ x \in Ops /\ x.pc = (IF back THEN "read" ELSE IF help THEN "linkIndex" ELSE "store")
        /\ x.kind = o.kind /\ x.item = o.item /\ x.index = o.index
        /\ x.slot = (IF back \/ o.kind = "enqueue" THEN NULL ELSE o.slot)
        /\ (x.settled <=> o.settled)
    BY <1>1 DEF CheckIndex, Ops
  <1>3. UNCHANGED queue /\ monitor' = monitor /\ calls' = calls /\ o.pc = "check"
        /\ \A u \in Above(t) : ~Active(u)
    BY DEF CheckIndex, At
  <1>4. back <=> o.index # IndexFor(o.kind)
    BY DEF Moved, IndexOf, IndexFor
  <1>5. ~o.settled /\ Sound(o) /\ Knows(o)
    BY <1>3 DEF CoreInv, Sound
  <1>6. o.kind \in {"enqueue", "dequeue"}
    BY <1>1, <1>3, <1>5 DEF Sound, Ops
  <1>7. monitor[t[1]] # NULL => Reserves(o, monitor[t[1]])
    BY <1>3 DEF CoreInv, Reserved, Top, Active
  <1> HIDE DEF x, o, back, help
  <1>8. help => (o.slot = NULL <=> o.kind = "dequeue")
    BY DEF o, help
  <1>9. ~help => ((o.kind = "enqueue" => o.slot = NULL) /\ (o.kind = "dequeue" => o.slot # NULL))
    BY DEF o, help
  <1>10. ~Lags(x) /\ ~Lags(o)
    BY <1>2, <1>5 DEF Lags
  <1>11. Sound(x)
    BY <1>2, <1>3, <1>5, <1>6, <1>8, <1>9 DEF Sound
  <1>12. Knows(x)
    <2> SUFFICES ASSUME x.index = IndexFor(x.kind)
                 PROVE  /\ IF x.kind = "enqueue" THEN Dist < QueueLength ELSE Dist > 0
                        /\ Helps(x) => Lag(x.kind)
      BY <1>2, <1>5 DEF Knows
    <2>1. ~back /\ o.index = IndexFor(o.kind)
      BY <1>2, <1>4
    <2>2. /\ IF o.kind = "enqueue" THEN Dist < QueueLength ELSE Dist > 0
          /\ Helps(o) => Lag(o.kind)
      BY <1>3, <1>5, <2>1 DEF Knows, Bound
    <2>3. Helps(x) => Helps(o)
      BY <1>2, <1>3, <1>8, <2>1 DEF Helps
    <2> QED
      BY <1>2, <2>2, <2>3
  <1>13. monitor'[t[1]] # NULL => x.pc # "idle" /\ Reserves(x, monitor'[t[1]])
    <2> SUFFICES ASSUME monitor[t[1]] # NULL
                 PROVE  x.pc # "idle" /\ Reserves(x, monitor[t[1]])
      BY <1>3
    <2>1. monitor[t[1]] = Granule(Mask(o.index)) /\ q[Mask(o.index)] = o.slot
      BY <1>3, <1>7 DEF Reserves
    <2>2. x.pc = "store" => x.slot = o.slot
      BY <1>2, <1>9
    <2> QED
      BY <1>2, <1>4, <2>1, <2>2 DEF Reserves
  <1>14. t \in Unmoved
    BY <1>3, <1>5 DEF Unmoved, Active, o
  <1>15. calls' \in 0 .. MaxCalls /\ monitor' \in [Core -> {NULL} \cup 0 .. QueueLength]
    BY <1>3, Types DEF CoreInv
  <1>16. op[t].pc \notin {"idle", "read"} /\ x.kind = op[t].kind /\ x.index = op[t].index
    BY <1>2, <1>3 DEF o
  <1>17. ~Lags(op[t]) /\ \A c \in Core : c # t[1] => monitor'[c] = monitor[c]
    BY <1>3, <1>10 DEF o
  <1> QED
    BY <1>2, <1>3, <1>10, <1>11, <1>12, <1>13, <1>14, <1>15, <1>16, <1>17, OwnStep DEF x

LEMMA StoreFailsKeeps ==
  ASSUME CoreQueueAssumption, CoreInv, NEW t \in Thread, At(t, "store"), StoreFails(t),
         op' = [op EXCEPT ![t].pc = "read", ![t].slot = NULL], UNCHANGED <<queue, calls>>
  PROVE  CoreInv'
  <1> DEFINE x == op'[t]
  <1>1. op \in [Thread -> Ops] /\ op[t] \in Ops
    BY Types DEF CoreInv
  <1>2. /\ op' \in [Thread -> Ops] /\ \A u \in Thread : u # t => op'[u] = op[u]
        /\ x \in Ops /\ x.pc = "read" /\ x.kind = op[t].kind /\ x.item = op[t].item
        /\ x.index = op[t].index /\ x.slot = NULL /\ (x.settled <=> op[t].settled)
    BY <1>1 DEF Ops
  <1>3. UNCHANGED queue /\ calls' = calls /\ op[t].pc = "store"
        /\ monitor' = [monitor EXCEPT ![t[1]] = NULL] /\ \A u \in Above(t) : ~Active(u)
    BY DEF StoreFails, At
  <1>4. /\ monitor' \in [Core -> {NULL} \cup 0 .. QueueLength] /\ monitor'[t[1]] = NULL
        /\ \A c \in Core : c # t[1] => monitor'[c] = monitor[c]
    BY <1>3, Monitors DEF CoreInv
  <1> HIDE DEF x
  <1>5. ~op[t].settled /\ Sound(op[t])
    BY <1>3 DEF CoreInv, Sound
  <1>6. ~Lags(x) /\ ~Lags(op[t]) /\ Sound(x) /\ Knows(x)
    BY <1>2, <1>3, <1>5 DEF Lags, Sound, Knows, Bound, Helps
  <1>7. t \in Unmoved /\ calls' \in 0 .. MaxCalls
    BY <1>3, <1>5, Types DEF Unmoved, Active, CoreInv
  <1> QED
    BY <1>2, <1>3, <1>4, <1>6, <1>7, OwnStep DEF x

LEMMA LinkIndexKeeps ==
  ASSUME CoreQueueAssumption, CoreInv, NEW t \in Thread, LinkIndex(t)
  PROVE  CoreInv'
  <1> DEFINE x == op'[t]
             o == op[t]
  <1>1. op \in [Thread -> Ops] /\ op[t] \in Ops
    BY Types DEF CoreInv
  <1>2. /\ op' \in [Thread -> Ops] /\ \A u \in Thread : u # t => op'[u] = op[u]
        /\ x \in Ops /\ x.pc = (IF IndexOf(t) = o.index THEN "moveIndex"
                                ELSE IF o.settled THEN "return" ELSE "read")
        /\ x.kind = o.kind /\ x.item = o.item
        /\ x.index = o.index /\ x.slot = o.slot /\ (x.settled <=> o.settled)
    BY <1>1 DEF LinkIndex, Goto, Ops
  <1>3. UNCHANGED queue /\ calls' = calls /\ op[t].pc = "linkIndex"
        /\ monitor' = [monitor EXCEPT ![t[1]] = IndexGranule]
        /\ \A u \in Above(t) : ~Active(u)
    BY DEF LinkIndex, LoadLinked, At
  <1>4. /\ monitor' \in [Core -> {NULL} \cup 0 .. QueueLength] /\ monitor'[t[1]] = IndexGranule
        /\ \A c \in Core : c # t[1] => monitor'[c] = monitor[c]
    <2>1. IndexGranule \in 0 .. QueueLength
      BY Sizes DEF IndexGranule
    <2> QED
      BY <1>3, <2>1, Monitors DEF CoreInv
  <1>5. IndexOf(t) = IndexFor(o.kind)
    BY DEF IndexOf, IndexFor
  <1>6. Sound(o) /\ Knows(o) /\ o.pc = "linkIndex"
    BY <1>3 DEF CoreInv
  <1> HIDE DEF x, o
  <1>7. (Lags(x) <=> Lags(o)) /\ Sound(x)
    BY <1>2, <1>6 DEF Lags, Sound
  <1>8. Knows(x)
    <2> SUFFICES ASSUME x.index = IndexFor(x.kind)
                 PROVE  /\ IF x.kind = "enqueue" THEN Dist < QueueLength ELSE Dist > 0
                        /\ Helps(x) => Lag(x.kind)
                        /\ x.settled => q[Mask(x.index)] = x.item /\ x.pc # "return"
      BY DEF Knows
    <2>1. /\ IF o.kind = "enqueue" THEN Dist < QueueLength ELSE Dist > 0
          /\ Helps(o) => Lag(o.kind)
          /\ o.settled => q[Mask(o.index)] = o.item
      BY <1>2, <1>6 DEF Knows, Bound
    <2> QED
      BY <1>2, <1>5, <1>6, <2>1 DEF Helps
  <1>9. x.pc # "idle" /\ Reserves(x, IndexGranule)
    BY <1>2, <1>5 DEF Reserves
  <1>10. x.pc # "idle" /\ (x.settled => Lags(x)) => t \in Unmoved
    BY <1>2, <1>6, <1>7 DEF Unmoved, Active, o
  <1>11. calls' \in 0 .. MaxCalls
    BY <1>3, Types DEF CoreInv
  <1>12. /\ op[t].pc \notin {"idle", "read"} /\ x.kind = op[t].kind /\ x.index = op[t].index
         /\ (Lags(x) <=> Lags(op[t]))
    BY <1>2, <1>6, <1>7 DEF o
  <1> QED
    BY <1>2, <1>3, <1>4, <1>7, <1>8, <1>9, <1>10, <1>11, <1>12, OwnStep DEF x

LEMMA MoveFailsKeeps ==
  ASSUME CoreQueueAssumption, CoreInv, NEW t \in Thread, At(t, "moveIndex"), StoreFails(t),
         Goto(t, AfterFailure(t)), UNCHANGED <<queue, calls>>
  PROVE  CoreInv'
  <1> DEFINE x == op'[t]
             o == op[t]
  <1>1. op \in [Thread -> Ops] /\ op[t] \in Ops
    BY Types DEF CoreInv
  <1>2. /\ op' \in [Thread -> Ops] /\ \A u \in Thread : u # t => op'[u] = op[u]
        /\ x \in Ops /\ x.pc = (IF o.settled THEN "linkIndex" ELSE "read")
        /\ x.kind = o.kind /\ x.item = o.item
        /\ x.index = o.index /\ x.slot = o.slot /\ (x.settled <=> o.settled)
    BY <1>1 DEF AfterFailure, Goto, Ops
  <1>3. UNCHANGED queue /\ calls' = calls /\ op[t].pc = "moveIndex"
        /\ monitor' = [monitor EXCEPT ![t[1]] = NULL] /\ \A u \in Above(t) : ~Active(u)
    BY DEF StoreFails, At
  <1>4. /\ monitor' \in [Core -> {NULL} \cup 0 .. QueueLength] /\ monitor'[t[1]] = NULL
        /\ \A c \in Core : c # t[1] => monitor'[c] = monitor[c]
    BY <1>3, Monitors DEF CoreInv
  <1>5. Sound(o) /\ Knows(o) /\ o.pc = "moveIndex"
    BY <1>3 DEF CoreInv
  <1> HIDE DEF x, o
  <1>6. (Lags(x) <=> Lags(o)) /\ Sound(x)
    BY <1>2, <1>5 DEF Lags, Sound
  <1>7. Knows(x)
    BY <1>2, <1>5 DEF Knows, Helps, Bound
  <1>8. x.pc # "idle" /\ (x.settled => Lags(x)) => t \in Unmoved
    BY <1>2, <1>5, <1>6 DEF Unmoved, Active, o
  <1>9. calls' \in 0 .. MaxCalls
    BY <1>3, Types DEF CoreInv
  <1>10. /\ op[t].pc \notin {"idle", "read"} /\ x.kind = op[t].kind /\ x.index = op[t].index
         /\ (Lags(x) <=> Lags(op[t]))
    BY <1>2, <1>5, <1>6 DEF o
  <1> QED
    BY <1>2, <1>3, <1>4, <1>6, <1>7, <1>8, <1>9, <1>10, OwnStep DEF x

LEMMA ReturnKeeps ==
  ASSUME CoreQueueAssumption, CoreInv, NEW t \in Thread, Return(t)
  PROVE  CoreInv'
  <1> DEFINE x == op'[t]
  <1>1. op \in [Thread -> Ops] /\ op[t] \in Ops /\ 0 \in Index
    BY Types, Sizes DEF CoreInv
  <1>2. /\ op' \in [Thread -> Ops] /\ \A u \in Thread : u # t => op'[u] = op[u]
        /\ x \in Ops /\ x = Idle
    BY <1>1 DEF Return, Idle, Ops
  <1>3. UNCHANGED queue /\ calls' = calls /\ op[t].pc = "return"
        /\ monitor' = [monitor EXCEPT ![t[1]] = NULL] /\ \A u \in Above(t) : ~Active(u)
    BY DEF Return, At
  <1>4. /\ monitor' \in [Core -> {NULL} \cup 0 .. QueueLength] /\ monitor'[t[1]] = NULL
        /\ \A c \in Core : c # t[1] => monitor'[c] = monitor[c]
    BY <1>3, Monitors DEF CoreInv
  <1> HIDE DEF x
  <1>5. Sound(op[t]) /\ Knows(op[t])
    BY DEF CoreInv
  <1>6. x.pc = "idle" /\ x.kind = "none" /\ ~x.settled /\ x.item = NULL /\ x.slot = NULL
    BY <1>2 DEF Idle
  <1>7. ~Lags(x) /\ ~Lags(op[t]) /\ Sound(x) /\ Knows(x)
    BY <1>2, <1>3, <1>5, <1>6 DEF Lags, Sound, Knows, Bound, Helps
  <1>8. calls' \in 0 .. MaxCalls
    BY <1>3, Types DEF CoreInv
  <1> QED
    BY <1>2, <1>3, <1>4, <1>6, <1>7, <1>8, OwnStep DEF x

(***************************************************************************)
(* A store: nobody lagged at its end, and it now does.                     *)
(***************************************************************************)
StoreSucceedsAt(t) ==
  /\ At(t, "store") /\ StoreSucceeds(t, Granule(Mask(op[t].index)))
  /\ q' = [q EXCEPT ![Mask(op[t].index)] = op[t].item]
  /\ op' = [op EXCEPT ![t].pc = "linkIndex", ![t].settled = TRUE]
  /\ UNCHANGED <<head, tail, calls>>

LEMMA StoreFacts ==
  ASSUME CoreQueueAssumption, CoreInv, NEW t \in Thread, StoreSucceedsAt(t)
  PROVE  /\ op[t].index \in Index /\ op[t].index = IndexFor(op[t].kind) /\ op[t].pc = "store"
         /\ op[t].kind \in {"enqueue", "dequeue"} /\ ~op[t].settled
         /\ op[t].kind = "enqueue" => Dist < QueueLength /\ op[t].item # NULL
         /\ op[t].kind = "dequeue" => Dist > 0 /\ op[t].item = NULL
         /\ q[Mask(op[t].index)] = op[t].slot
         /\ op[t].slot = NULL <=> op[t].kind = "enqueue"
         /\ ~Lag(op[t].kind)
         /\ op' \in [Thread -> Ops] /\ \A u \in Thread : u # t => op'[u] = op[u]
         /\ op'[t] \in Ops /\ op'[t].pc = "linkIndex" /\ op'[t].kind = op[t].kind
         /\ op'[t].item = op[t].item /\ op'[t].index = op[t].index
         /\ op'[t].slot = op[t].slot /\ op'[t].settled
  <1> DEFINE o == op[t]
             g == Granule(Mask(o.index))
  <1>1. op \in [Thread -> Ops] /\ op[t] \in Ops /\ o.index \in Index
    BY Types DEF CoreInv, Ops
  <1>2. /\ op' \in [Thread -> Ops] /\ \A u \in Thread : u # t => op'[u] = op[u]
        /\ op'[t] \in Ops /\ op'[t].pc = "linkIndex" /\ op'[t].kind = o.kind
        /\ op'[t].item = o.item /\ op'[t].index = o.index
        /\ op'[t].slot = o.slot /\ op'[t].settled
    <2>1. op' = [op EXCEPT ![t].pc = "linkIndex", ![t].settled = TRUE]
      BY DEF StoreSucceedsAt
    <2> QED
      BY <1>1, <2>1 DEF Ops
  <1>3. o.pc = "store" /\ monitor[t[1]] = g /\ \A u \in Above(t) : ~Active(u)
    BY DEF StoreSucceedsAt, At, StoreSucceeds
  <1>4. g # NULL
    BY <1>1, Granules
  <1>5. Reserves(o, g) /\ Sound(o) /\ Knows(o)
    BY <1>3, <1>4 DEF CoreInv, Reserved, Top, Active
  <1>6. o.kind \in {"enqueue", "dequeue"} /\ ~o.settled /\ o.index = IndexFor(o.kind)
        /\ q[Mask(o.index)] = o.slot
    BY <1>1, <1>3, <1>5 DEF Sound, Reserves, Ops
  <1>7. IF o.kind = "enqueue" THEN Dist < QueueLength /\ o.item # NULL /\ o.slot = NULL
        ELSE Dist > 0 /\ o.item = NULL /\ o.slot # NULL
    BY <1>3, <1>5, <1>6 DEF Sound, Knows, Bound
  <1>8. ~Lag(o.kind)
    <2>1. CASE o.kind = "enqueue"
      <3>1. Dist < QueueLength /\ q[Mask(tail)] = NULL
        BY <1>6, <1>7, <2>1 DEF IndexFor
      <3>2. ~Lag("enqueue")
        BY <3>1, AtIndices
      <3> QED
        BY <2>1, <3>2
    <2>2. CASE o.kind = "dequeue"
      <3>1. Dist > 0 /\ q[Mask(head)] # NULL
        BY <1>6, <1>7, <2>2 DEF IndexFor
      <3>2. ~Lag("dequeue")
        BY <3>1, AtIndices
      <3> QED
        BY <2>2, <3>2
    <2> QED
      BY <1>6, <2>1, <2>2
  <1>9. /\ o.kind = "enqueue" => Dist < QueueLength /\ o.item # NULL
        /\ o.kind = "dequeue" => Dist > 0 /\ o.item = NULL
        /\ o.slot = NULL <=> o.kind = "enqueue"
    BY <1>6, <1>7
  <1> QED
    BY <1>1, <1>2, <1>3, <1>6, <1>8, <1>9

LEMMA StoreLags ==
  ASSUME CoreQueueAssumption, CoreInv, NEW t \in Thread, StoreSucceedsAt(t)
  PROVE  /\ \A o : Lags(o)' <=> Lags(o)
         /\ Lags(op'[t]) /\ ~Lags(op[t]) /\ \A k : k = op[t].kind => Lag(k)'
         /\ \A k : k # op[t].kind => (Lag(k)' <=> Lag(k))
  <1>1. head' = head /\ tail' = tail
    BY DEF StoreSucceedsAt
  <1>2. \A o : Lags(o)' <=> Lags(o)
    BY <1>1 DEF Lags, IndexFor
  <1>3. /\ op'[t].kind = op[t].kind /\ op'[t].index = op[t].index /\ op'[t].settled
        /\ op[t].index = IndexFor(op[t].kind) /\ ~op[t].settled
        /\ \A u \in Thread : u # t => op'[u] = op[u]
    BY StoreFacts
  <1>4. Lags(op'[t]) /\ ~Lags(op[t])
    BY <1>3 DEF Lags
  <1>5. \A u \in Thread : Lags(op[u])' <=> Lags(op'[u])
    BY <1>1 DEF Lags, IndexFor
  <1>6. ASSUME NEW k, k = op[t].kind
        PROVE  Lag(k)'
    BY <1>3, <1>4, <1>5, <1>6 DEF Lag
  <1>7. ASSUME NEW k, k # op[t].kind
        PROVE  Lag(k)' <=> Lag(k)
    <2>1. \A u \in Thread : op[u].kind = k /\ Lags(op[u]) <=> op'[u].kind = k /\ Lags(op[u])'
      BY <1>3, <1>5, <1>7
    <2> QED
      BY <2>1 DEF Lag
  <1> QED
    BY <1>2, <1>4, <1>6, <1>7

LEMMA StoreShape ==
  ASSUME CoreQueueAssumption, CoreInv, NEW t \in Thread, StoreSucceedsAt(t)
  PROVE  Shape'
  <1> DEFINE o == op[t]
             n == IF o.kind = "enqueue" THEN Dist ELSE 0
  <1>1. /\ Dist \in 0 .. QueueLength /\ Dist \in Nat /\ Mask(tail) = Mask(head + Dist)
        /\ Mask(head + 0) = Mask(head) /\ QueueLength \in Nat \ {0}
        /\ \A i, j \in 0 .. QueueLength - 1 : Mask(head + i) = Mask(head + j) => i = j
        /\ \A i \in 0 .. QueueLength : Mask(head + i) \in Place
    <2>1. head \in Index /\ tail \in Index /\ Dist <= QueueLength
      BY Types DEF CoreInv, Shape
    <2> QED
      BY <2>1, PlaceFacts, Sizes
  <1>2. head' = head /\ tail' = tail /\ Dist' = Dist
        /\ q' = [q EXCEPT ![Mask(o.index)] = o.item] /\ q \in [Place -> Items \cup {NULL}]
    BY Types DEF StoreSucceedsAt, Dist, CoreInv
  <1>3. /\ o.index = IndexFor(o.kind) /\ o.kind \in {"enqueue", "dequeue"}
        /\ o.kind = "enqueue" => Dist < QueueLength /\ o.item # NULL
        /\ o.kind = "dequeue" => Dist > 0 /\ o.item = NULL /\ ~Lag(o.kind)
        /\ ~Lag(o.kind)
    BY StoreFacts
  <1>4. \A k : IF k = o.kind THEN Lag(k)' ELSE (Lag(k)' <=> Lag(k))
    BY StoreLags
  <1>5. ASSUME NEW i \in 0 .. QueueLength - 1
        PROVE  q[Mask(head + i)] # NULL <=> \/ i < Dist /\ ~(i = 0 /\ Lag("dequeue"))
                                            \/ i = Dist /\ Lag("enqueue")
    BY DEF CoreInv, Shape
  <1> HIDE DEF o, n
  <1>6. n \in 0 .. QueueLength - 1 /\ Mask(o.index) = Mask(head + n)
    BY <1>1, <1>3 DEF n, IndexFor
  <1>7. ASSUME NEW i \in 0 .. QueueLength - 1
        PROVE  q'[Mask(head + i)] # NULL <=> \/ i < Dist /\ ~(i = 0 /\ Lag("dequeue")')
                                             \/ i = Dist /\ Lag("enqueue")'
    <2>1. CASE i = n
      <3>1. q'[Mask(head + i)] = o.item
        BY <1>1, <1>2, <1>6, <2>1
      <3>2. CASE o.kind = "enqueue"
        <4>1. i = Dist /\ Lag("enqueue")' /\ o.item # NULL
          BY <1>3, <1>4, <2>1, <3>2 DEF n
        <4> QED
          BY <3>1, <4>1
      <3>3. CASE o.kind = "dequeue"
        <4>1. i = 0 /\ i # Dist /\ Lag("dequeue")' /\ o.item = NULL
          BY <1>1, <1>3, <1>4, <2>1, <3>3 DEF n
        <4> QED
          BY <3>1, <4>1
      <3> QED
        BY <1>3, <3>2, <3>3
    <2>2. CASE i # n
      <3>1. Mask(head + i) # Mask(head + n) /\ Mask(head + i) \in Place
        BY <1>1, <1>6, <2>2
      <3>2. q'[Mask(head + i)] = q[Mask(head + i)]
        BY <1>2, <1>6, <3>1
      <3>3. CASE o.kind = "enqueue"
        <4>1. i # Dist /\ (Lag("dequeue")' <=> Lag("dequeue"))
          BY <1>4, <2>2, <3>3 DEF n
        <4> QED
          BY <1>5, <3>2, <4>1
      <3>4. CASE o.kind = "dequeue"
        <4>1. i # 0 /\ (Lag("enqueue")' <=> Lag("enqueue"))
          BY <1>4, <2>2, <3>4 DEF n
        <4> QED
          BY <1>5, <3>2, <4>1
      <3> QED
        BY <1>3, <3>3, <3>4
    <2> QED
      BY <2>1, <2>2
  <1>8. \A i : Mask(head + i)' = Mask(head + i)
    BY <1>2 DEF Mask
  <1> QED
    BY <1>1, <1>2, <1>7, <1>8 DEF Shape

LEMMA StoreSucceedsKeeps ==
  ASSUME CoreQueueAssumption, CoreInv, NEW t \in Thread, StoreSucceedsAt(t)
  PROVE  CoreInv'
  <1> DEFINE o == op[t]
             g == Granule(Mask(o.index))
  <1>1. /\ o.index \in Index /\ o.index = IndexFor(o.kind) /\ o.pc = "store"
        /\ o.kind \in {"enqueue", "dequeue"} /\ ~o.settled
        /\ o.kind = "enqueue" => Dist < QueueLength /\ o.item # NULL
        /\ o.kind = "dequeue" => Dist > 0 /\ o.item = NULL
        /\ o.slot = NULL <=> o.kind = "enqueue"
        /\ ~Lag(o.kind)
        /\ op' \in [Thread -> Ops] /\ \A u \in Thread : u # t => op'[u] = op[u]
        /\ op'[t] \in Ops /\ op'[t].pc = "linkIndex" /\ op'[t].kind = o.kind
        /\ op'[t].item = o.item /\ op'[t].index = o.index
        /\ op'[t].slot = o.slot /\ op'[t].settled
    BY StoreFacts
  <1>2. /\ head' = head /\ tail' = tail /\ Dist' = Dist /\ calls' = calls
        /\ q' = [q EXCEPT ![Mask(o.index)] = o.item]
        /\ monitor' = [c \in Core |-> IF c = t[1] \/ monitor[c] = g THEN NULL ELSE monitor[c]]
        /\ \A u \in Above(t) : ~Active(u)
    BY DEF StoreSucceedsAt, StoreSucceeds, At, Dist
  <1>3. /\ q \in [Place -> Items \cup {NULL}] /\ head \in Index /\ tail \in Index
        /\ monitor \in [Core -> {NULL} \cup 0 .. QueueLength] /\ calls \in 0 .. MaxCalls
        /\ o.item \in Items \cup {NULL} /\ Mask(o.index) \in Place
    BY <1>1, Types, Granules DEF CoreInv, Ops
  <1>4. /\ Lags(op'[t]) /\ ~Lags(o) /\ (\A k : k = o.kind => Lag(k)')
        /\ (\A p : Lags(p)' <=> Lags(p))
        /\ \A k : k # o.kind => (Lag(k)' <=> Lag(k))
    BY StoreLags
  <1>5. \A k : Lag(k) => Lag(k)'
    BY <1>4
  <1>6. \A u \in Thread : Sound(op[u]) /\ Knows(op[u])
    BY DEF CoreInv
  <1>7. Shape'
    BY StoreShape
  <1> HIDE DEF o, g
  <1>8. TypeOK'
    <2>1. q' \in [Place -> Items \cup {NULL}]
      BY <1>2, <1>3
    <2>2. monitor' \in [Core -> {NULL} \cup 0 .. QueueLength]
      BY <1>2, <1>3
    <2> QED
      BY <1>1, <1>2, <1>3, <2>1, <2>2 DEF TypeOK, Ops
  <1>9. \A u \in Thread : Lags(op[u])' <=> Lags(op'[u])
    BY <1>2 DEF Lags, IndexFor
  <1>10. \A u \in Thread : u # t /\ Lags(op[u]) => op[u].kind # o.kind
    BY <1>1 DEF Lag
  <1>11. Alone'
    <2> SUFFICES ASSUME NEW a \in Thread, NEW b \in Thread,
                        op'[a].kind = op'[b].kind, Lags(op'[a]), Lags(op'[b])
                 PROVE  a = b
      BY <1>9 DEF Alone
    <2>1. CASE a = t \/ b = t
      BY <1>1, <1>10, <2>1
    <2>2. CASE a # t /\ b # t
      BY <1>1, <2>2 DEF CoreInv, Alone
    <2> QED
      BY <2>1, <2>2
  <1>12. \A u \in Thread : Sound(op'[u])
    <2>1. Sound(op'[t])
      BY <1>1, <1>6 DEF Sound, o
    <2> QED
      BY <1>1, <1>6, <2>1
  <1>13. ASSUME NEW u \in Thread, u # t, Lags(op[u])
         PROVE  Mask(op[u].index) # Mask(o.index)
    <2>1. /\ op[u].kind \in {"enqueue", "dequeue"} /\ op[u].kind # o.kind
          /\ op[u].index = IndexFor(op[u].kind) /\ op[u].pc \in Bound
          /\ IF op[u].kind = "enqueue" THEN Dist < QueueLength ELSE Dist > 0
      <3>1. op[u] \in Ops /\ op[u].settled /\ op[u].index = IndexFor(op[u].kind)
        BY <1>13, Types DEF CoreInv, Lags
      <3>2. op[u].pc \in {"linkIndex", "moveIndex"}
        BY <1>6, <3>1 DEF Sound, Knows
      <3> QED
        BY <1>6, <1>10, <1>13, <3>1, <3>2 DEF Knows, Sound, Bound, Ops
    <2>2. Dist > 0 /\ Dist < QueueLength
      BY <1>1, <2>1
    <2>3. Mask(tail) # Mask(head)
      <3>1. /\ Dist \in Nat /\ Mask(tail) = Mask(head + Dist)
            /\ Mask(head + 0) = Mask(head) /\ QueueLength \in Nat \ {0}
            /\ \A i, j \in 0 .. QueueLength - 1 : Mask(head + i) = Mask(head + j) => i = j
        <4>1. Dist <= QueueLength
          BY DEF CoreInv, Shape
        <4> QED
          BY <1>3, <4>1, PlaceFacts, Sizes
      <3>2. 0 \in 0 .. QueueLength - 1 /\ Dist \in 0 .. QueueLength - 1 /\ Dist # 0
        BY <2>2, <3>1
      <3> QED
        BY <3>1, <3>2
    <2> QED
      BY <1>1, <2>1, <2>3 DEF IndexFor
  <1>14. ASSUME NEW u \in Thread
         PROVE  Knows(op[u])'
    <2>1. CASE u = t
      <3>1. q'[Mask(o.index)] = o.item
        BY <1>2, <1>3
      <3>2. SUFFICES ASSUME op'[t].index = IndexFor(op'[t].kind)
            PROVE  /\ IF op'[t].kind = "enqueue" THEN Dist < QueueLength ELSE Dist > 0
                   /\ \A k : k = op'[t].kind => Lag(k)'
                   /\ q'[Mask(op'[t].index)] = op'[t].item /\ op'[t].pc # "return"
        <4>1. Dist' = Dist /\ tail' = tail /\ head' = head
          BY <1>2
        <4> QED
          BY <2>1, <4>1 DEF Knows, IndexFor, Mask
      <3> QED
        BY <1>1, <1>4, <3>1
    <2>2. CASE u # t
      <3> SUFFICES ASSUME op[u].index = IndexFor(op[u].kind)
          PROVE  /\ op[u].pc \in Bound => IF op[u].kind = "enqueue" THEN Dist < QueueLength
                                          ELSE Dist > 0
                 /\ Helps(op[u]) => \A k : k = op[u].kind => Lag(k)'
                 /\ op[u].settled => q'[Mask(op[u].index)] = op[u].item /\ op[u].pc # "return"
        <4>1. op'[u] = op[u]
          BY <1>1, <2>2
        <4> QED
          BY <1>2, <4>1 DEF Knows, Helps, IndexFor, Mask
      <3>1. /\ op[u].pc \in Bound => IF op[u].kind = "enqueue" THEN Dist < QueueLength
                                     ELSE Dist > 0
            /\ Helps(op[u]) => Lag(op[u].kind)
            /\ op[u].settled => q[Mask(op[u].index)] = op[u].item /\ op[u].pc # "return"
        BY <1>6 DEF Knows
      <3>2. op[u].settled => Mask(op[u].index) # Mask(o.index)
        BY <1>13, <2>2 DEF Lags
      <3>3. Mask(op[u].index) \in Place
        <4>1. op[u].index \in Index
          BY Types DEF CoreInv, Ops
        <4> QED
          BY <4>1, Granules
      <3>4. op[u].settled => q'[Mask(op[u].index)] = q[Mask(op[u].index)]
        BY <1>2, <1>3, <3>2, <3>3
      <3> QED
        BY <1>5, <3>1, <3>4
    <2> QED
      BY <2>1, <2>2
  <1>15. Reserved'
    <2> SUFFICES ASSUME NEW u \in Thread, Top(u)', monitor'[u[1]] # NULL
                 PROVE  Reserves(op[u], monitor[u[1]])'
      BY DEF Reserved
    <2>1. /\ u[1] \in Core /\ u[1] # t[1] /\ monitor'[u[1]] = monitor[u[1]]
          /\ monitor[u[1]] # g
      BY <1>2, Threads
    <2>2. u # t /\ op'[u] = op[u]
      BY <1>1, <2>1
    <2>3. Top(u)
      <3>1. \A v \in {u} \cup Above(u) : v # t /\ v \in Thread
        BY <2>1, Threads DEF Above
      <3> QED
        BY <1>1, <3>1 DEF Top, Active
    <2>4. Reserves(op[u], monitor[u[1]])
      BY <2>1, <2>3 DEF CoreInv, Reserved
    <2>5. op[u].pc \in {"check", "store"} => q'[Mask(op[u].index)] = q[Mask(op[u].index)]
      <3> SUFFICES ASSUME op[u].pc \in {"check", "store"}
                   PROVE  q'[Mask(op[u].index)] = q[Mask(op[u].index)]
        OBVIOUS
      <3>1. Mask(op[u].index) # Mask(o.index)
        BY <2>1, <2>4 DEF Reserves, g
      <3>2. Mask(op[u].index) \in Place
        <4>1. op[u].index \in Index
          BY Types DEF CoreInv, Ops
        <4> QED
          BY <4>1, Granules
      <3> QED
        BY <1>2, <1>3, <3>1, <3>2
    <2> QED
      BY <1>2, <2>1, <2>2, <2>4, <2>5 DEF Reserves, IndexFor, Mask, Granule, IndexGranule
  <1>16. Counted'
    <2>1. Unmoved' \subseteq Unmoved
      <3> SUFFICES ASSUME NEW u \in Unmoved'
                   PROVE  u \in Unmoved
        OBVIOUS
      <3>1. u \in Thread
        BY DEF Unmoved
      <3>2. CASE u = t
        BY <1>1, <3>1, <3>2 DEF Unmoved, Active, o
      <3>3. CASE u # t
        BY <1>1, <1>9, <3>1, <3>3 DEF Unmoved, Active
      <3> QED
        BY <3>2, <3>3
    <2>2. /\ Cardinality(Unmoved) \in Nat /\ Cardinality(Unmoved') \in Nat
          /\ Cardinality(Unmoved') <= Cardinality(Unmoved) /\ Cardinality(Unmoved) <= calls
          /\ calls \in Nat
      BY <1>3, <2>1, UnmovedFacts, Sizes DEF CoreInv, Counted
    <2>3. ASSUME NEW u \in Thread, op'[u].pc \notin {"idle", "read"}
          PROVE  Behind(op[u])' + Cardinality(Unmoved') <= calls'
      <3>1. /\ op[u].pc \notin {"idle", "read"} /\ op'[u].kind = op[u].kind
            /\ op'[u].index = op[u].index
        BY <1>1, <2>3 DEF o
      <3>2. Behind(op[u])' = Behind(op[u])
        BY <1>2, <3>1 DEF Behind, IndexFor
      <3>3. Behind(op[u]) \in Nat
        <4>1. op[u].index \in Index /\ IndexFor(op[u].kind) \in Index
          BY <1>3, Types DEF CoreInv, IndexFor, Ops
        <4> QED
          BY <4>1, ApartFacts DEF Behind, Apart
      <3>4. Behind(op[u]) + Cardinality(Unmoved) <= calls
        BY <3>1 DEF CoreInv, Counted
      <3> QED
        BY <1>2, <2>2, <3>2, <3>3, <3>4
    <2> QED
      BY <1>2, <2>2, <2>3 DEF Counted
  <1> QED
    BY <1>7, <1>8, <1>11, <1>12, <1>14, <1>15, <1>16 DEF CoreInv, Sound

(***************************************************************************)
(* An index moves on: an operation lagged at its end, and none does now.   *)
(***************************************************************************)
MoveSucceedsAt(t) ==
  /\ At(t, "moveIndex") /\ StoreSucceeds(t, IndexGranule)
  /\ head' = IF op[t].kind = "dequeue" THEN Following(op[t].index) ELSE head
  /\ tail' = IF op[t].kind = "enqueue" THEN Following(op[t].index) ELSE tail
  /\ Goto(t, IF op[t].settled THEN "return" ELSE "read")
  /\ UNCHANGED <<q, calls>>

(* Where an operation lags, there is something to put in or to take out.   *)
LEMMA LagBounds ==
  ASSUME CoreQueueAssumption, CoreInv
  PROVE  /\ \A u \in Thread : Lags(op[u]) =>
              op[u].pc \in {"linkIndex", "moveIndex"} /\ op[u].kind \in {"enqueue", "dequeue"}
         /\ Lag("enqueue") => Dist < QueueLength
         /\ Lag("dequeue") => Dist > 0
  <1>1. ASSUME NEW u \in Thread, Lags(op[u])
        PROVE  /\ op[u].pc \in {"linkIndex", "moveIndex"}
               /\ op[u].kind \in {"enqueue", "dequeue"}
               /\ IF op[u].kind = "enqueue" THEN Dist < QueueLength ELSE Dist > 0
    <2>1. op[u] \in Ops /\ op[u].settled /\ op[u].index = IndexFor(op[u].kind)
      BY <1>1, Types DEF CoreInv, Lags
    <2>2. op[u].pc \in {"linkIndex", "moveIndex"}
      BY <2>1 DEF CoreInv, Sound, Knows
    <2> QED
      BY <2>1, <2>2 DEF CoreInv, Knows, Sound, Bound, Ops
  <1> QED
    BY <1>1 DEF Lag

LEMMA MoveFacts ==
  ASSUME CoreQueueAssumption, CoreInv, NEW t \in Thread, MoveSucceedsAt(t)
  PROVE  /\ op[t].index \in Index /\ op[t].index = IndexFor(op[t].kind)
         /\ op[t].pc = "moveIndex" /\ op[t].kind \in {"enqueue", "dequeue"} /\ Lag(op[t].kind)
         /\ op' \in [Thread -> Ops] /\ \A u \in Thread : u # t => op'[u] = op[u]
         /\ op'[t] \in Ops /\ op'[t].pc = (IF op[t].settled THEN "return" ELSE "read")
         /\ op'[t].kind = op[t].kind /\ op'[t].item = op[t].item
         /\ op'[t].index = op[t].index /\ op'[t].slot = op[t].slot
         /\ (op'[t].settled <=> op[t].settled)
         /\ Dist \in 0 .. QueueLength /\ QueueLength \in Nat \ {0} /\ IndexLimit \in Nat \ {0}
         /\ head \in Index /\ tail \in Index
         /\ op[t].kind = "enqueue" => tail' = Following(tail) /\ head' = head /\ Dist' = Dist + 1
                                      /\ Dist < QueueLength
         /\ op[t].kind = "dequeue" => head' = Following(head) /\ tail' = tail /\ Dist' = Dist - 1
                                      /\ Dist > 0
  <1> DEFINE o == op[t]
  <1>1. op \in [Thread -> Ops] /\ op[t] \in Ops /\ o.index \in Index
    BY Types DEF CoreInv, Ops
  <1>2. /\ op' \in [Thread -> Ops] /\ \A u \in Thread : u # t => op'[u] = op[u]
        /\ op'[t] \in Ops /\ op'[t].pc = (IF o.settled THEN "return" ELSE "read")
        /\ op'[t].kind = o.kind /\ op'[t].item = o.item
        /\ op'[t].index = o.index /\ op'[t].slot = o.slot /\ (op'[t].settled <=> o.settled)
    BY <1>1 DEF MoveSucceedsAt, Goto, Ops
  <1>3. o.pc = "moveIndex" /\ monitor[t[1]] = IndexGranule /\ \A u \in Above(t) : ~Active(u)
    BY DEF MoveSucceedsAt, At, StoreSucceeds
  <1>4. IndexGranule # NULL
    BY <1>1, Granules
  <1>5. Reserves(o, IndexGranule) /\ Sound(o) /\ Knows(o)
    BY <1>3, <1>4 DEF CoreInv, Reserved, Top, Active
  <1>6. o.kind \in {"enqueue", "dequeue"} /\ o.index = IndexFor(o.kind) /\ Lag(o.kind)
        /\ IF o.kind = "enqueue" THEN Dist < QueueLength ELSE Dist > 0
    BY <1>1, <1>3, <1>5 DEF Sound, Reserves, Knows, Helps, Bound, Ops
  <1>7. /\ Dist \in 0 .. QueueLength /\ QueueLength \in Nat \ {0} /\ IndexLimit \in Nat \ {0}
        /\ head \in Index /\ tail \in Index /\ QueueLength < IndexLimit
    BY AtIndices, Sizes, Types DEF CoreInv
  <1> HIDE DEF o
  <1>8. o.kind = "enqueue" => tail' = Following(tail) /\ head' = head /\ Dist' = Dist + 1
                              /\ Dist < QueueLength
    <2> SUFFICES ASSUME o.kind = "enqueue"
                 PROVE  tail' = Following(tail) /\ head' = head /\ Dist' = Dist + 1
                        /\ Dist < QueueLength
      OBVIOUS
    <2>1. tail' = Following(tail) /\ head' = head /\ Dist < QueueLength
      BY <1>6 DEF MoveSucceedsAt, IndexFor, o
    <2>2. Apart(Following(tail), head) = IF Apart(tail, head) = IndexLimit - 1 THEN 0
                                         ELSE Apart(tail, head) + 1
      BY <1>7, ApartFacts
    <2>3. Dist = Apart(tail, head) /\ Dist' = Apart(Following(tail), head)
      BY <2>1 DEF Dist, Apart
    <2>4. Dist # IndexLimit - 1
      BY <1>7, <2>1
    <2> QED
      BY <2>1, <2>2, <2>3, <2>4
  <1>9. o.kind = "dequeue" => head' = Following(head) /\ tail' = tail /\ Dist' = Dist - 1
                              /\ Dist > 0
    <2> SUFFICES ASSUME o.kind = "dequeue"
                 PROVE  head' = Following(head) /\ tail' = tail /\ Dist' = Dist - 1 /\ Dist > 0
      OBVIOUS
    <2>1. head' = Following(head) /\ tail' = tail /\ Dist > 0
      BY <1>6 DEF MoveSucceedsAt, IndexFor, o
    <2>2. /\ Apart(tail, Following(head)) = IF tail = head THEN IndexLimit - 1
                                            ELSE Apart(tail, head) - 1
          /\ Apart(tail, head) = 0 <=> tail = head
      BY <1>7, ApartFacts
    <2>3. Dist = Apart(tail, head) /\ Dist' = Apart(tail, Following(head))
      BY <2>1 DEF Dist, Apart
    <2>4. tail # head
      BY <2>1, <2>2, <2>3
    <2> QED
      BY <2>1, <2>2, <2>3, <2>4
  <1> QED
    BY <1>1, <1>2, <1>3, <1>6, <1>7, <1>8, <1>9 DEF o

(* No operation awaits the index that comes next.                          *)
LEMMA Fresh ==
  ASSUME CoreQueueAssumption, CoreInv, NEW u \in Thread, op[u].pc \notin {"idle", "read"}
  PROVE  op[u].index # Following(IndexFor(op[u].kind))
  <1> DEFINE a == IndexFor(op[u].kind)
  <1>1. a \in Index /\ op[u].index \in Index /\ calls \in 0 .. MaxCalls
    BY Types DEF CoreInv, IndexFor, Ops
  <1>2. Behind(op[u]) + Cardinality(Unmoved) <= calls /\ Cardinality(Unmoved) \in Nat
    BY UnmovedFacts DEF CoreInv, Counted
  <1>3. Behind(op[u]) = Apart(a, op[u].index)
    BY DEF Behind, Apart
  <1> HIDE DEF a
  <1>4. Apart(a, Following(a)) = IndexLimit - 1
    BY <1>1, ApartFacts
  <1>5. MaxCalls \in Nat /\ IndexLimit \in Nat /\ IndexLimit - 1 > MaxCalls
    BY Sizes
  <1>6. Apart(a, op[u].index) # IndexLimit - 1
    BY <1>1, <1>2, <1>3, <1>5
  <1> QED
    BY <1>4, <1>6 DEF a

LEMMA MoveLags ==
  ASSUME CoreQueueAssumption, CoreInv, NEW t \in Thread, MoveSucceedsAt(t)
  PROVE  /\ \A u \in Thread : Lags(op[u])' <=> op[u].kind # op[t].kind /\ Lags(op[u])
         /\ \A k \in {"enqueue", "dequeue"} :
              Lag(k)' <=> k # op[t].kind /\ Lag(k)
         /\ \A u \in Thread : op'[u].kind = op[u].kind /\ op'[u].index = op[u].index
                              /\ (op'[u].settled <=> op[u].settled)
  <1>1. \A u \in Thread : op'[u].kind = op[u].kind /\ op'[u].index = op[u].index
                          /\ (op'[u].settled <=> op[u].settled)
    BY MoveFacts
  <1>2. ASSUME NEW u \in Thread
        PROVE  Lags(op[u])' <=> op[u].kind # op[t].kind /\ Lags(op[u])
    <2>1. Lags(op[u])' <=> op[u].settled /\ op[u].index = IndexFor(op[u].kind)'
      BY <1>1 DEF Lags, IndexFor
    <2>2. CASE ~op[u].settled
      BY <2>1, <2>2 DEF Lags
    <2>3. CASE op[u].settled /\ op[u].kind = op[t].kind
      <3>1. op[u].pc \notin {"idle", "read"}
        BY <2>3 DEF CoreInv, Sound
      <3>2. op[u].index # Following(IndexFor(op[u].kind))
        BY <3>1, Fresh
      <3>3. IndexFor(op[u].kind)' = Following(IndexFor(op[u].kind))
        BY <1>1, <2>3, MoveFacts DEF IndexFor
      <3> QED
        BY <2>1, <2>3, <3>2, <3>3
    <2>4. CASE op[u].settled /\ op[u].kind # op[t].kind
      <3>1. op[u].kind \in {"enqueue", "dequeue"}
        BY <2>4, Types DEF CoreInv, Sound, Ops
      <3>2. IndexFor(op[u].kind)' = IndexFor(op[u].kind)
        BY <1>1, <2>4, <3>1, MoveFacts DEF IndexFor
      <3> QED
        BY <2>1, <2>4, <3>2 DEF Lags
    <2> QED
      BY <2>2, <2>3, <2>4
  <1>3. ASSUME NEW k \in {"enqueue", "dequeue"}
        PROVE  Lag(k)' <=> k # op[t].kind /\ Lag(k)
    BY <1>1, <1>2 DEF Lag
  <1> QED
    BY <1>1, <1>2, <1>3

LEMMA MoveShape ==
  ASSUME CoreQueueAssumption, CoreInv, NEW t \in Thread, MoveSucceedsAt(t)
  PROVE  Shape'
  <1>1. /\ Dist \in 0 .. QueueLength /\ Dist \in Nat /\ QueueLength \in Nat \ {0}
        /\ Mask(head + QueueLength) = Mask(head) /\ Mask(head + 0) = Mask(head)
        /\ \A i \in 0 .. QueueLength - 1 : Mask(Following(head) + i) = Mask(head + (i + 1))
    <2>1. head \in Index /\ tail \in Index /\ Dist <= QueueLength
      BY Types DEF CoreInv, Shape
    <2> QED
      BY <2>1, PlaceFacts, Sizes
  <1>2. ASSUME NEW i \in 0 .. QueueLength - 1
        PROVE  q[Mask(head + i)] # NULL <=> \/ i < Dist /\ ~(i = 0 /\ Lag("dequeue"))
                                            \/ i = Dist /\ Lag("enqueue")
    BY DEF CoreInv, Shape
  <1>3. q' = q
    BY DEF MoveSucceedsAt
  <1>4. /\ Lag("enqueue") => Dist < QueueLength
        /\ Lag("dequeue") => Dist > 0
    BY LagBounds
  <1>5. CASE op[t].kind = "enqueue"
    <2>1. Lag("enqueue") /\ ~Lag("enqueue")' /\ (Lag("dequeue")' <=> Lag("dequeue"))
      BY <1>5, MoveFacts, MoveLags
    <2>2. head' = head /\ Dist' = Dist + 1 /\ Dist < QueueLength
      BY <1>5, MoveFacts
    <2>3. ASSUME NEW i \in 0 .. QueueLength - 1
          PROVE  q'[Mask(head' + i)] # NULL <=> \/ i < Dist' /\ ~(i = 0 /\ Lag("dequeue")')
                                                \/ i = Dist' /\ Lag("enqueue")'
      <3>1. i = 0 /\ Lag("dequeue") => i # Dist
        BY <1>4
      <3>2. i < Dist + 1 <=> i < Dist \/ i = Dist
        BY <1>1
      <3> QED
        BY <1>2, <1>3, <2>1, <2>2, <3>1, <3>2
    <2>4. Dist' <= QueueLength
      BY <1>1, <2>2
    <2> QED
      BY <2>3, <2>4 DEF Shape, Mask
  <1>6. CASE op[t].kind = "dequeue"
    <2>1. Lag("dequeue") /\ ~Lag("dequeue")' /\ (Lag("enqueue")' <=> Lag("enqueue"))
      BY <1>6, MoveFacts, MoveLags
    <2>2. head' = Following(head) /\ Dist' = Dist - 1 /\ Dist > 0
      BY <1>6, MoveFacts
    <2>3. ASSUME NEW i \in 0 .. QueueLength - 1
          PROVE  q'[Mask(head' + i)] # NULL <=> \/ i < Dist' /\ ~(i = 0 /\ Lag("dequeue")')
                                                \/ i = Dist' /\ Lag("enqueue")'
      <3>1. q'[Mask(head' + i)] = q[Mask(head + (i + 1))]
        BY <1>1, <1>3, <2>2
      <3>2. CASE i + 1 \in 0 .. QueueLength - 1
        <4>1. q[Mask(head + (i + 1))] # NULL <=> i + 1 < Dist \/ (i + 1 = Dist /\ Lag("enqueue"))
          BY <1>2, <3>2
        <4>2. (i < Dist - 1 <=> i + 1 < Dist) /\ (i = Dist - 1 <=> i + 1 = Dist)
          BY <1>1
        <4> QED
          BY <2>1, <2>2, <3>1, <4>1, <4>2
      <3>3. CASE i + 1 \notin 0 .. QueueLength - 1
        <4>1. i + 1 = QueueLength
          BY <1>1, <3>3
        <4>2. q[Mask(head)] = NULL
          BY <2>1, <2>2, AtIndices
        <4>3. ~(i < Dist - 1) /\ (i = Dist - 1 => Dist = QueueLength)
          BY <1>1, <4>1
        <4>4. Lag("enqueue") => Dist # QueueLength
          BY <1>1, <1>4
        <4>5. q[Mask(head + (i + 1))] = NULL
          BY <1>1, <4>1, <4>2
        <4> QED
          BY <2>1, <2>2, <3>1, <4>3, <4>4, <4>5
      <3> QED
        BY <3>2, <3>3
    <2>4. Dist' <= QueueLength
      BY <1>1, <2>2
    <2> QED
      BY <2>3, <2>4 DEF Shape, Mask
  <1> QED
    BY <1>5, <1>6, MoveFacts

LEMMA MoveSucceedsKeeps ==
  ASSUME CoreQueueAssumption, CoreInv, NEW t \in Thread, MoveSucceedsAt(t)
  PROVE  CoreInv'
  <1> DEFINE o == op[t]
  <1>1. /\ o.index \in Index /\ o.index = IndexFor(o.kind) /\ o.pc = "moveIndex"
        /\ o.kind \in {"enqueue", "dequeue"} /\ Lag(o.kind)
        /\ op' \in [Thread -> Ops] /\ \A u \in Thread : u # t => op'[u] = op[u]
        /\ op'[t] \in Ops /\ op'[t].pc = (IF o.settled THEN "return" ELSE "read")
        /\ op'[t].kind = o.kind /\ op'[t].item = o.item /\ op'[t].index = o.index
        /\ op'[t].slot = o.slot /\ (op'[t].settled <=> o.settled)
        /\ Dist \in 0 .. QueueLength /\ QueueLength \in Nat \ {0} /\ IndexLimit \in Nat \ {0}
        /\ head \in Index /\ tail \in Index
        /\ o.kind = "enqueue" => tail' = Following(tail) /\ head' = head /\ Dist' = Dist + 1
                                 /\ Dist < QueueLength
        /\ o.kind = "dequeue" => head' = Following(head) /\ tail' = tail /\ Dist' = Dist - 1
                                 /\ Dist > 0
    BY MoveFacts
  <1>2. /\ q' = q /\ calls' = calls /\ monitor[t[1]] = IndexGranule
        /\ monitor' = [c \in Core |-> IF c = t[1] \/ monitor[c] = IndexGranule THEN NULL
                                      ELSE monitor[c]]
        /\ \A u \in Above(t) : ~Active(u)
    BY DEF MoveSucceedsAt, StoreSucceeds, At
  <1>3. /\ q \in [Place -> Items \cup {NULL}] /\ calls \in 0 .. MaxCalls
        /\ monitor \in [Core -> {NULL} \cup 0 .. QueueLength]
    BY Types DEF CoreInv
  <1>4. /\ \A u \in Thread : Lags(op[u])' <=> op[u].kind # o.kind /\ Lags(op[u])
        /\ \A k \in {"enqueue", "dequeue"} : Lag(k)' <=> k # o.kind /\ Lag(k)
        /\ \A u \in Thread : op'[u].kind = op[u].kind /\ op'[u].index = op[u].index
                             /\ (op'[u].settled <=> op[u].settled)
    BY MoveLags
  <1>5. \A u \in Thread : Sound(op[u]) /\ Knows(op[u])
    BY DEF CoreInv
  <1>6. Shape'
    BY MoveShape
  <1> HIDE DEF o
  <1>7. TypeOK'
    <2>1. monitor' \in [Core -> {NULL} \cup 0 .. QueueLength]
      BY <1>2, <1>3
    <2>2. Following(tail) \in Index /\ Following(head) \in Index
      BY <1>1, FollowingFacts
    <2>3. tail' \in Index /\ head' \in Index
      BY <1>1, <2>2
    <2> QED
      BY <1>1, <1>2, <1>3, <2>1, <2>3 DEF TypeOK, Ops
  <1>8. Alone'
    <2> SUFFICES ASSUME NEW a \in Thread, NEW b \in Thread,
                        op'[a].kind = op'[b].kind, Lags(op[a])', Lags(op[b])'
                 PROVE  a = b
      BY DEF Alone
    <2>1. op[a].kind = op[b].kind /\ Lags(op[a]) /\ Lags(op[b])
      BY <1>4
    <2> QED
      BY <2>1 DEF CoreInv, Alone
  <1>9. \A u \in Thread : Sound(op'[u])
    <2>1. Sound(o)
      BY <1>5 DEF o
    <2>2. Sound(op'[t])
      BY <1>1, <2>1 DEF Sound
    <2> QED
      BY <1>1, <1>5, <2>2
  <1>10. \A u \in Thread : op[u].kind \notin {"enqueue", "dequeue"} => op[u].pc = "idle"
    BY <1>5, Types DEF Sound, CoreInv, Ops
  <1>11. \A u \in Thread : op[u].kind = o.kind /\ op[u].pc \notin {"idle", "read"} =>
                             op[u].index # IndexFor(op[u].kind)'
    <2> SUFFICES ASSUME NEW u \in Thread, op[u].kind = o.kind, op[u].pc \notin {"idle", "read"}
                 PROVE  op[u].index # IndexFor(op[u].kind)'
      OBVIOUS
    <2>1. op[u].index # Following(IndexFor(op[u].kind))
      BY Fresh
    <2>2. op'[u].kind = op[u].kind
      BY <1>4
    <2> QED
      BY <1>1, <2>1, <2>2 DEF IndexFor
  <1>12. \A u \in Thread : op[u].kind # o.kind /\ op[u].pc # "idle" =>
                             IndexFor(op[u].kind)' = IndexFor(op[u].kind)
    <2> SUFFICES ASSUME NEW u \in Thread, op[u].kind # o.kind, op[u].pc # "idle"
                 PROVE  IndexFor(op[u].kind)' = IndexFor(op[u].kind)
      OBVIOUS
    <2>1. op'[u].kind = op[u].kind /\ op[u].kind \in {"enqueue", "dequeue"}
      BY <1>4, <1>10
    <2> QED
      BY <1>1, <2>1 DEF IndexFor
  <1>13. ASSUME NEW u \in Thread
         PROVE  Knows(op[u])'
    <2>1. CASE u = t
      <3>1. op[t].index # IndexFor(op[t].kind)'
        BY <1>1, <1>11 DEF o
      <3>2. op'[t].index = op[t].index
        BY <1>4
      <3> QED
        BY <2>1, <3>1, <3>2 DEF Knows
    <2>2. CASE u # t /\ op[u].pc \in {"idle", "read"}
      <3>1. op'[u].pc \in {"idle", "read"} /\ ~op'[u].settled
        BY <1>1, <1>5, <2>2 DEF Sound
      <3> QED
        BY <3>1 DEF Knows, Bound, Helps
    <2>3. CASE u # t /\ op[u].pc \notin {"idle", "read"} /\ op[u].kind = o.kind
      <3>1. op[u].index # IndexFor(op[u].kind)' /\ op'[u].index = op[u].index
        BY <1>4, <1>11, <2>3
      <3> QED
        BY <3>1 DEF Knows
    <2>4. CASE u # t /\ op[u].pc \notin {"idle", "read"} /\ op[u].kind # o.kind
      <3>1. op'[u] = op[u] /\ IndexFor(op[u].kind)' = IndexFor(op[u].kind)
            /\ op[u].kind \in {"enqueue", "dequeue"}
        BY <1>1, <1>10, <1>12, <2>4
      <3> SUFFICES ASSUME op[u].index = IndexFor(op[u].kind)
          PROVE  /\ op[u].pc \in Bound => IF op[u].kind = "enqueue" THEN Dist' < QueueLength
                                          ELSE Dist' > 0
                 /\ Helps(op[u]) => \A k : k = op'[u].kind => Lag(k)'
                 /\ op[u].settled => q'[Mask(op[u].index)] = op[u].item /\ op[u].pc # "return"
        BY <3>1 DEF Knows, Helps, Mask
      <3>2. /\ op[u].pc \in Bound => IF op[u].kind = "enqueue" THEN Dist < QueueLength
                                     ELSE Dist > 0
            /\ Helps(op[u]) => Lag(op[u].kind)
            /\ op[u].settled => q[Mask(op[u].index)] = op[u].item /\ op[u].pc # "return"
        BY <1>5 DEF Knows
      <3>3. op[u].pc \in Bound => IF op[u].kind = "enqueue" THEN Dist' < QueueLength
                                  ELSE Dist' > 0
        <4>1. CASE op[u].kind = "enqueue"
          <5>1. Dist' = Dist - 1
            BY <1>1, <2>4, <4>1
          <5> QED
            BY <1>1, <3>2, <4>1, <5>1
        <4>2. CASE op[u].kind = "dequeue"
          <5>1. Dist' = Dist + 1
            BY <1>1, <2>4, <4>2
          <5> QED
            BY <1>1, <3>2, <4>2, <5>1
        <4> QED
          BY <3>1, <4>1, <4>2
      <3>4. Helps(op[u]) => \A k : k = op'[u].kind => Lag(k)'
        BY <1>4, <2>4, <3>1, <3>2
      <3> QED
        BY <1>2, <3>2, <3>3, <3>4
    <2> QED
      BY <2>1, <2>2, <2>3, <2>4
  <1>14. Reserved'
    <2> SUFFICES ASSUME NEW u \in Thread, Top(u)', monitor'[u[1]] # NULL
                 PROVE  Reserves(op[u], monitor[u[1]])'
      BY DEF Reserved
    <2>1. /\ u[1] \in Core /\ u[1] # t[1] /\ monitor'[u[1]] = monitor[u[1]]
          /\ monitor[u[1]] # IndexGranule
      BY <1>2, Threads
    <2>2. u # t /\ op'[u] = op[u]
      BY <1>1, <2>1
    <2>3. Top(u)
      <3>1. \A v \in {u} \cup Above(u) : v # t /\ v \in Thread
        BY <2>1, Threads DEF Above
      <3> QED
        BY <1>1, <3>1 DEF Top, Active
    <2>4. Reserves(op[u], monitor[u[1]])
      BY <2>1, <2>3 DEF CoreInv, Reserved
    <2>5. op[u].pc = "store" => op[u].kind # o.kind
      <3> SUFFICES ASSUME op[u].pc = "store", op[u].kind = o.kind
                   PROVE  FALSE
        OBVIOUS
      <3>1. op[u].index = IndexFor(o.kind) /\ q[Mask(op[u].index)] = op[u].slot
        BY <2>4 DEF Reserves
      <3>2. /\ Sound(op[u])
            /\ IF o.kind = "enqueue" THEN Dist < QueueLength ELSE Dist > 0
        BY <1>5, <3>1 DEF Knows, Bound
      <3>3. CASE o.kind = "enqueue"
        <4>1. op[u].slot = NULL
          BY <3>2, <3>3 DEF Sound
        <4>2. q[Mask(tail)] # NULL
          BY <1>1, <3>2, <3>3, AtIndices
        <4> QED
          BY <3>1, <3>3, <4>1, <4>2 DEF IndexFor
      <3>4. CASE o.kind = "dequeue"
        <4>1. op[u].slot # NULL
          BY <3>2, <3>4 DEF Sound
        <4>2. q[Mask(head)] = NULL
          BY <1>1, <3>2, <3>4, AtIndices
        <4> QED
          BY <3>1, <3>4, <4>1, <4>2 DEF IndexFor
      <3> QED
        BY <1>1, <3>3, <3>4
    <2>6. op[u].pc = "store" => IndexFor(op[u].kind)' = IndexFor(op[u].kind)
      BY <1>12, <2>5
    <2>7. Mask(op[u].index)' = Mask(op[u].index) /\ IndexGranule' = IndexGranule
          /\ Granule(Mask(op[u].index))' = Granule(Mask(op[u].index))
      BY <2>2 DEF Mask, Granule, IndexGranule
    <2> QED
      BY <1>2, <2>1, <2>2, <2>4, <2>6, <2>7 DEF Reserves
  <1>15. Counted'
    <2>1. PICK v \in Thread : op[v].kind = o.kind /\ Lags(op[v])
      BY <1>1 DEF Lag
    <2>2. v \in Unmoved
      <3>1. op[v].pc # "idle"
        BY <2>1, LagBounds
      <3> QED
        BY <2>1, <3>1 DEF Unmoved, Active
    <2>3. Unmoved' \subseteq Unmoved \ {v}
      <3> SUFFICES ASSUME NEW u \in Unmoved'
                   PROVE  u \in Unmoved /\ u # v
        OBVIOUS
      <3>1. u \in Thread /\ op'[u].pc # "idle" /\ (op'[u].settled => Lags(op[u])')
        BY DEF Unmoved, Active
      <3>2. op[u].settled => op[u].kind # o.kind /\ Lags(op[u])
        BY <1>4, <3>1
      <3>3. u # v
        BY <2>1, <3>2 DEF Lags
      <3>4. op[u].pc # "idle"
        BY <1>1, <3>1 DEF o
      <3> QED
        BY <3>1, <3>2, <3>3, <3>4 DEF Unmoved, Active
    <2>4. /\ Cardinality(Unmoved) \in Nat /\ Cardinality(Unmoved') \in Nat
          /\ Cardinality(Unmoved') + 1 <= Cardinality(Unmoved) /\ Cardinality(Unmoved) <= calls
          /\ calls \in Nat
      <3>1. Cardinality(Unmoved') \in Nat /\ Cardinality(Unmoved') + 1 <= Cardinality(Unmoved)
        BY <2>2, <2>3, UnmovedFacts
      <3> QED
        BY <1>3, <3>1, UnmovedFacts, Sizes DEF CoreInv, Counted
    <2>5. ASSUME NEW u \in Thread, op'[u].pc \notin {"idle", "read"}
          PROVE  Behind(op[u])' + Cardinality(Unmoved') <= calls'
      <3>1. /\ op[u].pc \notin {"idle", "read"} /\ op'[u].kind = op[u].kind
            /\ op'[u].index = op[u].index
        BY <1>1, <1>4, <2>5 DEF o
      <3>2. Behind(op[u]) + Cardinality(Unmoved) <= calls
        BY <3>1 DEF CoreInv, Counted
      <3> DEFINE a == IndexFor(op[u].kind)
                 b == op[u].index
      <3>3. a \in Index /\ b \in Index
        BY <1>1, Types DEF CoreInv, IndexFor, Ops
      <3>4. Behind(op[u]) = Apart(a, b)
        BY DEF Behind, Apart
      <3>5. CASE op[u].kind = o.kind
        <4>1. Behind(op[u])' = Apart(Following(a), b)
          BY <1>1, <3>1, <3>5 DEF Behind, IndexFor, Apart
        <4> HIDE DEF a, b
        <4>2. /\ Apart(Following(a), b) = IF Apart(a, b) = IndexLimit - 1 THEN 0
                                          ELSE Apart(a, b) + 1
              /\ Apart(a, b) \in 0 .. IndexLimit - 1
          BY <3>3, ApartFacts
        <4> QED
          BY <1>1, <1>2, <2>4, <3>2, <3>4, <4>1, <4>2
      <3>6. CASE op[u].kind # o.kind
        <4>1. Behind(op[u])' = Apart(a, b)
          BY <1>12, <3>1, <3>6 DEF Behind, Apart
        <4> HIDE DEF a, b
        <4>2. Apart(a, b) \in 0 .. IndexLimit - 1
          BY <3>3, ApartFacts
        <4> QED
          BY <1>1, <1>2, <2>4, <3>2, <3>4, <4>1, <4>2
      <3> QED
        BY <3>5, <3>6
    <2> QED
      BY <1>2, <2>4, <2>5 DEF Counted
  <1> QED
    BY <1>6, <1>7, <1>8, <1>9, <1>13, <1>14, <1>15 DEF CoreInv, Sound

(***************************************************************************)
(* The invariant.                                                          *)
(***************************************************************************)
LEMMA CoreInit == CoreQueueAssumption /\ Init => CoreInv
  <1> SUFFICES ASSUME CoreQueueAssumption, Init
               PROVE  CoreInv
    OBVIOUS
  <1>1. /\ QueueLength \in Nat \ {0} /\ IndexLimit \in Nat \ {0} /\ MaxCalls \in Nat
        /\ QueueLength < IndexLimit /\ Index = 0 .. IndexLimit - 1
        /\ Place = 0 .. QueueLength - 1
    BY Sizes
  <1>2. head \in Index /\ head \in Nat /\ head < IndexLimit
    BY <1>1 DEF Init, CoreQueueAssumption
  <1>3. NULL \notin Items /\ NULL \notin 0 .. QueueLength
    BY DEF CoreQueueAssumption
  <1>4. PICK held \in UNION {[1 .. n -> Items] : n \in 0 .. QueueLength} :
          /\ tail = (head + Len(held)) % IndexLimit
          /\ q = [p \in Place |->
                   LET i == 1 + (((p + QueueLength) - Mask(head)) % QueueLength)
                   IN  IF i <= Len(held) THEN held[i] ELSE NULL]
    BY DEF Init, AtRest
  <1>5. PICK n \in 0 .. QueueLength : held \in [1 .. n -> Items]
    BY <1>4
  <1>6. n \in Nat /\ Len(held) = n
    <2>1. n \in Nat
      BY <1>1
    <2> QED
      BY <1>5, <2>1
  <1>7. tail = IF head + n < IndexLimit THEN head + n ELSE (head + n) - IndexLimit
    <2>1. head % IndexLimit = head
      <3>1. (IndexLimit * 0 + head) % IndexLimit = head /\ IndexLimit * 0 + head = head
        <4>1. head \in 0 .. IndexLimit - 1 /\ 0 \in Nat
          BY <1>1, <1>2
        <4>2. (IndexLimit * 0 + head) % IndexLimit = head
          BY <1>1, <4>1, Remainder
        <4> QED
          BY <1>1, <1>2, <4>2
      <3> QED
        BY <3>1
    <2>2. n \in 0 .. IndexLimit
      BY <1>1, <1>6
    <2>3. (head + n) % IndexLimit = IF (head % IndexLimit) + n < IndexLimit
                                    THEN (head % IndexLimit) + n
                                    ELSE ((head % IndexLimit) + n) - IndexLimit
      BY <1>1, <1>2, <2>2, Offset
    <2> QED
      BY <1>4, <1>6, <2>1, <2>3
  <1>8. tail \in Index
    BY <1>1, <1>2, <1>6, <1>7
  <1>9. Dist = n
    <2>1. head \in 0 .. IndexLimit - 1 /\ tail \in 0 .. IndexLimit - 1
      BY <1>1, <1>2, <1>8
    <2>2. Dist = IF head <= tail THEN tail - head ELSE (tail - head) + IndexLimit
      BY <1>1, <2>1, Difference DEF Dist
    <2> QED
      BY <1>1, <1>2, <1>6, <1>7, <2>2
  <1>10. op = [t \in Thread |-> Idle] /\ monitor = [c \in Core |-> NULL] /\ calls = 0
    BY DEF Init, AtRest
  <1>11. \A t \in Thread : op[t] = Idle
    BY <1>10
  <1>12. /\ Idle \in Ops /\ Idle.pc = "idle" /\ Idle.kind = "none" /\ Idle.item = NULL
         /\ Idle.slot = NULL /\ ~Idle.settled
    <2>1. 0 \in Index
      BY <1>1
    <2> QED
      BY <2>1 DEF Idle, Ops
  <1> DEFINE m == Mask(head)
             At1(p) == 1 + (((p + QueueLength) - m) % QueueLength)
  <1>13. m \in 0 .. QueueLength - 1
    BY <1>1, <1>2, Division DEF Mask
  <1>14. ASSUME NEW p \in Place
         PROVE  /\ At1(p) \in 1 .. QueueLength
                /\ q[p] = IF At1(p) <= n THEN held[At1(p)] ELSE NULL
    <2>1. (p + QueueLength) - m \in Nat
      BY <1>1, <1>13
    <2>2. ((p + QueueLength) - m) % QueueLength \in 0 .. QueueLength - 1
      BY <1>1, <2>1, Division
    <2>3. q[p] = IF At1(p) <= n THEN held[At1(p)] ELSE NULL
      BY <1>4, <1>6
    <2> QED
      BY <1>1, <2>2, <2>3
  <1>15. ASSUME NEW i \in 0 .. QueueLength - 1
         PROVE  Mask(head + i) \in Place /\ At1(Mask(head + i)) = i + 1
    <2> DEFINE p == Mask(head + i)
    <2>1. p = IF m + i < QueueLength THEN m + i ELSE (m + i) - QueueLength
      <3>1. i \in 0 .. QueueLength
        BY <1>1
      <3> QED
        BY <1>1, <1>2, <3>1, Offset DEF Mask
    <2> HIDE DEF p, m
    <2>2. p \in Place
      BY <1>1, <1>13, <2>1
    <2>3. ((p + QueueLength) - m) % QueueLength = i
      <3>1. CASE m + i < QueueLength
        <4>1. (p + QueueLength) - m = QueueLength * 1 + i
          BY <1>1, <1>13, <2>1, <3>1
        <4>2. (QueueLength * 1 + i) % QueueLength = i
          BY <1>1, Remainder
        <4> QED
          BY <4>1, <4>2
      <3>2. CASE ~(m + i < QueueLength)
        <4>1. (p + QueueLength) - m = QueueLength * 0 + i
          BY <1>1, <1>13, <2>1, <3>2
        <4>2. (QueueLength * 0 + i) % QueueLength = i
          BY <1>1, Remainder
        <4> QED
          BY <4>1, <4>2
      <3> QED
        BY <3>1, <3>2
    <2> QED
      BY <1>1, <2>2, <2>3 DEF p
  <1> HIDE DEF m, At1
  <1>16. \A u \in Thread : ~Lags(op[u])
    BY <1>11, <1>12 DEF Lags
  <1>17. ~Lag("enqueue") /\ ~Lag("dequeue")
    BY <1>16 DEF Lag
  <1>18. Shape
    <2>1. ASSUME NEW i \in 0 .. QueueLength - 1
          PROVE  q[Mask(head + i)] # NULL <=> i < Dist
      <3>1. q[Mask(head + i)] = IF i + 1 <= n THEN held[i + 1] ELSE NULL
        BY <1>14, <1>15
      <3>2. CASE i < n
        <4>1. i + 1 \in 1 .. n /\ i + 1 <= n
          BY <1>1, <1>6, <3>2
        <4>2. held[i + 1] \in Items
          BY <1>5, <4>1
        <4> QED
          BY <1>3, <1>9, <3>1, <3>2, <4>1, <4>2
      <3>3. CASE ~(i < n)
        <4>1. ~(i + 1 <= n)
          BY <1>1, <1>6, <3>3
        <4> QED
          BY <1>9, <3>1, <3>3, <4>1
      <3> QED
        BY <3>2, <3>3
    <2>2. Dist <= QueueLength
      BY <1>1, <1>9
    <2> QED
      BY <1>17, <2>1, <2>2 DEF Shape
  <1>19. TypeOK
    <2>1. q \in [Place -> Items \cup {NULL}]
      <3>1. \A p \in Place : q[p] \in Items \cup {NULL}
        BY <1>5, <1>6, <1>14
      <3> QED
        BY <1>4, <3>1
    <2> QED
      BY <1>1, <1>2, <1>8, <1>10, <1>12, <2>1 DEF TypeOK, Ops
  <1>20. \A t \in Thread : Sound(op[t]) /\ Knows(op[t])
    BY <1>11, <1>12 DEF Sound, Knows, Bound, Helps
  <1>21. Alone
    BY <1>16 DEF Alone
  <1>22. Reserved
    BY <1>10, Threads DEF Reserved
  <1>23. Counted
    <2>1. Unmoved = {}
      BY <1>11, <1>12 DEF Unmoved, Active
    <2>2. Cardinality(Unmoved) = 0
      BY <2>1, FS_EmptySet
    <2> QED
      BY <1>10, <1>11, <1>12, <2>2 DEF Counted
  <1> QED
    BY <1>18, <1>19, <1>20, <1>21, <1>22, <1>23 DEF CoreInv

LEMMA CoreStep == CoreQueueAssumption /\ CoreInv /\ [Next]_coreVars => CoreInv'
  <1> SUFFICES ASSUME CoreQueueAssumption, CoreInv, [Next]_coreVars
               PROVE  CoreInv'
    OBVIOUS
  <1>1. ASSUME NEW t \in Thread, NEW item \in Items, OSEnqueueCoreQueue(t, item)
        PROVE  CoreInv'
    BY <1>1, CallKeeps DEF OSEnqueueCoreQueue
  <1>2. ASSUME NEW t \in Thread, OSDequeueCoreQueue(t)
        PROVE  CoreInv'
    BY <1>2, CallKeeps DEF OSDequeueCoreQueue
  <1>3. ASSUME NEW t \in Thread, StorePlace(t)
        PROVE  CoreInv'
    <2>1. CASE StoreSucceedsAt(t)
      BY <2>1, StoreSucceedsKeeps
    <2>2. CASE /\ At(t, "store") /\ StoreFails(t) /\ UNCHANGED <<queue, calls>>
               /\ op' = [op EXCEPT ![t].pc = "read", ![t].slot = NULL]
      BY <2>2, StoreFailsKeeps
    <2> QED
      BY <1>3, <2>1, <2>2 DEF StorePlace, StoreSucceedsAt, queue
  <1>4. ASSUME NEW t \in Thread, MoveIndex(t)
        PROVE  CoreInv'
    <2>1. CASE MoveSucceedsAt(t)
      BY <2>1, MoveSucceedsKeeps
    <2>2. CASE /\ At(t, "moveIndex") /\ StoreFails(t) /\ UNCHANGED <<queue, calls>>
               /\ Goto(t, AfterFailure(t))
      BY <2>2, MoveFailsKeeps
    <2> QED
      BY <1>4, <2>1, <2>2 DEF MoveIndex, MoveSucceedsAt, Following, queue
  <1>5. CASE UNCHANGED coreVars
    <2>1. q' = q /\ head' = head /\ tail' = tail /\ monitor' = monitor /\ op' = op
          /\ calls' = calls
      BY <1>5 DEF coreVars, queue
    <2> QED
      BY <2>1 DEF CoreInv, TypeOK, Shape, Alone, Reserved, Counted, Sound, Knows, Dist, Lag,
           Lags, IndexFor, Reserves, Top, Active, Unmoved, Behind, Helps, Mask
  <1> QED
    BY <1>1, <1>2, <1>3, <1>4, <1>5, ReadIndexKeeps, TestBoundKeeps, LinkPlaceKeeps,
       CheckIndexKeeps, LinkIndexKeeps, ReturnKeeps DEF Next

LEMMA CoreInvariant ==
  ASSUME CoreQueueAssumption
  PROVE  Spec => []CoreInv
  <1>1. Init => CoreInv
    BY CoreInit
  <1>2. CoreInv /\ [Next]_coreVars => CoreInv'
    BY CoreStep
  <1> QED
    BY <1>1, <1>2, PTL DEF Spec

-----------------------------------------------------------------------------
(***************************************************************************)
(* The abstract queue.                                                     *)
(***************************************************************************)
LEMMA SequenceFacts ==
  ASSUME NEW S, NEW n \in Nat, NEW s \in [1 .. n -> S]
  PROVE  /\ s \in Seq(S) /\ Len(s) = n /\ (s = <<>> <=> n = 0)
         /\ \A x \in S : Append(s, x) = [i \in 1 .. n + 1 |-> IF i <= n THEN s[i] ELSE x]
  <1>1. s \in Seq(S) /\ Len(s) = n /\ DOMAIN s = 1 .. n
    OBVIOUS
  <1>2. s = <<>> <=> n = 0
    BY <1>1, EmptySeq
  <1>3. ASSUME NEW x \in S
        PROVE  Append(s, x) = [i \in 1 .. n + 1 |-> IF i <= n THEN s[i] ELSE x]
    <2>1. /\ Append(s, x) \in Seq(S) /\ Len(Append(s, x)) = n + 1
          /\ \A i \in 1 .. n + 1 : Append(s, x)[i] = IF i <= n THEN s[i] ELSE x
      BY <1>1, AppendProperties
    <2>2. DOMAIN Append(s, x) = 1 .. n + 1 /\ Append(s, x) \in [1 .. n + 1 -> S]
      BY <2>1, LenProperties
    <2> QED
      BY <2>1, <2>2
  <1> QED
    BY <1>1, <1>2, <1>3

LEMMA HeadTailFacts ==
  ASSUME NEW S, NEW n \in Nat, NEW s \in [1 .. n -> S], n > 0
  PROVE  Head(s) = s[1] /\ Tail(s) = [i \in 1 .. n - 1 |-> s[i + 1]]
  <1>1. s \in Seq(S) /\ Len(s) = n /\ s # <<>>
    BY SequenceFacts
  <1>2. Tail(s) \in Seq(S) /\ Len(Tail(s)) = n - 1
          /\ \A i \in 1 .. Len(Tail(s)) : Tail(s)[i] = s[i + 1]
    BY <1>1, HeadTailProperties
  <1>3. DOMAIN Tail(s) = 1 .. n - 1 /\ Tail(s) \in [1 .. n - 1 -> S]
    BY <1>2, LenProperties
  <1>4. Head(s) = s[1]
    BY <1>1
  <1> QED
    BY <1>2, <1>3, <1>4

(* The oldest item is in its place, or with the operation that took it.    *)
LEMMA OldestIs ==
  CoreInv => /\ \A u \in Thread : op[u].kind = "dequeue" /\ Lags(op[u]) => Oldest = op[u].slot
             /\ ~Lag("dequeue") => Oldest = q[Mask(head)]
  <1> SUFFICES ASSUME CoreInv
               PROVE  /\ \A u \in Thread :
                           op[u].kind = "dequeue" /\ Lags(op[u]) => Oldest = op[u].slot
                      /\ ~Lag("dequeue") => Oldest = q[Mask(head)]
    OBVIOUS
  <1> DEFINE P(u) == /\ op[u].settled /\ op[u].kind = "dequeue"
                     /\ op[u].pc # "return" /\ op[u].index = head
  <1>1. \A u \in Thread : P(u) <=> op[u].kind = "dequeue" /\ Lags(op[u])
    <2> SUFFICES ASSUME NEW u \in Thread
                 PROVE  P(u) <=> op[u].kind = "dequeue" /\ Lags(op[u])
      OBVIOUS
    <2>1. Knows(op[u])
      BY DEF CoreInv
    <2> QED
      BY <2>1 DEF Knows, Lags, IndexFor
  <1>2. Lagging("dequeue") <=> \E u \in Thread : P(u)
    BY DEF Lagging, IndexOf
  <1>3. Lagging("dequeue") <=> Lag("dequeue")
    BY <1>1, <1>2 DEF Lag
  <1>4. Oldest = IF Lagging("dequeue") THEN op[CHOOSE u \in Thread : P(u)].slot
                 ELSE q[Mask(head)]
    BY DEF Oldest
  <1> HIDE DEF P
  <1>5. ASSUME NEW u \in Thread, op[u].kind = "dequeue", Lags(op[u])
        PROVE  Oldest = op[u].slot
    <2>1. Lagging("dequeue")
      BY <1>1, <1>2, <1>5
    <2>2. P(CHOOSE w \in Thread : P(w)) /\ (CHOOSE w \in Thread : P(w)) \in Thread
      BY <1>2, <2>1
    <2>3. (CHOOSE w \in Thread : P(w)) = u
      BY <1>1, <1>5, <2>2 DEF CoreInv, Alone
    <2> QED
      BY <1>4, <2>1, <2>3
  <1> QED
    BY <1>3, <1>4, <1>5

LEMMA OldestThen ==
  CoreInv' => (/\ \A u \in Thread : op[u].kind = "dequeue" /\ Lags(op[u]) => Oldest = op[u].slot
               /\ ~Lag("dequeue") => Oldest = q[Mask(head)])'
  BY OldestIs, PTL

LEMMA ContentsAre ==
  ASSUME CoreQueueAssumption, CoreInv
  PROVE  /\ Contents = [i \in 1 .. Dist |-> IF i = 1 THEN Oldest ELSE q[Mask(head + (i - 1))]]
         /\ Contents \in [1 .. Dist -> Items] /\ Len(Contents) = Dist
         /\ Contents = <<>> <=> Dist = 0
  <1>1. Contents = [i \in 1 .. Dist |-> IF i = 1 THEN Oldest ELSE q[Mask(head + (i - 1))]]
    BY DEF Contents, Dist
  <1>2. /\ Dist \in Nat /\ Dist \in 0 .. QueueLength /\ QueueLength \in Nat \ {0}
        /\ Dist > 0 => (q[Mask(head)] = NULL <=> Lag("dequeue"))
    BY AtIndices
  <1>3. /\ \A i \in 0 .. QueueLength : Mask(head + i) \in Place
        /\ Mask(head + 0) = Mask(head) /\ q \in [Place -> Items \cup {NULL}]
    <2>1. head \in Index /\ tail \in Index /\ Dist <= QueueLength
      BY Types DEF CoreInv, Shape
    <2> QED
      BY <2>1, PlaceFacts, Types DEF CoreInv
  <1>4. ASSUME Dist > 0
        PROVE  Oldest \in Items
    <2>1. CASE Lag("dequeue")
      <3>1. PICK u \in Thread : op[u].kind = "dequeue" /\ Lags(op[u])
        BY <2>1 DEF Lag
      <3>2. Oldest = op[u].slot
        BY <3>1, OldestIs
      <3>3. op[u].slot # NULL /\ op[u].slot \in Items \cup {NULL}
        BY <3>1, Types DEF CoreInv, Sound, Lags, Ops
      <3> QED
        BY <3>2, <3>3
    <2>2. CASE ~Lag("dequeue")
      <3>1. Oldest = q[Mask(head)] /\ q[Mask(head)] # NULL
        BY <1>2, <1>4, <2>2, OldestIs
      <3>2. Mask(head) \in Place
        <4>1. 0 \in 0 .. QueueLength
          BY <1>2
        <4> QED
          BY <1>3, <4>1
      <3> QED
        BY <1>3, <3>1, <3>2
    <2> QED
      BY <2>1, <2>2
  <1>5. ASSUME NEW i \in 1 .. Dist
        PROVE  (IF i = 1 THEN Oldest ELSE q[Mask(head + (i - 1))]) \in Items
    <2>1. CASE i = 1
      <3>1. Dist > 0
        BY <1>2
      <3> QED
        BY <1>4, <2>1, <3>1
    <2>2. CASE i # 1
      <3>1. PICK j \in 0 .. QueueLength - 1 : j = i - 1
        BY <1>2
      <3>2. j < Dist /\ j # 0 /\ j \in 0 .. QueueLength
        BY <1>2, <2>2, <3>1
      <3>3. q[Mask(head + j)] # NULL
        BY <3>2 DEF CoreInv, Shape
      <3>4. q[Mask(head + j)] \in Items
        BY <1>3, <3>2, <3>3
      <3> QED
        BY <2>2, <3>1, <3>4
    <2> QED
      BY <2>1, <2>2
  <1>6. Contents \in [1 .. Dist -> Items]
    BY <1>1, <1>5
  <1> QED
    BY <1>1, <1>2, <1>6, SequenceFacts

LEMMA ContentsThen ==
  ASSUME CoreQueueAssumption
  PROVE  CoreInv' => (/\ Contents = [i \in 1 .. Dist |-> IF i = 1 THEN Oldest
                                                         ELSE q[Mask(head + (i - 1))]]
                      /\ Contents = <<>> <=> Dist = 0)'
  <1>1. CoreInv => /\ Contents = [i \in 1 .. Dist |-> IF i = 1 THEN Oldest
                                                      ELSE q[Mask(head + (i - 1))]]
                   /\ Contents = <<>> <=> Dist = 0
    BY ContentsAre
  <1> QED
    BY <1>1, PTL

(* The calls.                                                              *)
Calls == [t \in Thread |-> AbstractCall(t)]
Eff(o) == o.pc = "return" \/ (o.settled /\ ~Lags(o))
Result(o) == IF o.kind = "enqueue" THEN o.settled ELSE o.slot

LEMMA EffectedIs ==
  /\ \A t \in Thread : (Effected(t) <=> Eff(op[t])) /\ Effected(t) \in BOOLEAN
  /\ \A t \in Thread :
       AbstractCall(t) = [kind |-> op[t].kind, item |-> op[t].item, effected |-> Effected(t),
                          result |-> IF ~Effected(t) THEN NULL ELSE Result(op[t])]
  <1>1. ASSUME NEW t \in Thread
        PROVE  (Effected(t) <=> Eff(op[t])) /\ Effected(t) \in BOOLEAN
    BY DEF Effected, Eff, Lags, IndexOf, IndexFor
  <1>2. ASSUME NEW t \in Thread
        PROVE  AbstractCall(t) = [kind |-> op[t].kind, item |-> op[t].item,
                 effected |-> Effected(t),
                 result |-> IF ~Effected(t) THEN NULL ELSE Result(op[t])]
    BY DEF AbstractCall, Result
  <1> QED
    BY <1>1, <1>2

LEMMA EffectedThen ==
  (/\ \A t \in Thread : (Effected(t) <=> Eff(op[t])) /\ Effected(t) \in BOOLEAN
   /\ \A t \in Thread :
        AbstractCall(t) = [kind |-> op[t].kind, item |-> op[t].item, effected |-> Effected(t),
                           result |-> IF ~Effected(t) THEN NULL ELSE Result(op[t])])'
  BY EffectedIs, PTL

LEMMA CallStays ==
  ASSUME CoreInv, CoreInv', NEW v \in Thread, op'[v].kind = op[v].kind, op'[v].item = op[v].item,
         Eff(op[v])' <=> Eff(op[v]),
         Eff(op[v]) => op'[v].slot = op[v].slot /\ (op'[v].settled <=> op[v].settled)
  PROVE  AbstractCall(v)' = AbstractCall(v)
  <1>1. Effected(v)' <=> Effected(v)
    BY EffectedIs, EffectedThen
  <1>2. Effected(v) \in BOOLEAN /\ Effected(v)' \in BOOLEAN
    BY EffectedIs, EffectedThen
  <1>3. Effected(v)' = Effected(v)
    BY <1>1, <1>2
  <1>4. Effected(v) => Result(op[v])' = Result(op[v])
    <2> SUFFICES ASSUME Effected(v)
                 PROVE  Result(op[v])' = Result(op[v])
      OBVIOUS
    <2>1. op'[v].slot = op[v].slot /\ (op'[v].settled <=> op[v].settled)
      BY EffectedIs
    <2>2. op[v].settled \in BOOLEAN
      BY Types DEF CoreInv, Ops
    <2>3. op'[v].settled \in BOOLEAN
      BY DEF CoreInv, TypeOK
    <2>4. op'[v].settled = op[v].settled
      BY <2>1, <2>2, <2>3
    <2> QED
      BY <2>1, <2>4 DEF Result
  <1> QED
    BY <1>3, <1>4, EffectedIs, EffectedThen

(* A step that leaves the queue as it is, and what lags.                   *)
LEMMA ContentsStay ==
  ASSUME CoreQueueAssumption, CoreInv, CoreInv', NEW t \in Thread, UNCHANGED queue,
         \A u \in Thread : u # t => op'[u] = op[u],
         Lags(op'[t]) <=> Lags(op[t]),
         Lags(op[t]) => op'[t].kind = op[t].kind /\ op'[t].slot = op[t].slot
  PROVE  /\ Contents' = Contents
         /\ \A u \in Thread : (Lags(op[u])' <=> Lags(op[u])) /\ (Eff(op[u])' <=> Eff(op'[u]))
         /\ \A u \in Thread : u # t => AbstractCall(u)' = AbstractCall(u)
  <1>1. q' = q /\ head' = head /\ tail' = tail
    BY DEF queue
  <1>2. \A u \in Thread : (Lags(op[u])' <=> Lags(op'[u])) /\ (Eff(op[u])' <=> Eff(op'[u]))
    BY <1>1 DEF Lags, Eff, IndexFor
  <1>3. ASSUME NEW u \in Thread
        PROVE  Lags(op[u])' <=> Lags(op[u])
    <2>1. CASE u = t
      BY <1>2, <2>1
    <2>2. CASE u # t
      <3>1. op'[u] = op[u]
        BY <2>2
      <3> QED
        BY <1>2, <3>1
    <2> QED
      BY <2>1, <2>2
  <1>4. \A u \in Thread : Lags(op[u]) => op'[u].kind = op[u].kind /\ op'[u].slot = op[u].slot
    OBVIOUS
  <1>5. Oldest' = Oldest
    <2>1. CASE Lag("dequeue")
      <3>1. PICK u \in Thread : op[u].kind = "dequeue" /\ Lags(op[u])
        BY <2>1 DEF Lag
      <3>2. op'[u].kind = "dequeue" /\ Lags(op[u])' /\ op'[u].slot = op[u].slot
        BY <1>3, <1>4, <3>1
      <3>3. Oldest' = op'[u].slot
        BY <3>2, OldestThen
      <3> QED
        BY <3>1, <3>2, <3>3, OldestIs
    <2>2. CASE ~Lag("dequeue")
      <3>1. ~Lag("dequeue")'
        BY <1>3, <1>4, <2>2 DEF Lag
      <3>2. Oldest' = q'[Mask(head')]
        BY <3>1, OldestThen DEF Mask
      <3> QED
        BY <1>1, <2>2, <3>2, OldestIs
    <2> QED
      BY <2>1, <2>2
  <1>6. Contents' = Contents
    BY <1>1, <1>5 DEF Contents, Mask
  <1>7. ASSUME NEW v \in Thread, v # t
        PROVE  AbstractCall(v)' = AbstractCall(v)
    <2>1. op'[v] = op[v]
      BY <1>7
    <2>2. Eff(op'[v]) <=> Eff(op[v])
      BY <2>1
    <2>3. Eff(op[v])' <=> Eff(op[v])
      BY <1>2, <2>2
    <2> QED
      BY <2>1, <2>3, CallStays
  <1> QED
    BY <1>2, <1>3, <1>6, <1>7

(* A step that the abstract queue does not see.                            *)
LEMMA Unseen ==
  ASSUME CoreQueueAssumption, CoreInv, CoreInv', NEW t \in Thread, UNCHANGED queue,
         \A u \in Thread : u # t => op'[u] = op[u],
         op'[t].kind = op[t].kind, op'[t].item = op[t].item,
         Lags(op'[t]) <=> Lags(op[t]), Eff(op'[t]) <=> Eff(op[t]),
         Lags(op[t]) \/ Eff(op[t]) =>
           op'[t].slot = op[t].slot /\ (op'[t].settled <=> op[t].settled)
  PROVE  UNCHANGED Abstract!vars
  <1>1. /\ Contents' = Contents /\ (Eff(op[t])' <=> Eff(op'[t]))
        /\ \A u \in Thread : u # t => AbstractCall(u)' = AbstractCall(u)
    BY ContentsStay
  <1>2. AbstractCall(t)' = AbstractCall(t)
    BY <1>1, CallStays
  <1>3. Calls' = Calls
    BY <1>1, <1>2 DEF Calls
  <1> QED
    BY <1>1, <1>3 DEF Abstract!vars, Calls

LEMMA UnseenEarly ==
  ASSUME CoreQueueAssumption, CoreInv, CoreInv', NEW t \in Thread, UNCHANGED queue,
         op[t].pc \in {"read", "bound", "link", "check", "store"}, op'[t].pc # "return",
         \A u \in Thread : u # t => op'[u] = op[u],
         op'[t].kind = op[t].kind, op'[t].item = op[t].item,
         op'[t].settled <=> op[t].settled
  PROVE  UNCHANGED Abstract!vars
  <1>1. ~op[t].settled
    BY DEF CoreInv, Sound
  <1>2. ~Lags(op[t]) /\ ~Lags(op'[t]) /\ ~Eff(op[t]) /\ ~Eff(op'[t])
    BY <1>1 DEF Lags, Eff
  <1> QED
    BY <1>2, Unseen

LEMMA UnseenSteps ==
  ASSUME CoreQueueAssumption, CoreInv, CoreInv', NEW t \in Thread,
         \/ ReadIndex(t) \/ LinkPlace(t) \/ CheckIndex(t) \/ LinkIndex(t)
         \/ At(t, "store") /\ op' = [op EXCEPT ![t].pc = "read", ![t].slot = NULL]
            /\ UNCHANGED queue
         \/ At(t, "moveIndex") /\ Goto(t, AfterFailure(t)) /\ UNCHANGED queue
  PROVE  UNCHANGED Abstract!vars
  <1>1. op \in [Thread -> Ops] /\ op[t] \in Ops
    BY Types DEF CoreInv
  <1>2. CASE ReadIndex(t)
    <2>1. /\ \A u \in Thread : u # t => op'[u] = op[u]
          /\ op'[t].pc = "bound" /\ op'[t].kind = op[t].kind /\ op'[t].item = op[t].item
          /\ (op'[t].settled <=> op[t].settled)
      BY <1>1, <1>2 DEF ReadIndex, Ops
    <2>2. op[t].pc = "read" /\ UNCHANGED queue
      BY <1>2 DEF ReadIndex, At
    <2> QED
      BY <2>1, <2>2, UnseenEarly
  <1>3. CASE LinkPlace(t)
    <2>1. /\ \A u \in Thread : u # t => op'[u] = op[u]
          /\ op'[t].pc = "check" /\ op'[t].kind = op[t].kind /\ op'[t].item = op[t].item
          /\ (op'[t].settled <=> op[t].settled)
      BY <1>1, <1>3 DEF LinkPlace, Ops
    <2>2. op[t].pc = "link" /\ UNCHANGED queue
      BY <1>3 DEF LinkPlace, At
    <2> QED
      BY <2>1, <2>2, UnseenEarly
  <1>4. CASE CheckIndex(t)
    <2>1. /\ \A u \in Thread : u # t => op'[u] = op[u]
          /\ op'[t].pc \in {"read", "linkIndex", "store"}
          /\ op'[t].kind = op[t].kind /\ op'[t].item = op[t].item
          /\ (op'[t].settled <=> op[t].settled)
      BY <1>1, <1>4 DEF CheckIndex, Ops
    <2>2. op[t].pc = "check" /\ UNCHANGED queue
      BY <1>4 DEF CheckIndex, At
    <2>3. op'[t].pc # "return"
      BY <2>1
    <2> QED
      BY <2>1, <2>2, <2>3, UnseenEarly
  <1>5. CASE /\ At(t, "store") /\ op' = [op EXCEPT ![t].pc = "read", ![t].slot = NULL]
             /\ UNCHANGED queue
    <2>1. /\ \A u \in Thread : u # t => op'[u] = op[u]
          /\ op'[t].pc = "read" /\ op'[t].kind = op[t].kind /\ op'[t].item = op[t].item
          /\ (op'[t].settled <=> op[t].settled)
      BY <1>1, <1>5 DEF Ops
    <2>2. op[t].pc = "store" /\ UNCHANGED queue
      BY <1>5 DEF At
    <2> QED
      BY <2>1, <2>2, UnseenEarly
  <1>6. ASSUME UNCHANGED queue, \A u \in Thread : u # t => op'[u] = op[u],
               op[t].pc # "return", op'[t].pc = "return" => op[t].settled /\ ~Lags(op[t]),
               op'[t].kind = op[t].kind, op'[t].item = op[t].item, op'[t].index = op[t].index,
               op'[t].slot = op[t].slot, op'[t].settled <=> op[t].settled
        PROVE  UNCHANGED Abstract!vars
    <2>1. Lags(op'[t]) <=> Lags(op[t])
      BY <1>6 DEF Lags
    <2>2. Eff(op'[t]) <=> Eff(op[t])
      BY <1>6, <2>1 DEF Eff
    <2> QED
      BY <1>6, <2>1, <2>2, Unseen
  <1>7. CASE LinkIndex(t)
    <2>1. /\ \A u \in Thread : u # t => op'[u] = op[u]
          /\ op'[t].pc = (IF IndexOf(t) = op[t].index THEN "moveIndex"
                          ELSE IF op[t].settled THEN "return" ELSE "read")
          /\ op'[t].kind = op[t].kind /\ op'[t].item = op[t].item
          /\ op'[t].index = op[t].index /\ op'[t].slot = op[t].slot
          /\ (op'[t].settled <=> op[t].settled)
      BY <1>1, <1>7 DEF LinkIndex, Goto, Ops
    <2>2. op[t].pc = "linkIndex" /\ UNCHANGED queue
      BY <1>7 DEF LinkIndex, At
    <2>3. op'[t].pc = "return" => op[t].settled /\ ~Lags(op[t])
      BY <2>1 DEF Lags, IndexOf, IndexFor
    <2> QED
      BY <1>6, <2>1, <2>2, <2>3
  <1>8. CASE At(t, "moveIndex") /\ Goto(t, AfterFailure(t)) /\ UNCHANGED queue
    <2>1. /\ \A u \in Thread : u # t => op'[u] = op[u]
          /\ op'[t].pc \in {"linkIndex", "read"}
          /\ op'[t].kind = op[t].kind /\ op'[t].item = op[t].item
          /\ op'[t].index = op[t].index /\ op'[t].slot = op[t].slot
          /\ (op'[t].settled <=> op[t].settled)
      BY <1>1, <1>8 DEF AfterFailure, Goto, Ops
    <2>2. op[t].pc = "moveIndex" /\ UNCHANGED queue
      BY <1>8 DEF At
    <2>3. op'[t].pc = "return" => op[t].settled /\ ~Lags(op[t])
      BY <2>1
    <2> QED
      BY <1>6, <2>1, <2>2, <2>3
  <1> QED
    BY <1>2, <1>3, <1>4, <1>5, <1>7, <1>8

(* A store is not seen yet: the item is in, or out, as the index moves on. *)
LEMMA UnseenStore ==
  ASSUME CoreQueueAssumption, CoreInv, CoreInv', NEW t \in Thread, StoreSucceedsAt(t)
  PROVE  UNCHANGED Abstract!vars
  <1> DEFINE o == op[t]
  <1>1. /\ o.index \in Index /\ o.index = IndexFor(o.kind) /\ o.pc = "store"
        /\ o.kind \in {"enqueue", "dequeue"} /\ ~o.settled
        /\ o.kind = "enqueue" => Dist < QueueLength
        /\ q[Mask(o.index)] = o.slot /\ ~Lag(o.kind)
        /\ \A u \in Thread : u # t => op'[u] = op[u]
        /\ op'[t].pc = "linkIndex" /\ op'[t].kind = o.kind /\ op'[t].item = o.item
        /\ op'[t].index = o.index /\ op'[t].slot = o.slot /\ op'[t].settled
    BY StoreFacts
  <1>2. /\ head' = head /\ tail' = tail /\ Dist' = Dist
        /\ q' = [q EXCEPT ![Mask(o.index)] = o.item] /\ q \in [Place -> Items \cup {NULL}]
    BY Types DEF StoreSucceedsAt, Dist, CoreInv
  <1>3. /\ Lags(op'[t]) /\ ~Lags(o)
        /\ \A k : IF k = o.kind THEN Lag(k)' ELSE (Lag(k)' <=> Lag(k))
    BY StoreLags
  <1>4. \A u \in Thread : (Lags(op[u])' <=> Lags(op'[u])) /\ (Eff(op[u])' <=> Eff(op'[u]))
    BY <1>2 DEF Lags, Eff, IndexFor
  <1>5. ASSUME NEW v \in Thread
        PROVE  AbstractCall(v)' = AbstractCall(v)
    <2>1. CASE v = t
      <3>1. ~Eff(op[v]) /\ ~Eff(op[v])'
        BY <1>1, <1>3, <1>4, <2>1 DEF Eff
      <3> QED
        BY <1>1, <2>1, <3>1, CallStays
    <2>2. CASE v # t
      <3>1. op'[v] = op[v]
        BY <1>1, <2>2
      <3>2. Eff(op'[v]) <=> Eff(op[v])
        BY <3>1
      <3>3. Eff(op[v])' <=> Eff(op[v])
        BY <1>4, <3>2
      <3> QED
        BY <3>1, <3>3, CallStays
    <2> QED
      BY <2>1, <2>2
  <1>6. /\ Dist \in 0 .. QueueLength /\ Dist \in Nat /\ QueueLength \in Nat \ {0}
        /\ Mask(tail) = Mask(head + Dist) /\ Mask(head + 0) = Mask(head)
        /\ \A i, j \in 0 .. QueueLength - 1 : Mask(head + i) = Mask(head + j) => i = j
        /\ \A i \in 0 .. QueueLength : Mask(head + i) \in Place
    <2>1. head \in Index /\ tail \in Index /\ Dist <= QueueLength
      BY Types DEF CoreInv, Shape
    <2> QED
      BY <2>1, PlaceFacts, Sizes
  <1> HIDE DEF o
  <1>7. ASSUME Dist > 0
        PROVE  Oldest' = Oldest
    <2>1. CASE o.kind = "dequeue"
      <3>1. Oldest = q[Mask(head)] /\ q[Mask(head)] = o.slot
        BY <1>1, <2>1, OldestIs DEF IndexFor
      <3>2. Oldest' = op'[t].slot
        <4>1. op'[t].kind = "dequeue" /\ Lags(op[t])'
          BY <1>1, <1>3, <1>4, <2>1
        <4> QED
          BY <4>1, OldestThen
      <3> QED
        BY <1>1, <3>1, <3>2
    <2>2. CASE o.kind = "enqueue" /\ Lag("dequeue")
      <3>1. PICK u \in Thread : op[u].kind = "dequeue" /\ Lags(op[u])
        BY <2>2 DEF Lag
      <3>2. u # t
        BY <2>2, <3>1 DEF o
      <3>3. op'[u] = op[u]
        BY <1>1, <3>2
      <3>4. op'[u].kind = "dequeue" /\ Lags(op'[u])
        <4>1. Lags(op'[u]) <=> Lags(op[u])
          BY <3>3
        <4> QED
          BY <3>1, <3>3, <4>1
      <3>5. Oldest = op[u].slot
        BY <3>1, OldestIs
      <3>6. Oldest' = op'[u].slot
        BY <1>4, <3>4, OldestThen
      <3> QED
        BY <3>3, <3>5, <3>6
    <2>3. CASE o.kind = "enqueue" /\ ~Lag("dequeue")
      <3>1. Oldest = q[Mask(head)]
        BY <2>3, OldestIs
      <3>2. ~Lag("dequeue")'
        BY <1>3, <2>3
      <3>3. Oldest' = q'[Mask(head)]
        BY <1>2, <3>2, OldestThen DEF Mask
      <3>4. Mask(o.index) # Mask(head)
        <4>1. Mask(o.index) = Mask(head + Dist)
          BY <1>1, <1>6, <2>3 DEF IndexFor
        <4>2. 0 \in 0 .. QueueLength - 1 /\ Dist \in 0 .. QueueLength - 1 /\ Dist # 0
          BY <1>1, <1>6, <1>7, <2>3
        <4> QED
          BY <1>6, <4>1, <4>2
      <3>5. Mask(head) \in Place
        <4>1. 0 \in 0 .. QueueLength
          BY <1>6
        <4> QED
          BY <1>6, <4>1
      <3>6. q'[Mask(head)] = q[Mask(head)]
        BY <1>2, <3>4, <3>5
      <3> QED
        BY <3>1, <3>3, <3>6
    <2> QED
      BY <1>1, <2>1, <2>2, <2>3
  <1>8. ASSUME NEW i \in 1 .. Dist, i # 1
        PROVE  q'[Mask(head + (i - 1))] = q[Mask(head + (i - 1))]
    <2>1. PICK j \in 0 .. QueueLength - 1 : j = i - 1
      BY <1>6
    <2>2. j < Dist /\ j # 0 /\ j \in 0 .. QueueLength
      BY <1>6, <1>8, <2>1
    <2>3. Mask(o.index) # Mask(head + j)
      <3>1. CASE o.kind = "dequeue"
        <4>1. Mask(o.index) = Mask(head + 0) /\ 0 \in 0 .. QueueLength - 1
          BY <1>1, <1>6, <3>1 DEF IndexFor
        <4> QED
          BY <1>6, <2>2, <4>1
      <3>2. CASE o.kind = "enqueue"
        <4>1. Mask(o.index) = Mask(head + Dist) /\ Dist \in 0 .. QueueLength - 1 /\ j # Dist
          BY <1>1, <1>6, <2>2, <3>2 DEF IndexFor
        <4> QED
          BY <1>6, <4>1
      <3> QED
        BY <1>1, <3>1, <3>2
    <2>4. Mask(head + j) \in Place
      BY <1>6, <2>2
    <2>5. q'[Mask(head + j)] = q[Mask(head + j)]
      BY <1>2, <2>3, <2>4
    <2> QED
      BY <2>1, <2>5
  <1>9. Contents' = Contents
    <2>1. Contents' = [i \in 1 .. Dist |-> IF i = 1 THEN Oldest'
                                           ELSE q'[Mask(head + (i - 1))]]
      BY <1>2, ContentsThen DEF Mask
    <2>2. Contents = [i \in 1 .. Dist |-> IF i = 1 THEN Oldest ELSE q[Mask(head + (i - 1))]]
      BY ContentsAre
    <2>3. \A i \in 1 .. Dist : (IF i = 1 THEN Oldest' ELSE q'[Mask(head + (i - 1))])
                                = IF i = 1 THEN Oldest ELSE q[Mask(head + (i - 1))]
      <3> SUFFICES ASSUME NEW i \in 1 .. Dist
                   PROVE  (IF i = 1 THEN Oldest' ELSE q'[Mask(head + (i - 1))])
                          = IF i = 1 THEN Oldest ELSE q[Mask(head + (i - 1))]
        OBVIOUS
      <3>1. Dist > 0
        BY <1>6
      <3> QED
        BY <1>7, <1>8, <3>1
    <2> QED
      BY <2>1, <2>2, <2>3
  <1>10. Calls' = Calls
    BY <1>5 DEF Calls
  <1> QED
    BY <1>9, <1>10 DEF Abstract!vars, Calls

(***************************************************************************)
(* The steps at which an operation takes its effect.                       *)
(***************************************************************************)
Settles(c, result) == [c EXCEPT !.effected = TRUE, !.result = result]

LEMMA SettlesFacts ==
  ASSUME NEW K, NEW I, NEW R, NEW r \in R,
         NEW s \in [kind : K, item : I, effected : BOOLEAN, result : R],
         NEW t \in [kind : K, item : I, effected : BOOLEAN, result : R],
         t.kind = s.kind, t.item = s.item, t.effected, t.result = r
  PROVE  t = Settles(s, r)
  <1> DEFINE C == [kind : K, item : I, effected : BOOLEAN, result : R]
             u == [s EXCEPT !.effected = TRUE, !.result = r]
  <1>1. u \in C /\ u.kind = s.kind /\ u.item = s.item /\ u.result = r
    OBVIOUS
  <1>2. u.effected = TRUE /\ t.effected = TRUE
    OBVIOUS
  <1>3. \A x, y \in C : /\ x.kind = y.kind /\ x.item = y.item
                         /\ x.effected = y.effected /\ x.result = y.result
                         => x = y
    OBVIOUS
  <1> HIDE DEF u, C
  <1>4. t.effected = u.effected
    BY <1>2, Zenon
  <1>5. t \in C
    BY DEF C
  <1>6. t = u
    BY <1>1, <1>3, <1>4, <1>5
  <1> QED
    BY <1>6 DEF u, Settles

LEMMA EffectStep ==
  ASSUME CoreInv, CoreInv', NEW p \in Thread,
         \A v \in Thread : v # p => AbstractCall(v)' = AbstractCall(v),
         op'[p].kind = op[p].kind, op'[p].item = op[p].item,
         ~Eff(op[p]), Eff(op[p])', NEW result, result = Result(op[p])'
  PROVE  Abstract!TakesEffect(p, result)
  <1>1. ~Effected(p) /\ Effected(p)'
    BY EffectedIs, EffectedThen
  <1>2. \A v \in Thread : Effected(v) \in BOOLEAN /\ Effected(v)' \in BOOLEAN
    BY EffectedIs, EffectedThen
  <1>3. Effected(p) = FALSE /\ Effected(p)' = TRUE
    BY <1>1, <1>2
  <1> DEFINE K == {op[p].kind}
             I == {op[p].item}
             R == {AbstractCall(p).result, result}
             C == [kind : K, item : I, effected : BOOLEAN, result : R]
  <1>4. AbstractCall(p)' = Settles(AbstractCall(p), result)
    <2>1. (IF ~Effected(p) THEN NULL ELSE Result(op[p]))' = result
      BY <1>1
    <2>2. AbstractCall(p) \in C /\ AbstractCall(p).kind = op[p].kind
            /\ AbstractCall(p).item = op[p].item
      BY <1>2, EffectedIs
    <2>3. AbstractCall(p)' = [kind |-> op'[p].kind, item |-> op'[p].item,
                              effected |-> Effected(p)', result |-> result]
      BY <2>1, EffectedThen
    <2>4. AbstractCall(p)' \in C /\ AbstractCall(p)'.kind = op[p].kind
            /\ AbstractCall(p)'.item = op[p].item /\ AbstractCall(p)'.effected
            /\ AbstractCall(p)'.result = result
      BY <1>1, <1>2, <2>3
    <2>5. result \in R
      OBVIOUS
    <2> HIDE DEF K, I, R
    <2>6. /\ AbstractCall(p)'.kind = AbstractCall(p).kind
          /\ AbstractCall(p)'.item = AbstractCall(p).item
      BY <2>2, <2>4
    <2> QED
      BY <2>2, <2>4, <2>5, <2>6, SettlesFacts
  <1>5. Calls \in [Thread -> [kind : {op[v].kind : v \in Thread}, item : {op[v].item : v \in Thread},
                     effected : BOOLEAN, result : {AbstractCall(v).result : v \in Thread}]]
    <2>1. ASSUME NEW v \in Thread
          PROVE  AbstractCall(v) \in [kind : {op[w].kind : w \in Thread},
                   item : {op[w].item : w \in Thread}, effected : BOOLEAN,
                   result : {AbstractCall(w).result : w \in Thread}]
      BY <1>2 DEF AbstractCall
    <2> QED
      BY <2>1 DEF Calls
  <1>6. Calls' = [Calls EXCEPT ![p] = Settles(Calls[p], result)]
    BY <1>4 DEF Calls
  <1>7. Calls' = [Calls EXCEPT ![p].effected = TRUE, ![p].result = result]
    BY <1>5, <1>6 DEF Settles
  <1>8. ~Calls[p].effected
    BY <1>3, EffectedIs DEF Calls
  <1> QED
    BY <1>7, <1>8 DEF Abstract!TakesEffect, Calls

(* A full queue, or an empty one, is so as it is found to be.              *)
LEMMA Apartness ==
  ASSUME CoreQueueAssumption, NEW a \in Index, NEW b \in Index, NEW n \in 0 .. QueueLength
  PROVE  /\ b = (a + n) % IndexLimit =>
              \A c \in Index : Apart(c, b) <= MaxCalls /\ Apart(c, a) <= QueueLength =>
                                 Apart(c, a) = Apart(c, b) + n
         /\ Apart(a, b) <= MaxCalls /\ Apart(b, a) <= QueueLength => a = b
  <1>1. /\ IndexLimit \in Nat \ {0} /\ a \in 0 .. IndexLimit - 1 /\ b \in 0 .. IndexLimit - 1
        /\ IndexLimit > MaxCalls + QueueLength /\ Index = 0 .. IndexLimit - 1
        /\ MaxCalls \in Nat /\ QueueLength \in Nat
    BY Sizes
  <1>2. ASSUME NEW i \in 0 .. IndexLimit - 1, NEW j \in 0 .. IndexLimit - 1
        PROVE  Apart(i, j) = IF j <= i THEN i - j ELSE (i - j) + IndexLimit
    BY <1>1, Difference DEF Apart
  <1>3. (a + n) % IndexLimit = IF a + n < IndexLimit THEN a + n ELSE (a + n) - IndexLimit
    <2>1. a % IndexLimit = a
      <3>1. (IndexLimit * 0 + a) % IndexLimit = a
        BY <1>1, Remainder
      <3> QED
        BY <1>1, <3>1
    <2>2. n \in 0 .. IndexLimit /\ a \in Nat
      BY <1>1
    <2>3. (a + n) % IndexLimit = IF (a % IndexLimit) + n < IndexLimit
                                 THEN (a % IndexLimit) + n ELSE ((a % IndexLimit) + n) - IndexLimit
      BY <1>1, <2>2, Offset
    <2> QED
      BY <2>1, <2>3
  <1>4. ASSUME b = (a + n) % IndexLimit, NEW c \in Index, Apart(c, b) <= MaxCalls,
               Apart(c, a) <= QueueLength
        PROVE  Apart(c, a) = Apart(c, b) + n
    <2>1. c \in 0 .. IndexLimit - 1 /\ n \in Nat
      BY <1>1
    <2>2. Apart(c, a) = IF a <= c THEN c - a ELSE (c - a) + IndexLimit
      BY <1>1, <1>2, <2>1
    <2>3. Apart(c, b) = IF b <= c THEN c - b ELSE (c - b) + IndexLimit
      BY <1>1, <1>2, <2>1
    <2>4. b = IF a + n < IndexLimit THEN a + n ELSE (a + n) - IndexLimit
      BY <1>3, <1>4
    <2> DEFINE ca == Apart(c, a)
               cb == Apart(c, b)
    <2> HIDE DEF ca, cb
    <2>5. ca <= QueueLength /\ cb <= MaxCalls
      BY <1>4 DEF ca, cb
    <2>6. ca = cb + n
      BY <1>1, <2>1, <2>2, <2>3, <2>4, <2>5 DEF ca, cb
    <2> QED
      BY <2>6 DEF ca, cb
  <1>5. ASSUME Apart(a, b) <= MaxCalls, Apart(b, a) <= QueueLength
        PROVE  a = b
    <2>1. Apart(a, b) = IF b <= a THEN a - b ELSE (a - b) + IndexLimit
      BY <1>1, <1>2
    <2>2. Apart(b, a) = IF a <= b THEN b - a ELSE (b - a) + IndexLimit
      BY <1>1, <1>2
    <2> QED
      BY <1>1, <1>5, <2>1, <2>2
  <1> QED
    BY <1>4, <1>5

LEMMA RefusedIs ==
  ASSUME CoreQueueAssumption, CoreInv, NEW t \in Thread, op[t].pc = "bound", Refused(t)
  PROVE  /\ op[t].kind = "enqueue" => Dist = QueueLength
         /\ op[t].kind = "dequeue" => Dist = 0
  <1>1. /\ head \in Index /\ tail \in Index /\ op[t].index \in Index /\ calls \in 0 .. MaxCalls
        /\ QueueLength \in Nat /\ MaxCalls \in Nat
    BY Types, Sizes DEF CoreInv, Ops
  <1>2. Dist = Apart(tail, head) /\ Dist <= QueueLength /\ Dist \in Nat
    BY AtIndices DEF CoreInv, Shape, Dist, Apart
  <1>3. Behind(op[t]) <= MaxCalls /\ Behind(op[t]) \in Nat
    <2>1. Behind(op[t]) + Cardinality(Unmoved) <= calls /\ Cardinality(Unmoved) \in Nat
      BY UnmovedFacts DEF CoreInv, Counted
    <2>2. Behind(op[t]) \in Nat
      <3>1. IndexFor(op[t].kind) \in Index
        BY <1>1 DEF IndexFor
      <3> QED
        BY <1>1, <3>1, ApartFacts DEF Behind, Apart
    <2> QED
      BY <1>1, <2>1, <2>2
  <1>4. CASE op[t].kind = "enqueue"
    <2>1. Behind(op[t]) = Apart(tail, op[t].index)
      BY <1>4 DEF Behind, IndexFor, Apart
    <2>2. op[t].index = (head + QueueLength) % IndexLimit
      BY <1>4 DEF Refused
    <2>3. QueueLength \in 0 .. QueueLength
      BY <1>1
    <2>4. Apart(tail, head) = Apart(tail, op[t].index) + QueueLength
      BY <1>1, <1>2, <1>3, <2>1, <2>2, <2>3, Apartness
    <2> QED
      BY <1>1, <1>2, <1>3, <1>4, <2>1, <2>4
  <1>5. CASE op[t].kind = "dequeue"
    <2>1. Behind(op[t]) = Apart(head, op[t].index)
      BY <1>5 DEF Behind, IndexFor, Apart
    <2>2. op[t].index = tail
      BY <1>5 DEF Refused
    <2>3. 0 \in 0 .. QueueLength
      BY <1>1
    <2>4. head = tail
      BY <1>1, <1>2, <1>3, <2>1, <2>2, <2>3, Apartness
    <2>5. Apart(tail, head) = 0
      BY <1>1, <2>4, ApartFacts
    <2> QED
      BY <1>2, <1>5, <2>5
  <1> QED
    BY <1>4, <1>5

LEMMA TestBoundStep ==
  ASSUME CoreQueueAssumption, CoreInv, CoreInv', NEW t \in Thread, TestBound(t)
  PROVE  Abstract!Next \/ UNCHANGED Abstract!vars
  <1>1. op \in [Thread -> Ops] /\ op[t] \in Ops
    BY Types DEF CoreInv
  <1>2. /\ \A u \in Thread : u # t => op'[u] = op[u]
        /\ op'[t].pc = (IF Refused(t) THEN "return" ELSE "link")
        /\ op'[t].kind = op[t].kind /\ op'[t].item = op[t].item
        /\ op'[t].slot = op[t].slot /\ (op'[t].settled <=> op[t].settled)
    BY <1>1 DEF TestBound, Goto, Ops
  <1>3. UNCHANGED queue /\ op[t].pc = "bound"
    BY DEF TestBound, At
  <1>4. CASE ~Refused(t)
    <2>1. op'[t].pc # "return"
      BY <1>2, <1>4
    <2> QED
      BY <1>2, <1>3, <2>1, UnseenEarly
  <1>5. CASE Refused(t)
    <2>2. Sound(op[t]) /\ ~op[t].settled /\ op[t].kind \in {"enqueue", "dequeue"}
      BY <1>1, <1>3 DEF CoreInv, Sound, Ops
    <2>3. ~Lags(op[t]) /\ ~Lags(op'[t])
      BY <1>2, <2>2 DEF Lags
    <2>4. /\ Contents' = Contents /\ (Eff(op[t])' <=> Eff(op'[t]))
          /\ \A v \in Thread : v # t => AbstractCall(v)' = AbstractCall(v)
      BY <1>2, <1>3, <2>3, ContentsStay
    <2>5. ~Eff(op[t]) /\ Eff(op[t])'
      BY <1>2, <1>3, <1>5, <2>2, <2>4 DEF Eff
    <2>6. Contents' = Contents
      BY <2>4
    <2>7. Calls[t].kind = op[t].kind
      BY EffectedIs DEF Calls
    <2>8. Len(Contents) = Dist /\ (Contents = <<>> <=> Dist = 0)
      BY ContentsAre
    <2>9. CASE op[t].kind = "enqueue"
      <3>1. FALSE = Result(op[t])'
        <4>1. ~op'[t].settled /\ op'[t].settled \in BOOLEAN
          BY <1>2, <2>2 DEF CoreInv, TypeOK
        <4>2. op'[t].settled = FALSE
          BY <4>1
        <4> QED
          BY <1>2, <2>9, <4>2, Zenon DEF Result
      <3>2. Abstract!TakesEffect(t, FALSE)
        BY <1>2, <2>4, <2>5, <3>1, EffectStep, Zenon
      <3>3. Dist = QueueLength
        BY <1>3, <1>5, <2>9, RefusedIs
      <3>4. Abstract!Refuse(t)
        BY <2>6, <2>7, <2>8, <2>9, <3>2, <3>3, Zenon DEF Abstract!Refuse, Calls
      <3> QED
        BY <3>4 DEF Abstract!Next
    <2>10. CASE op[t].kind = "dequeue"
      <3>1. NULL = Result(op[t])'
        <4>1. op[t].slot = NULL
          BY <1>3, <2>2 DEF Sound
        <4> QED
          BY <1>2, <2>10, <4>1 DEF Result
      <3>2. Abstract!TakesEffect(t, NULL)
        BY <1>2, <2>4, <2>5, <3>1, EffectStep, Zenon
      <3>3. Dist = 0
        BY <1>3, <1>5, <2>10, RefusedIs
      <3>4. NULL # <<>>
        BY DEF CoreQueueAssumption
      <3>5. FALSE = (NULL = <<>>)
        BY <3>4
      <3>6. Abstract!FindEmpty(t)
        BY <2>6, <2>7, <2>8, <2>10, <3>2, <3>3, <3>5, Zenon DEF Abstract!FindEmpty, Calls
      <3> QED
        BY <3>6 DEF Abstract!Next
    <2> QED
      BY <2>2, <2>9, <2>10
  <1> QED
    BY <1>4, <1>5

LEMMA MoveStep ==
  ASSUME CoreQueueAssumption, CoreInv, CoreInv', NEW t \in Thread, MoveSucceedsAt(t)
  PROVE  Abstract!Next
  <1> DEFINE o == op[t]
  <1>1. /\ o.index = IndexFor(o.kind) /\ o.pc = "moveIndex"
        /\ o.kind \in {"enqueue", "dequeue"} /\ Lag(o.kind)
        /\ \A u \in Thread : u # t => op'[u] = op[u]
        /\ op'[t].pc = (IF o.settled THEN "return" ELSE "read")
        /\ op'[t].kind = o.kind /\ op'[t].item = o.item /\ op'[t].index = o.index
        /\ op'[t].slot = o.slot /\ (op'[t].settled <=> o.settled)
        /\ o.kind = "enqueue" => head' = head /\ Dist' = Dist + 1 /\ Dist < QueueLength
        /\ o.kind = "dequeue" => head' = Following(head) /\ Dist' = Dist - 1 /\ Dist > 0
    BY MoveFacts
  <1>2. /\ \A u \in Thread : Lags(op[u])' <=> op[u].kind # o.kind /\ Lags(op[u])
        /\ \A k \in {"enqueue", "dequeue"} : Lag(k)' <=> k # o.kind /\ Lag(k)
        /\ \A u \in Thread : op'[u].kind = op[u].kind /\ op'[u].index = op[u].index
                             /\ (op'[u].settled <=> op[u].settled)
    BY MoveLags
  <1>3. \A u \in Thread : op'[u].slot = op[u].slot /\ op'[u].item = op[u].item
    BY <1>1
  <1>4. q' = q
    BY DEF MoveSucceedsAt
  <1>5. /\ Dist \in 0 .. QueueLength /\ Dist \in Nat /\ QueueLength \in Nat \ {0}
        /\ Mask(tail) = Mask(head + Dist) /\ Mask(head + 0) = Mask(head)
        /\ \A i \in 0 .. QueueLength - 1 : Mask(Following(head) + i) = Mask(head + (i + 1))
        /\ head \in Index /\ Following(head) \in Index
    <2>1. head \in Index /\ tail \in Index /\ Dist <= QueueLength
      BY Types DEF CoreInv, Shape
    <2> QED
      BY <2>1, PlaceFacts, FollowingFacts, Sizes
  <1>6. /\ Contents = [i \in 1 .. Dist |-> IF i = 1 THEN Oldest ELSE q[Mask(head + (i - 1))]]
        /\ Contents \in [1 .. Dist -> Items] /\ Len(Contents) = Dist
        /\ Contents = <<>> <=> Dist = 0
    BY ContentsAre
  <1>7. Contents' = [i \in 1 .. Dist' |-> IF i = 1 THEN Oldest'
                                          ELSE q'[Mask(head' + (i - 1))]]
    BY ContentsThen DEF Mask
  <1> HIDE DEF o
  <1>8. PICK p \in Thread : op[p].kind = o.kind /\ Lags(op[p])
    BY <1>1 DEF Lag
  <1>9. /\ op[p].settled /\ op[p].index = IndexFor(o.kind)
        /\ op[p].pc \in {"linkIndex", "moveIndex"}
        /\ Sound(op[p]) /\ Knows(op[p]) /\ op[p] \in Ops
    BY <1>8, LagBounds, Types DEF CoreInv, Lags
  <1>10. ~Eff(op[p]) /\ Eff(op[p])'
    <2>1. ~Eff(op[p])
      BY <1>8, <1>9 DEF Eff
    <2>2. op'[p].settled /\ ~Lags(op[p])'
      BY <1>2, <1>8, <1>9
    <2> QED
      BY <2>1, <2>2 DEF Eff
  <1>11. ASSUME NEW v \in Thread, v # p
         PROVE  AbstractCall(v)' = AbstractCall(v)
    <2>1. Eff(op[v])' <=> op'[v].pc = "return" \/ (op[v].settled /\ ~Lags(op[v])')
      BY <1>2 DEF Eff
    <2>2. op[v].kind = o.kind => ~Lags(op[v])
      BY <1>8, <1>11 DEF CoreInv, Alone
    <2>3. Lags(op[v])' <=> Lags(op[v])
      BY <1>2, <2>2
    <2>4. op'[v].pc = "return" <=> op[v].pc = "return"
      <3>1. CASE v # t
        BY <1>1, <3>1
      <3>2. CASE v = t
        <4>1. ~o.settled
          BY <1>1, <2>2, <3>2 DEF Lags, o
        <4> QED
          BY <1>1, <3>2, <4>1 DEF o
      <3> QED
        BY <3>1, <3>2
    <2>5. Eff(op[v])' <=> Eff(op[v])
      BY <2>1, <2>3, <2>4 DEF Eff
    <2> QED
      BY <1>2, <1>3, <2>5, CallStays
  <1>12. Calls[p].kind = op[p].kind /\ Calls[p].item = op[p].item
    BY EffectedIs DEF Calls
  <1>13. \A result : result = Result(op[p])' => Abstract!TakesEffect(p, result)
    BY <1>2, <1>3, <1>10, <1>11, EffectStep
  <1>14. CASE o.kind = "enqueue"
    <2>1. op[p].item \in Items /\ q[Mask(tail)] = op[p].item
      BY <1>8, <1>9, <1>14 DEF Sound, Knows, IndexFor, Ops
    <2>2. TRUE = Result(op[p])'
      <3>1. op'[p].settled /\ op'[p].settled \in BOOLEAN
        BY <1>2, <1>9 DEF CoreInv, TypeOK
      <3>2. op'[p].settled = TRUE
        BY <3>1
      <3>3. op'[p].kind = "enqueue"
        BY <1>2, <1>8, <1>14
      <3> QED
        BY <3>2, <3>3, Zenon DEF Result
    <2>3. Abstract!TakesEffect(p, TRUE)
      BY <1>13, <2>2
    <2>4. Lag("dequeue")' <=> Lag("dequeue")
      BY <1>2, <1>14
    <2>5. Dist > 0 => Oldest' = Oldest
      <3>1. CASE Lag("dequeue")
        <4>1. PICK u \in Thread : op[u].kind = "dequeue" /\ Lags(op[u])
          BY <3>1 DEF Lag
        <4>2. op'[u].kind = "dequeue" /\ Lags(op[u])' /\ op'[u].slot = op[u].slot
          BY <1>2, <1>3, <1>14, <4>1
        <4>3. Oldest' = op'[u].slot
          BY <4>2, OldestThen
        <4> QED
          BY <4>1, <4>2, <4>3, OldestIs
      <3>2. CASE ~Lag("dequeue")
        <4>1. Oldest' = q'[Mask(head')]
          BY <2>4, <3>2, OldestThen DEF Mask
        <4> QED
          BY <1>1, <1>4, <1>14, <3>2, <4>1, OldestIs
      <3> QED
        BY <3>1, <3>2
    <2>6. Dist = 0 => Oldest' = op[p].item
      <3> SUFFICES ASSUME Dist = 0
                   PROVE  Oldest' = op[p].item
        OBVIOUS
      <3>1. ~Lag("dequeue")'
        BY <2>4, LagBounds
      <3>2. Oldest' = q'[Mask(head')]
        BY <3>1, OldestThen DEF Mask
      <3>3. Mask(head) = Mask(tail)
        BY <1>5
      <3> QED
        BY <1>1, <1>4, <1>14, <2>1, <3>2, <3>3
    <2>7. ASSUME NEW i \in 1 .. Dist + 1
          PROVE  (IF i = 1 THEN Oldest' ELSE q'[Mask(head' + (i - 1))])
                   = IF i <= Dist THEN Contents[i] ELSE op[p].item
      <3>1. CASE i <= Dist
        <4>1. i \in 1 .. Dist /\ Dist > 0
          BY <1>5, <3>1
        <4>2. Contents[i] = IF i = 1 THEN Oldest ELSE q[Mask(head + (i - 1))]
          BY <1>6, <4>1
        <4> QED
          BY <1>1, <1>4, <1>14, <2>5, <3>1, <4>1, <4>2
      <3>2. CASE ~(i <= Dist)
        <4>1. i = Dist + 1 /\ i - 1 = Dist /\ (i = 1 <=> Dist = 0)
          BY <1>5, <3>2
        <4>2. q'[Mask(head' + (i - 1))] = op[p].item
          BY <1>1, <1>4, <1>5, <1>14, <2>1, <4>1
        <4> QED
          BY <2>6, <3>2, <4>1, <4>2
      <3> QED
        BY <3>1, <3>2
    <2>8. Contents' = Append(Contents, op[p].item)
      <3>1. Contents' = [i \in 1 .. Dist + 1 |-> IF i <= Dist THEN Contents[i]
                                                 ELSE op[p].item]
        <4>1. Dist' = Dist + 1
          BY <1>1, <1>14
        <4> QED
          BY <1>7, <2>7, <4>1
      <3>2. Append(Contents, op[p].item) =
              [i \in 1 .. Dist + 1 |-> IF i <= Dist THEN Contents[i] ELSE op[p].item]
        BY <1>5, <1>6, <2>1, SequenceFacts
      <3> QED
        BY <3>1, <3>2
    <2>9. Len(Contents) < QueueLength
      BY <1>1, <1>6, <1>14
    <2>10. TRUE = (NULL = NULL)
      OBVIOUS
    <2>11. Contents' = Append(Contents, Calls[p].item) /\ Calls[p].kind = "enqueue"
      BY <1>8, <1>12, <1>14, <2>8
    <2>12. Abstract!TakesEffect(p, NULL = NULL)
      BY <2>3, <2>10, Zenon
    <2>13. Abstract!Insert(p)
      BY <2>9, <2>11, <2>12, Zenon DEF Abstract!Insert, Calls
    <2> QED
      BY <2>13 DEF Abstract!Next
  <1>15. CASE o.kind = "dequeue"
    <2>1. Dist > 0 /\ head' = Following(head) /\ Dist' = Dist - 1
      BY <1>1, <1>15
    <2>2. Oldest = op[p].slot
      BY <1>8, <1>15, OldestIs
    <2>3. op[p].slot = Result(op[p])'
      BY <1>2, <1>3, <1>8, <1>15 DEF Result
    <2>4. Contents[1] = op[p].slot
      <3>1. 1 \in 1 .. Dist
        BY <1>5, <2>1
      <3> QED
        BY <1>6, <2>2, <3>1
    <2>5. /\ Head(Contents) = Contents[1] /\ Contents # <<>>
          /\ Tail(Contents) = [i \in 1 .. Dist - 1 |-> Contents[i + 1]]
      <3>1. Dist \in Nat /\ Dist > 0 /\ Contents \in [1 .. Dist -> Items]
        BY <1>5, <1>6, <2>1
      <3>2. /\ Head(Contents) = Contents[1]
            /\ Tail(Contents) = [i \in 1 .. Dist - 1 |-> Contents[i + 1]]
        BY <3>1, HeadTailFacts
      <3> QED
        BY <1>5, <1>6, <2>1, <3>2
    <2>6. Abstract!TakesEffect(p, Head(Contents))
      <3>1. Head(Contents) = Result(op[p])'
        BY <2>3, <2>4, <2>5
      <3> QED
        BY <1>13, <3>1
    <2>7. Oldest' = q[Mask(Following(head))]
      <3>1. ~Lag("dequeue")'
        BY <1>2, <1>15
      <3>2. Oldest' = q'[Mask(head')]
        BY <3>1, OldestThen DEF Mask
      <3> QED
        BY <1>4, <2>1, <3>2
    <2>8. ASSUME NEW i \in 1 .. Dist - 1
          PROVE  (IF i = 1 THEN Oldest' ELSE q'[Mask(head' + (i - 1))]) = Contents[i + 1]
      <3>1. i + 1 \in 1 .. Dist /\ i + 1 # 1 /\ (i + 1) - 1 = i
        BY <1>5
      <3>2. Contents[i + 1] = q[Mask(head + i)]
        BY <1>6, <3>1
      <3>3. PICK j \in 0 .. QueueLength - 1 : j = i - 1 /\ j + 1 = i
        BY <1>5
      <3>4. Mask(Following(head) + j) = Mask(head + i)
        BY <1>5, <3>3
      <3>5. i = 1 => Following(head) + j = Following(head)
        BY <1>5, <3>3, Sizes
      <3> QED
        BY <1>4, <2>1, <2>7, <3>2, <3>3, <3>4, <3>5
    <2>9. Contents' = Tail(Contents)
      BY <1>7, <2>1, <2>5, <2>8
    <2>10. Calls[p].kind = "dequeue"
      BY <1>8, <1>12, <1>15
    <2>11. Abstract!Remove(p)
      BY <2>5, <2>6, <2>9, <2>10, Zenon DEF Abstract!Remove, Calls
    <2> QED
      BY <2>11 DEF Abstract!Next
  <1> QED
    BY <1>1, <1>14, <1>15 DEF o

(* A thread that begins or ends an operation.                              *)
LEMMA CallFacts ==
  ASSUME CoreQueueAssumption, CoreInv, NEW t \in Thread, NEW kind, NEW item,
         (kind = "enqueue" /\ item \in Items) \/ (kind = "dequeue" /\ item = NULL),
         Call(t, kind, item), CoreInv'
  PROVE  /\ Contents' = Contents /\ Calls[t] = Abstract!NoCall
         /\ Calls' = [Calls EXCEPT ![t] = [kind |-> kind, item |-> item,
                                           effected |-> FALSE, result |-> NULL]]
  <1>1. op \in [Thread -> Ops] /\ op[t] \in Ops /\ 0 \in Index
    BY Types, Sizes DEF CoreInv
  <1>2. /\ \A u \in Thread : u # t => op'[u] = op[u]
        /\ op'[t].pc = "read" /\ op'[t].kind = kind /\ op'[t].item = item /\ ~op'[t].settled
    BY <1>1 DEF Call, Idle, Ops
  <1>3. UNCHANGED queue /\ op[t] = Idle
    BY DEF Call, Active, CoreInv, Sound
  <1>4. op[t].pc = "idle" /\ ~op[t].settled /\ op[t].kind = "none" /\ op[t].item = NULL
    BY <1>3 DEF Idle
  <1>5. ~Lags(op[t]) /\ ~Lags(op'[t]) /\ ~Eff(op[t]) /\ ~Eff(op'[t])
    BY <1>2, <1>4 DEF Lags, Eff
  <1>6. /\ Contents' = Contents /\ (Eff(op[t])' <=> Eff(op'[t]))
        /\ \A u \in Thread : u # t => AbstractCall(u)' = AbstractCall(u)
    BY <1>2, <1>3, <1>5, ContentsStay
  <1>7. AbstractCall(t) = Abstract!NoCall
    <2>1. Effected(t) = FALSE
      BY <1>5, EffectedIs
    <2> QED
      BY <1>4, <2>1, EffectedIs DEF Abstract!NoCall
  <1>8. AbstractCall(t)' = [kind |-> kind, item |-> item, effected |-> FALSE, result |-> NULL]
    <2>1. Effected(t)' = FALSE
      BY <1>5, <1>6, EffectedThen
    <2>2. AbstractCall(t)' = [kind |-> op'[t].kind, item |-> op'[t].item,
                              effected |-> Effected(t)',
                              result |-> (IF ~Effected(t) THEN NULL ELSE Result(op[t]))']
      BY EffectedThen
    <2>3. (IF ~Effected(t) THEN NULL ELSE Result(op[t]))' = NULL
      BY <2>1
    <2> QED
      BY <1>2, <2>1, <2>2, <2>3
  <1> QED
    BY <1>6, <1>7, <1>8 DEF Calls

Called(kind, item) ==
  IF kind = "enqueue" THEN [Abstract!NoCall EXCEPT !.kind = "enqueue", !.item = item]
  ELSE [Abstract!NoCall EXCEPT !.kind = "dequeue"]

LEMMA CalledFacts ==
  ASSUME NEW item, NEW kind \in {"enqueue", "dequeue"}, kind = "dequeue" => item = NULL
  PROVE  Called(kind, item) =
           [kind |-> kind, item |-> item, effected |-> FALSE, result |-> NULL]
  <1> DEFINE K == {"none", "enqueue", "dequeue"}
             C == [kind : K, item : {NULL, item}, effected : BOOLEAN, result : {NULL}]
             n == Abstract!NoCall
             t == [n EXCEPT !.kind = "enqueue", !.item = item]
             s == [n EXCEPT !.kind = "dequeue"]
             u == [kind |-> kind, item |-> item, effected |-> FALSE, result |-> NULL]
  <1>1. n \in C /\ n.item = NULL /\ n.effected = FALSE /\ n.result = NULL
    BY DEF Abstract!NoCall
  <1>2. u \in C /\ u.kind = kind /\ u.item = item /\ u.effected = FALSE /\ u.result = NULL
    OBVIOUS
  <1> HIDE DEF n, u
  <1>3. t \in C /\ t.kind = "enqueue" /\ t.item = item /\ t.effected = n.effected
    BY <1>1
  <1>4. s \in C /\ s.kind = "dequeue" /\ s.item = n.item /\ s.effected = n.effected
    BY <1>1
  <1>5. \A x, y \in C : x.kind = y.kind /\ x.item = y.item /\ x.effected = y.effected => x = y
    OBVIOUS
  <1> HIDE DEF t, s, C
  <1>6. t.effected = u.effected /\ s.effected = u.effected
    BY <1>1, <1>2, <1>3, <1>4, Zenon
  <1>7. (kind = "enqueue" => t = u) /\ (kind = "dequeue" => s = u)
    BY <1>1, <1>2, <1>3, <1>4, <1>5, <1>6
  <1> QED
    BY <1>7 DEF t, s, u, n, Called

LEMMA CallStep ==
  ASSUME CoreQueueAssumption, CoreInv, CoreInv', NEW t \in Thread
  PROVE  /\ \A item \in Items : OSEnqueueCoreQueue(t, item) => Abstract!Next
         /\ OSDequeueCoreQueue(t) => Abstract!Next
  <1>1. ASSUME NEW item \in Items, OSEnqueueCoreQueue(t, item)
        PROVE  Abstract!Next
    <2>1. /\ Contents' = Contents /\ Calls[t] = Abstract!NoCall
          /\ Calls' = [Calls EXCEPT ![t] = [kind |-> "enqueue", item |-> item,
                                            effected |-> FALSE, result |-> NULL]]
      BY <1>1, CallFacts DEF OSEnqueueCoreQueue
    <2>2. Called("enqueue", item) =
            [kind |-> "enqueue", item |-> item, effected |-> FALSE, result |-> NULL]
      BY CalledFacts
    <2>3. Called("enqueue", item) = [Abstract!NoCall EXCEPT !.kind = "enqueue", !.item = item]
      BY Zenon DEF Called
    <2>4. Abstract!Enqueue(t, item)
      BY <2>1, <2>2, <2>3, Zenon DEF Abstract!Enqueue, Calls
    <2> QED
      BY <2>4 DEF Abstract!Next
  <1>2. ASSUME OSDequeueCoreQueue(t)
        PROVE  Abstract!Next
    <2>1. /\ Contents' = Contents /\ Calls[t] = Abstract!NoCall
          /\ Calls' = [Calls EXCEPT ![t] = [kind |-> "dequeue", item |-> NULL,
                                            effected |-> FALSE, result |-> NULL]]
      BY <1>2, CallFacts DEF OSDequeueCoreQueue
    <2>2. Called("dequeue", NULL) =
            [kind |-> "dequeue", item |-> NULL, effected |-> FALSE, result |-> NULL]
      BY CalledFacts
    <2>3. Called("dequeue", NULL) = [Abstract!NoCall EXCEPT !.kind = "dequeue"]
      BY DEF Called
    <2>4. Abstract!Dequeue(t)
      BY <2>1, <2>2, <2>3, Zenon DEF Abstract!Dequeue, Calls
    <2> QED
      BY <2>4 DEF Abstract!Next
  <1> QED
    BY <1>1, <1>2

LEMMA ReturnStep ==
  ASSUME CoreQueueAssumption, CoreInv, CoreInv', NEW t \in Thread, Return(t)
  PROVE  Abstract!Next
  <1>1. op \in [Thread -> Ops] /\ op[t] \in Ops
    BY Types DEF CoreInv
  <1>2. /\ \A u \in Thread : u # t => op'[u] = op[u]
        /\ op'[t] = Idle /\ UNCHANGED queue /\ op[t].pc = "return"
    BY <1>1 DEF Return, At
  <1>3. op'[t].pc = "idle" /\ ~op'[t].settled /\ op'[t].kind = "none" /\ op'[t].item = NULL
    BY <1>2 DEF Idle
  <1>4. Knows(op[t])
    BY DEF CoreInv
  <1>5. ~Lags(op[t]) /\ ~Lags(op'[t]) /\ Eff(op[t]) /\ ~Eff(op'[t])
    BY <1>2, <1>3, <1>4 DEF Lags, Eff, Knows
  <1>6. /\ Contents' = Contents /\ (Eff(op[t])' <=> Eff(op'[t]))
        /\ \A u \in Thread : u # t => AbstractCall(u)' = AbstractCall(u)
    BY <1>2, <1>5, ContentsStay
  <1>7. AbstractCall(t)' = Abstract!NoCall
    <2>1. Effected(t)' = FALSE
      BY <1>5, <1>6, EffectedThen
    <2>2. AbstractCall(t)' = [kind |-> op'[t].kind, item |-> op'[t].item,
                              effected |-> Effected(t)',
                              result |-> (IF ~Effected(t) THEN NULL ELSE Result(op[t]))']
      BY EffectedThen
    <2>3. (IF ~Effected(t) THEN NULL ELSE Result(op[t]))' = NULL
      BY <2>1
    <2> QED
      BY <1>3, <2>1, <2>2, <2>3 DEF Abstract!NoCall
  <1>8. Calls[t].effected
    BY <1>5, EffectedIs DEF Calls
  <1>9. Calls' = [Calls EXCEPT ![t] = Abstract!NoCall]
    BY <1>6, <1>7 DEF Calls
  <1>10. Abstract!Return(t)
    BY <1>6, <1>8, <1>9, Zenon DEF Abstract!Return, Calls
  <1> QED
    BY <1>10 DEF Abstract!Next

(* Every step of the queue is a step of the abstract one, or none.         *)
LEMMA AtomStep ==
  ASSUME CoreQueueAssumption, CoreInv, CoreInv', [Next]_coreVars
  PROVE  [Abstract!Next]_(Abstract!vars)
  <1>1. ASSUME NEW t \in Thread, StorePlace(t)
        PROVE  UNCHANGED Abstract!vars
    <2>1. CASE StoreSucceedsAt(t)
      BY <2>1, UnseenStore
    <2>2. CASE At(t, "store") /\ op' = [op EXCEPT ![t].pc = "read", ![t].slot = NULL]
               /\ UNCHANGED queue
      BY <2>2, UnseenSteps
    <2> QED
      BY <1>1, <2>1, <2>2 DEF StorePlace, StoreSucceedsAt, queue
  <1>2. ASSUME NEW t \in Thread, MoveIndex(t)
        PROVE  Abstract!Next \/ UNCHANGED Abstract!vars
    <2>1. CASE MoveSucceedsAt(t)
      BY <2>1, MoveStep
    <2>2. CASE At(t, "moveIndex") /\ Goto(t, AfterFailure(t)) /\ UNCHANGED queue
      BY <2>2, UnseenSteps
    <2> QED
      BY <1>2, <2>1, <2>2 DEF MoveIndex, MoveSucceedsAt, Following, queue
  <1>3. CASE UNCHANGED coreVars
    <2>1. q' = q /\ head' = head /\ tail' = tail /\ op' = op
      BY <1>3 DEF coreVars, queue
    <2>2. Contents' = Contents
      BY <2>1 DEF Contents, Oldest, Lagging, IndexOf, Mask
    <2>3. Calls' = Calls
      BY <2>1 DEF Calls, AbstractCall, Effected, IndexOf
    <2> QED
      BY <2>2, <2>3 DEF Abstract!vars, Calls
  <1> QED
    BY <1>1, <1>2, <1>3, CallStep, TestBoundStep, ReturnStep, UnseenSteps DEF Next

LEMMA InitStep ==
  ASSUME CoreQueueAssumption, Init
  PROVE  Abstract!Init
  <1>1. CoreInv
    BY CoreInit
  <1>2. Contents \in [1 .. Dist -> Items] /\ Dist \in 0 .. QueueLength
    BY <1>1, ContentsAre, AtIndices
  <1>3. Calls = [t \in Thread |-> Abstract!NoCall]
    <2>1. ASSUME NEW t \in Thread
          PROVE  AbstractCall(t) = Abstract!NoCall
      <3>1. op[t] = Idle
        BY DEF Init, AtRest
      <3>2. op[t].pc = "idle" /\ ~op[t].settled /\ op[t].kind = "none" /\ op[t].item = NULL
        BY <3>1 DEF Idle
      <3>3. Effected(t) = FALSE
        BY <3>2, EffectedIs DEF Eff
      <3> QED
        BY <3>2, <3>3, EffectedIs DEF Abstract!NoCall
    <2> QED
      BY <2>1 DEF Calls
  <1>4. Contents \in UNION {[1 .. n -> Items] : n \in 0 .. QueueLength}
    BY <1>2
  <1> QED
    BY <1>3, <1>4, Zenon DEF Abstract!Init, Calls

(* The variables of the queue keep their types: the indices wrap at their  *)
(* width, and every place holds an item or NULL.                           *)
THEOREM CoreTypes ==
  ASSUME CoreQueueAssumption
  PROVE  Spec => []TypeOK
  <1>1. CoreInv => TypeOK
    BY DEF CoreInv
  <1> QED
    BY <1>1, CoreInvariant, PTL

(* In every execution, with any depth of preemption on each of the cores,  *)
(* however many of the SCs fail: OSEnqueueCoreQueue and OSDequeueCoreQueue *)
(* take effect once, at one instant between their call and their return,   *)
(* as Tail or Head moves on, whoever moves it, on one queue that keeps its *)
(* items in their order; a call that finds it full or empty finds it so at *)
(* that instant; and the answer is that instant's.                         *)
THEOREM CoreAtomic ==
  ASSUME CoreQueueAssumption
  PROVE  Spec => AtomicCoreQueue
  <1>1. Init => Abstract!Init
    BY InitStep
  <1>2. CoreInv /\ CoreInv' /\ [Next]_coreVars => [Abstract!Next]_(Abstract!vars)
    BY AtomStep
  <1> QED
    BY <1>1, <1>2, CoreInvariant, PTL DEF Spec, AtomicCoreQueue, Abstract!Spec

-----------------------------------------------------------------------------
(***************************************************************************)
(* The queue between operations.                                           *)
(***************************************************************************)

(* An item is in one place, or with the one thread that is to put it in;   *)
(* and a core that no thread runs on holds no reservation.                 *)
Bears(o) == o.kind = "enqueue" /\ ~o.settled

Owned ==
  /\ \A i, j \in Place : q[i] = q[j] /\ q[i] # NULL => i = j
  /\ \A t \in Thread : Bears(op[t]) =>
       /\ \A i \in Place : q[i] # op[t].item
       /\ \A u \in Thread : u # t /\ Bears(op[u]) => op[u].item # op[t].item
  /\ \A c \in Core : monitor[c] # NULL => \E t \in Thread : t[1] = c /\ Active(t)

(* A step that gives no one an item to put in, and stores none.            *)
LEMMA OwnedKept ==
  ASSUME CoreInv, Owned, NEW t \in Thread, NEW x,
         op' \in [Thread -> Ops], op'[t] = x, \A u \in Thread : u # t => op'[u] = op[u],
         Bears(x) => Bears(op[t]) /\ x.item = op[t].item,
         \/ q' = q
         \/ /\ ~Bears(x) /\ (Bears(op[t]) \/ op[t].item = NULL)
            /\ \E p \in Place : q' = [q EXCEPT ![p] = op[t].item],
         \A c \in Core : monitor'[c] # NULL =>
           \/ monitor[c] # NULL /\ (c = t[1] => x.pc # "idle")
           \/ c = t[1] /\ x.pc # "idle"
  PROVE  Owned'
  <1>1. /\ q \in [Place -> Items \cup {NULL}] /\ op[t] \in Ops
        /\ \A u \in Thread : op[u].kind = "enqueue" <=> op[u].item # NULL
    BY Types DEF CoreInv, Sound
  <1>2. ASSUME NEW u \in Thread, Bears(op'[u])
        PROVE  Bears(op[u]) /\ op'[u].item = op[u].item /\ (u = t => Bears(x))
    BY <1>2
  <1>3. \A i \in Place : q'[i] # q[i] => q'[i] = op[t].item /\ ~Bears(x)
    BY <1>1
  <1>4. ASSUME NEW i \in Place, NEW j \in Place, q'[i] = q'[j], q'[i] # NULL
        PROVE  i = j
    <2>1. CASE q' = q
      BY <1>4, <2>1 DEF Owned
    <2>2. ASSUME NEW p \in Place, q' = [q EXCEPT ![p] = op[t].item],
                 Bears(op[t]) \/ op[t].item = NULL
          PROVE  i = j
      <3>1. \A k \in Place : q'[k] = IF k = p THEN op[t].item ELSE q[k]
        BY <1>1, <2>2
      <3>2. Bears(op[t]) => \A k \in Place : q[k] # op[t].item
        BY DEF Owned
      <3>3. CASE i = p \/ j = p
        BY <1>4, <2>2, <3>1, <3>2, <3>3
      <3>4. CASE i # p /\ j # p
        BY <1>4, <3>1, <3>4 DEF Owned
      <3> QED
        BY <3>3, <3>4
    <2> QED
      BY <2>1, <2>2
  <1>5. ASSUME NEW u \in Thread, Bears(op'[u])
        PROVE  /\ \A i \in Place : q'[i] # op'[u].item
               /\ \A v \in Thread : v # u /\ Bears(op'[v]) => op'[v].item # op'[u].item
    <2>1. Bears(op[u]) /\ op'[u].item = op[u].item /\ (u = t => Bears(x))
      BY <1>2, <1>5
    <2>2. \A v \in Thread : v # u /\ Bears(op'[v]) => op'[v].item # op'[u].item
      BY <1>2, <2>1 DEF Owned
    <2>3. ASSUME NEW i \in Place, q'[i] = op'[u].item
          PROVE  FALSE
      <3>1. q[i] # op[u].item
        BY <2>1 DEF Owned
      <3>2. q'[i] = op[t].item /\ ~Bears(x)
        BY <1>3, <2>1, <2>3, <3>1
      <3>3. u # t /\ op[u].item = op[t].item /\ op[u].item # NULL
        BY <1>1, <2>1, <2>3, <3>2 DEF Bears
      <3>4. Bears(op[t])
        <4>1. q' # q
          BY <2>1, <2>3, <3>1
        <4> QED
          BY <3>3, <4>1
      <3> QED
        BY <2>1, <3>3, <3>4 DEF Owned
    <2> QED
      BY <2>2, <2>3
  <1>6. ASSUME NEW c \in Core, monitor'[c] # NULL
        PROVE  \E u \in Thread : u[1] = c /\ op'[u].pc # "idle"
    <2>1. CASE c = t[1]
      BY <1>6, <2>1
    <2>2. CASE c # t[1]
      <3>1. PICK u \in Thread : u[1] = c /\ op[u].pc # "idle"
        BY <1>6, <2>2 DEF Owned, Active
      <3> QED
        BY <2>2, <3>1
    <2> QED
      BY <2>1, <2>2
  <1> QED
    BY <1>4, <1>5, <1>6 DEF Owned, Bears, Active

(* A step of a thread that leaves its operation as it is, but for the      *)
(* places it is at and the locals.                                         *)
LEMMA OwnedGoes ==
  ASSUME CoreInv, Owned, NEW t \in Thread, op' \in [Thread -> Ops],
         \A u \in Thread : u # t => op'[u] = op[u],
         op'[t].kind = op[t].kind /\ op'[t].item = op[t].item,
         op'[t].settled = op[t].settled /\ op'[t].pc # "idle", q' = q,
         \A c \in Core : c # t[1] /\ monitor'[c] # NULL => monitor[c] # NULL
  PROVE  Owned'
  BY OwnedKept DEF Bears

LEMMA OwnedCall ==
  ASSUME CoreQueueAssumption, CoreInv, Owned, NEW t \in Thread, NEW kind, NEW item,
         \/ kind = "enqueue" /\ item \in Items /\ Free(item)
         \/ kind = "dequeue" /\ item = NULL,
         Call(t, kind, item)
  PROVE  Owned'
  <1>1. op \in [Thread -> Ops] /\ op[t] \in Ops /\ 0 \in Index
    BY Types, Sizes DEF CoreInv
  <1>2. /\ op' \in [Thread -> Ops] /\ \A u \in Thread : u # t => op'[u] = op[u]
        /\ op'[t].pc = "read" /\ op'[t].kind = kind /\ op'[t].item = item
        /\ q' = q /\ monitor' = monitor
    BY <1>1 DEF Call, Idle, Ops, queue
  <1>3. CASE kind = "dequeue"
    <2>1. ~Bears(op'[t])
      BY <1>2, <1>3 DEF Bears
    <2> QED
      BY <1>2, <2>1, OwnedKept
  <1>4. CASE kind = "enqueue"
    <2>1. /\ \A i \in Place : q[i] # item
          /\ \A u \in Thread : op[u].item # item
      BY <1>4 DEF Free
    <2>2. ASSUME NEW u \in Thread, Bears(op'[u])
          PROVE  /\ \A i \in Place : q[i] # op'[u].item
                 /\ \A v \in Thread : v # u /\ Bears(op'[v]) => op'[v].item # op'[u].item
      <3>1. CASE u = t
        BY <1>2, <2>1, <3>1
      <3>2. CASE u # t
        <4>1. op'[u] = op[u] /\ Bears(op[u]) /\ op'[u].item # item
          BY <1>2, <2>1, <2>2, <3>2
        <4>2. ASSUME NEW v \in Thread, v # u, Bears(op'[v])
              PROVE  op'[v].item # op'[u].item
          <5>1. CASE v = t
            BY <1>2, <4>1, <5>1
          <5>2. CASE v # t
            BY <1>2, <4>1, <4>2, <5>2 DEF Owned
          <5> QED
            BY <5>1, <5>2
        <4> QED
          BY <4>1, <4>2 DEF Owned
      <3> QED
        BY <3>1, <3>2
    <2>3. \A c \in Core : monitor[c] # NULL =>
             \E u \in Thread : u[1] = c /\ op'[u].pc # "idle"
      <3> SUFFICES ASSUME NEW c \in Core, monitor[c] # NULL
                   PROVE  \E u \in Thread : u[1] = c /\ op'[u].pc # "idle"
        OBVIOUS
      <3>1. PICK u \in Thread : u[1] = c /\ op[u].pc # "idle"
        BY DEF Owned, Active
      <3>2. op'[u].pc # "idle"
        BY <1>2, <3>1
      <3> QED
        BY <3>1, <3>2
    <2>4. \A i, j \in Place : q'[i] = q'[j] /\ q'[i] # NULL => i = j
      BY <1>2 DEF Owned
    <2> QED
      BY <1>2, <2>2, <2>3, <2>4 DEF Owned, Active, Bears
  <1> QED
    BY <1>3, <1>4

LEMMA OwnedStep ==
  CoreQueueAssumption /\ CoreInv /\ CoreInv' /\ Owned /\ [Next]_coreVars => Owned'
  <1> SUFFICES ASSUME CoreQueueAssumption, CoreInv, CoreInv', Owned, [Next]_coreVars
               PROVE  Owned'
    OBVIOUS
  <1>1. ASSUME NEW t \in Thread, NEW item \in Items, OSEnqueueCoreQueue(t, item)
        PROVE  Owned'
    BY <1>1, OwnedCall DEF OSEnqueueCoreQueue
  <1>2. ASSUME NEW t \in Thread, OSDequeueCoreQueue(t)
        PROVE  Owned'
    BY <1>2, OwnedCall DEF OSDequeueCoreQueue
  <1>3. ASSUME NEW t \in Thread
        PROVE  op \in [Thread -> Ops] /\ op[t] \in Ops /\ t[1] \in Core
               /\ monitor \in [Core -> {NULL} \cup 0 .. QueueLength]
    BY <1>3, Types DEF CoreInv, Thread
  <1>4. ASSUME NEW t \in Thread,
               ReadIndex(t) \/ TestBound(t) \/ LinkPlace(t) \/ CheckIndex(t) \/ LinkIndex(t)
        PROVE  Owned'
    <2>1. /\ op' \in [Thread -> Ops] /\ \A u \in Thread : u # t => op'[u] = op[u]
          /\ op'[t].kind = op[t].kind /\ op'[t].item = op[t].item
          /\ op'[t].settled = op[t].settled /\ op'[t].pc # "idle"
      <3>1. op' \in [Thread -> Ops]
        BY DEF CoreInv, TypeOK, Ops
      <3>2. CASE ReadIndex(t)
        BY <1>3, <3>1, <3>2 DEF ReadIndex, Ops
      <3>3. CASE TestBound(t)
        BY <1>3, <3>1, <3>3 DEF TestBound, Goto, Ops
      <3>4. CASE LinkPlace(t)
        BY <1>3, <3>1, <3>4 DEF LinkPlace, Ops
      <3>5. CASE CheckIndex(t)
        BY <1>3, <3>1, <3>5 DEF CheckIndex, Ops
      <3>6. CASE LinkIndex(t)
        BY <1>3, <3>1, <3>6 DEF LinkIndex, Goto, Ops
      <3> QED
        BY <1>4, <3>2, <3>3, <3>4, <3>5, <3>6
    <2>2. q' = q /\ \A c \in Core : c # t[1] => monitor'[c] = monitor[c]
      BY <1>3, <1>4 DEF ReadIndex, TestBound, LinkPlace, CheckIndex, LinkIndex, LoadLinked, queue
    <2> QED
      BY <2>1, <2>2, OwnedGoes
  <1>5. ASSUME NEW t \in Thread, StorePlace(t)
        PROVE  Owned'
    <2>1. CASE StoreSucceedsAt(t)
      <3>1. op[t].index \in Index /\ (Bears(op[t]) \/ op[t].item = NULL) /\ ~Bears(op'[t])
            /\ op' \in [Thread -> Ops] /\ (\A u \in Thread : u # t => op'[u] = op[u])
            /\ op'[t].pc # "idle"
        BY <2>1, StoreFacts DEF Bears
      <3>2. Mask(op[t].index) \in Place /\ q' = [q EXCEPT ![Mask(op[t].index)] = op[t].item]
        BY <2>1, <3>1, Granules DEF StoreSucceedsAt
      <3>3. \A c \in Core : monitor'[c] # NULL => monitor[c] # NULL
        BY <2>1 DEF StoreSucceedsAt, StoreSucceeds
      <3> QED
        BY <3>1, <3>2, <3>3, OwnedKept
    <2>2. CASE /\ StoreFails(t) /\ q' = q
               /\ op' = [op EXCEPT ![t].pc = "read", ![t].slot = NULL]
      <3>1. /\ op' \in [Thread -> Ops] /\ \A u \in Thread : u # t => op'[u] = op[u]
            /\ op'[t].kind = op[t].kind /\ op'[t].item = op[t].item
            /\ op'[t].settled = op[t].settled /\ op'[t].pc # "idle"
        BY <1>3, <2>2 DEF Ops
      <3>2. \A c \in Core : c # t[1] => monitor'[c] = monitor[c]
        BY <1>3, <2>2 DEF StoreFails
      <3> QED
        BY <2>2, <3>1, <3>2, OwnedGoes
    <2> QED
      BY <1>5, <2>1, <2>2 DEF StorePlace, StoreSucceedsAt
  <1>6. ASSUME NEW t \in Thread, MoveIndex(t)
        PROVE  Owned'
    <2>1. CASE MoveSucceedsAt(t)
      <3>1. /\ op' \in [Thread -> Ops] /\ \A u \in Thread : u # t => op'[u] = op[u]
            /\ op'[t].kind = op[t].kind /\ op'[t].item = op[t].item
            /\ (op'[t].settled <=> op[t].settled) /\ op'[t].pc # "idle"
        BY <2>1, MoveFacts
      <3>2. q' = q /\ \A c \in Core : monitor'[c] # NULL => monitor[c] # NULL
        BY <2>1 DEF MoveSucceedsAt, StoreSucceeds
      <3>3. Bears(op'[t]) => Bears(op[t])
        BY <3>1 DEF Bears
      <3> QED
        BY <3>1, <3>2, <3>3, OwnedKept
    <2>2. CASE StoreFails(t) /\ q' = q /\ Goto(t, AfterFailure(t))
      <3>1. /\ op' \in [Thread -> Ops] /\ \A u \in Thread : u # t => op'[u] = op[u]
            /\ op'[t].kind = op[t].kind /\ op'[t].item = op[t].item
            /\ op'[t].settled = op[t].settled /\ op'[t].pc # "idle"
        BY <1>3, <2>2 DEF Goto, AfterFailure, Ops
      <3>2. \A c \in Core : c # t[1] => monitor'[c] = monitor[c]
        BY <1>3, <2>2 DEF StoreFails
      <3> QED
        BY <2>2, <3>1, <3>2, OwnedGoes
    <2> QED
      BY <1>6, <2>1, <2>2 DEF MoveIndex, MoveSucceedsAt, Following
  <1>7. ASSUME NEW t \in Thread, Return(t)
        PROVE  Owned'
    <2>1. op' \in [Thread -> Ops] /\ op'[t] = Idle /\ \A u \in Thread : u # t => op'[u] = op[u]
      <3>1. op' \in [Thread -> Ops]
        BY DEF CoreInv, TypeOK, Ops
      <3>2. op' = [op EXCEPT ![t] = Idle]
        BY <1>7 DEF Return
      <3> QED
        BY <1>3, <3>1, <3>2
    <2>2. ~Bears(Idle)
      BY DEF Bears, Idle
    <2>3. q' = q /\ monitor'[t[1]] = NULL /\ \A c \in Core : c # t[1] => monitor'[c] = monitor[c]
      BY <1>3, <1>7 DEF Return, queue
    <2> QED
      BY <2>1, <2>2, <2>3, OwnedKept
  <1>8. CASE UNCHANGED coreVars
    BY <1>8 DEF coreVars, queue, Owned, Bears, Active
  <1> QED
    BY <1>1, <1>2, <1>4, <1>5, <1>6, <1>7, <1>8 DEF Next

LEMMA OwnedInit == CoreQueueAssumption /\ Init => Owned
  <1> SUFFICES ASSUME CoreQueueAssumption, Init
               PROVE  Owned
    OBVIOUS
  <1>1. PICK held \in UNION {[1 .. n -> Items] : n \in 0 .. QueueLength} :
          /\ \A i, j \in DOMAIN held : held[i] = held[j] => i = j
          /\ q = [p \in Place |->
                   LET i == 1 + (((p + QueueLength) - Mask(head)) % QueueLength)
                   IN  IF i <= Len(held) THEN held[i] ELSE NULL]
    BY DEF Init, AtRest
  <1>2. PICK n \in 0 .. QueueLength : held \in [1 .. n -> Items]
    BY <1>1
  <1>3. /\ QueueLength \in Nat \ {0} /\ Place = 0 .. QueueLength - 1 /\ n \in Nat
        /\ head \in Nat
    BY Sizes DEF Init, CoreQueueAssumption
  <1>4. Len(held) = n
    BY <1>2, <1>3
  <1> DEFINE At1(p) == ((p + QueueLength) - (head % QueueLength)) % QueueLength
  <1>5. ASSUME NEW p \in Place
        PROVE  At1(p) \in 0 .. QueueLength - 1 /\ (head + At1(p)) % QueueLength = p
    <2>1. p \in 0 .. QueueLength - 1
      BY <1>3
    <2>2. At1(p) \in 0 .. QueueLength - 1 /\ (head + At1(p)) % QueueLength = p
          /\ (At1(p) = 0 <=> p = head % QueueLength)
      <3>1. QueueLength \in Nat \ {0} /\ head \in Nat
        BY <1>3
      <3> QED
        BY <2>1, <3>1, PlaceFrom
    <2> QED
      BY <2>2
  <1>6. \A p \in Place : q[p] = IF 1 + At1(p) <= n THEN held[1 + At1(p)] ELSE NULL
    BY <1>1, <1>4 DEF Mask
  <1> HIDE DEF At1
  <1>7. ASSUME NEW i \in Place, NEW j \in Place, q[i] = q[j], q[i] # NULL
        PROVE  i = j
    <2>1. 1 + At1(i) \in 1 .. n /\ 1 + At1(j) \in 1 .. n
      <3>1. At1(i) \in 0 .. QueueLength - 1 /\ At1(j) \in 0 .. QueueLength - 1
        BY <1>5
      <3>2. 1 + At1(i) <= n /\ 1 + At1(j) <= n
        BY <1>6, <1>7
      <3> QED
        BY <1>3, <3>1, <3>2
    <2>2. held[1 + At1(i)] = held[1 + At1(j)]
      BY <1>3, <1>6, <1>7, <2>1
    <2>3. 1 + At1(i) = 1 + At1(j)
      BY <1>1, <1>2, <2>1, <2>2
    <2>4. At1(i) = At1(j)
      BY <1>3, <1>5, <2>3
    <2> QED
      BY <1>5, <2>4
  <1>8. /\ \A t \in Thread : op[t] = Idle
        /\ \A c \in Core : monitor[c] = NULL
    BY DEF Init, AtRest
  <1>9. ~Bears(Idle)
    BY DEF Bears, Idle
  <1> QED
    BY <1>7, <1>8, <1>9 DEF Owned

Quiet == \A t \in Thread : ~Active(t)

LEMMA QuietRests == CoreQueueAssumption /\ CoreInv /\ Owned /\ Quiet => AtRest
  <1> SUFFICES ASSUME CoreQueueAssumption, CoreInv, Owned, Quiet
               PROVE  AtRest
    OBVIOUS
  <1>1. /\ op \in [Thread -> Ops] /\ monitor \in [Core -> {NULL} \cup 0 .. QueueLength]
        /\ q \in [Place -> Items \cup {NULL}] /\ head \in Index /\ tail \in Index
        /\ Dist <= QueueLength
    BY Types DEF CoreInv, Shape
  <1>2. \A t \in Thread : op[t] = Idle
    BY DEF Quiet, Active, CoreInv, Sound
  <1>3. op = [t \in Thread |-> Idle] /\ monitor = [c \in Core |-> NULL]
    BY <1>1, <1>2 DEF Owned, Quiet
  <1>4. ~Lag("enqueue") /\ ~Lag("dequeue")
    BY <1>2 DEF Lag, Lags, Idle
  <1>5. /\ QueueLength \in Nat \ {0} /\ Place = 0 .. QueueLength - 1 /\ head \in Nat
        /\ Dist \in 0 .. QueueLength /\ Dist \in Nat /\ tail = (head + Dist) % IndexLimit
        /\ \A i, j \in 0 .. QueueLength - 1 : Mask(head + i) = Mask(head + j) => i = j
        /\ \A i \in 0 .. QueueLength : Mask(head + i) \in Place
    BY <1>1, PlaceFacts, Sizes
  <1>6. \A i \in 0 .. QueueLength - 1 : q[Mask(head + i)] # NULL <=> i < Dist
    BY <1>4 DEF CoreInv, Shape
  <1> DEFINE held == [k \in 1 .. Dist |-> q[Mask(head + (k - 1))]]
  <1>7. \A k \in 1 .. Dist : k - 1 \in 0 .. QueueLength - 1 /\ k - 1 < Dist
                             /\ k - 1 \in 0 .. QueueLength
    BY <1>5
  <1>8. held \in [1 .. Dist -> Items]
    <2> SUFFICES ASSUME NEW k \in 1 .. Dist
                 PROVE  q[Mask(head + (k - 1))] \in Items
      OBVIOUS
    <2>1. q[Mask(head + (k - 1))] # NULL /\ Mask(head + (k - 1)) \in Place
      BY <1>5, <1>6, <1>7
    <2> QED
      BY <1>1, <2>1
  <1>9. ASSUME NEW a \in 1 .. Dist, NEW b \in 1 .. Dist, held[a] = held[b]
        PROVE  a = b
    <2>1. q[Mask(head + (a - 1))] = q[Mask(head + (b - 1))] /\ q[Mask(head + (a - 1))] # NULL
      BY <1>6, <1>7, <1>9
    <2>2. Mask(head + (a - 1)) \in Place /\ Mask(head + (b - 1)) \in Place
      BY <1>5, <1>7
    <2>3. Mask(head + (a - 1)) = Mask(head + (b - 1))
      BY <2>1, <2>2 DEF Owned
    <2>4. a - 1 = b - 1
      BY <1>5, <1>7, <2>3
    <2> QED
      BY <1>5, <2>4
  <1>10. Len(held) = Dist
    BY <1>5, <1>8
  <1>11. ASSUME NEW p \in Place
         PROVE  q[p] = LET i == 1 + (((p + QueueLength) - Mask(head)) % QueueLength)
                       IN  IF i <= Len(held) THEN held[i] ELSE NULL
    <2> DEFINE k == ((p + QueueLength) - (head % QueueLength)) % QueueLength
    <2>1. k \in 0 .. QueueLength - 1 /\ (head + k) % QueueLength = p
          /\ (k = 0 <=> p = head % QueueLength)
      <3>1. p \in 0 .. QueueLength - 1
        BY <1>5
      <3> QED
        <4>1. QueueLength \in Nat \ {0} /\ head \in Nat
          BY <1>5
        <4> QED
          BY <3>1, <4>1, PlaceFrom
    <2> HIDE DEF k
    <2>2. q[p] # NULL <=> k < Dist
      BY <1>6, <2>1 DEF Mask
    <2>3. (1 + k <= Dist <=> k < Dist) /\ (1 + k) - 1 = k /\ (k < Dist => 1 + k \in 1 .. Dist)
      BY <1>5, <2>1
    <2>4. k < Dist => held[1 + k] = q[p]
      BY <2>1, <2>3 DEF Mask
    <2> HIDE DEF held
    <2>5. q[p] = IF 1 + k <= Len(held) THEN held[1 + k] ELSE NULL
      BY <1>10, <2>2, <2>3, <2>4
    <2> QED
      BY <2>5 DEF k, Mask
  <1>12. /\ held \in UNION {[1 .. n -> Items] : n \in 0 .. QueueLength}
         /\ \A i, j \in DOMAIN held : held[i] = held[j] => i = j
    BY <1>5, <1>8, <1>9
  <1>13. tail = (head + Len(held)) % IndexLimit
    BY <1>5, <1>10
  <1> HIDE DEF held
  <1>14. q = [p \in Place |->
               LET i == 1 + (((p + QueueLength) - Mask(head)) % QueueLength)
               IN  IF i <= Len(held) THEN held[i] ELSE NULL]
    BY <1>1, <1>11
  <1> QED
    BY <1>3, <1>12, <1>13, <1>14 DEF AtRest

(* Whenever no operation is under way on either core, however those before *)
(* preempted and helped each other, the queue is as an initial state has   *)
(* it: the items from Head up to Tail, each once, nothing else, and no     *)
(* reservation left.  The bound on the operations of a run is one on those *)
(* between two such states.                                                *)
THEOREM CoreRests ==
  ASSUME CoreQueueAssumption
  PROVE  Spec => [](Quiet => AtRest)
  <1>1. CoreInv /\ Owned => (Quiet => AtRest)
    BY QuietRests
  <1>2. Init => Owned
    BY OwnedInit
  <1>3. CoreInv /\ CoreInv' /\ Owned /\ [Next]_coreVars => Owned'
    BY OwnedStep
  <1>4. Spec => []Owned
    BY <1>2, <1>3, CoreInvariant, PTL DEF Spec
  <1> QED
    BY <1>1, <1>4, CoreInvariant, PTL
=============================================================================

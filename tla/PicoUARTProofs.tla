---------------------------- MODULE PicoUARTProofs ----------------------------
(***************************************************************************)
(* Proofs about the UART driver of the RP2040, for any number of nodes and *)
(* senders, whatever interrupts whom: what is queued is sent, the line     *)
(* carries whole buffers, and a node is in one place.                      *)
(***************************************************************************)
EXTENDS PicoUART, SequenceTheorems, TLAPS

(***************************************************************************)
(* The inductive invariant.                                                *)
(***************************************************************************)

(* A sender holds a node while it fills it, and the handler has one to     *)
(* give back.                                                              *)
Held ==
  /\ \A s \in Sender : spc[s] = "fill" <=> held[s] # NULL
  /\ hpc = "release" => current # NULL

(* While a buffer is being sent the counts agree with each other and with  *)
(* the line, and otherwise the line is between two buffers.                *)
Counted ==
  IF current # NULL /\ hpc \notin {"take", "release"}
  THEN /\ size \in 1 .. MaxSize /\ index < size /\ left = size - index
       /\ line = IF index = 0 THEN NULL ELSE <<current, index>>
  ELSE line = NULL

Asked == pend \/ \E s \in Sender : spc[s] = "pend"

(* A handler that leaves a buffer half sent has filled the port's FIFO,    *)
(* and one that found the queue empty is asked for again by whoever queues *)
(* a buffer.                                                               *)
Awaited ==
  /\ hpc = "out" /\ current # NULL => txEnabled /\ (txRaised \/ level > Threshold)
  /\ hpc \in {"out", "push"} /\ current = NULL /\ fifo # <<>> => Asked

UARTInv == TypeOK /\ Held /\ NodesKept /\ Counted /\ Awaited

(***************************************************************************)
(* The queue of buffers.                                                   *)
(***************************************************************************)

(* The nodes of a queue, and that it has each of them once.                *)
NodesOf(q) == {q[i][1] : i \in DOMAIN q}
NodesOnce(q) == \A i, j \in DOMAIN q : q[i][1] = q[j][1] => i = j

LEMMA Queueing ==
  ASSUME NEW S, NEW q \in Seq(S), NEW x \in S
  PROVE  /\ Append(q, x) \in Seq(S) /\ Append(q, x) # <<>>
         /\ NodesOf(Append(q, x)) = NodesOf(q) \cup {x[1]}
         /\ NodesOnce(q) /\ x[1] \notin NodesOf(q) => NodesOnce(Append(q, x))
  <1> DEFINE r == Append(q, x)
  <1>1. /\ r \in Seq(S) /\ Len(r) = Len(q) + 1 /\ Len(q) \in Nat
        /\ DOMAIN q = 1 .. Len(q) /\ DOMAIN r = 1 .. Len(r)
        /\ \A i \in 1 .. Len(q) : r[i] = q[i]
        /\ r[Len(q) + 1] = x
    BY AppendProperties, LenProperties
  <1> HIDE DEF r
  <1>2. r # <<>>
    BY <1>1
  <1>3. NodesOf(r) = NodesOf(q) \cup {x[1]}
    <2>1. ASSUME NEW n \in NodesOf(r)
          PROVE  n \in NodesOf(q) \cup {x[1]}
      <3>1. PICK i \in 1 .. Len(q) + 1 : n = r[i][1]
        BY <1>1 DEF NodesOf
      <3>2. i \in 1 .. Len(q) \/ i = Len(q) + 1
        BY <1>1
      <3> QED
        BY <1>1, <3>1, <3>2 DEF NodesOf
    <2>2. ASSUME NEW n \in NodesOf(q)
          PROVE  n \in NodesOf(r)
      <3>1. PICK i \in 1 .. Len(q) : n = q[i][1]
        BY <1>1 DEF NodesOf
      <3>2. i \in DOMAIN r /\ n = r[i][1]
        BY <1>1, <3>1
      <3> QED
        BY <3>2 DEF NodesOf
    <2>3. x[1] \in NodesOf(r)
      <3>1. Len(q) + 1 \in DOMAIN r
        BY <1>1
      <3> QED
        BY <1>1, <3>1 DEF NodesOf
    <2> QED
      BY <2>1, <2>2, <2>3
  <1>4. ASSUME NodesOnce(q), x[1] \notin NodesOf(q)
        PROVE  NodesOnce(r)
    <2> SUFFICES ASSUME NEW i \in DOMAIN r, NEW j \in DOMAIN r, r[i][1] = r[j][1]
                 PROVE  i = j
      BY DEF NodesOnce
    <2>1. /\ i \in 1 .. Len(q) \/ i = Len(q) + 1
          /\ j \in 1 .. Len(q) \/ j = Len(q) + 1
      BY <1>1
    <2>2. \A k \in 1 .. Len(q) : q[k][1] # x[1]
      BY <1>1, <1>4 DEF NodesOf
    <2> QED
      BY <1>1, <1>4, <2>1, <2>2 DEF NodesOnce
  <1> QED
    BY <1>1, <1>2, <1>3, <1>4 DEF r

LEMMA Dequeuing ==
  ASSUME NEW S, NEW q \in Seq(S), q # <<>>
  PROVE  /\ Head(q) \in S /\ Tail(q) \in Seq(S)
         /\ NodesOf(q) = NodesOf(Tail(q)) \cup {Head(q)[1]}
         /\ NodesOnce(q) => NodesOnce(Tail(q)) /\ Head(q)[1] \notin NodesOf(Tail(q))
  <1> DEFINE r == Tail(q)
             x == Head(q)
  <1>1. /\ r \in Seq(S) /\ Len(r) = Len(q) - 1 /\ Len(q) \in Nat \ {0}
        /\ DOMAIN q = 1 .. Len(q) /\ DOMAIN r = 1 .. Len(q) - 1
        /\ \A i \in 1 .. Len(q) - 1 : r[i] = q[i + 1]
        /\ x = q[1] /\ x \in S
    BY HeadTailProperties, LenProperties, EmptySeq
  <1> HIDE DEF r, x
  <1>2. NodesOf(q) = NodesOf(r) \cup {x[1]}
    <2>1. ASSUME NEW n \in NodesOf(q)
          PROVE  n \in NodesOf(r) \cup {x[1]}
      <3>1. PICK i \in 1 .. Len(q) : n = q[i][1]
        BY <1>1 DEF NodesOf
      <3>2. CASE i = 1
        BY <1>1, <3>1, <3>2
      <3>3. CASE i # 1
        <4>1. i - 1 \in DOMAIN r /\ r[i - 1] = q[i]
          BY <1>1, <3>3
        <4> QED
          BY <3>1, <4>1 DEF NodesOf
      <3> QED
        BY <3>2, <3>3
    <2>2. ASSUME NEW n \in NodesOf(r)
          PROVE  n \in NodesOf(q)
      <3>1. PICK i \in 1 .. Len(q) - 1 : n = r[i][1]
        BY <1>1 DEF NodesOf
      <3>2. i + 1 \in DOMAIN q /\ n = q[i + 1][1]
        BY <1>1, <3>1
      <3> QED
        BY <3>2 DEF NodesOf
    <2>3. x[1] \in NodesOf(q)
      <3>1. 1 \in DOMAIN q
        BY <1>1
      <3> QED
        BY <1>1, <3>1 DEF NodesOf
    <2> QED
      BY <2>1, <2>2, <2>3
  <1>3. ASSUME NodesOnce(q)
        PROVE  NodesOnce(r) /\ x[1] \notin NodesOf(r)
    <2>1. ASSUME NEW i \in DOMAIN r, NEW j \in DOMAIN r, r[i][1] = r[j][1]
          PROVE  i = j
      <3>1. /\ i \in Int /\ j \in Int /\ i + 1 \in DOMAIN q /\ j + 1 \in DOMAIN q
            /\ q[i + 1][1] = q[j + 1][1]
        BY <1>1, <2>1
      <3>2. i + 1 = j + 1
        BY <1>3, <3>1 DEF NodesOnce
      <3> QED
        BY <3>1, <3>2
    <2>2. ASSUME x[1] \in NodesOf(r)
          PROVE  FALSE
      <3>1. PICK i \in 1 .. Len(q) - 1 : x[1] = r[i][1]
        BY <1>1, <2>2 DEF NodesOf
      <3>2. 1 \in DOMAIN q /\ i + 1 \in DOMAIN q /\ q[1][1] = q[i + 1][1] /\ i + 1 # 1
        BY <1>1, <3>1
      <3> QED
        BY <1>3, <3>2 DEF NodesOnce
    <2> QED
      BY <2>1, <2>2 DEF NodesOnce
  <1> QED
    BY <1>1, <1>2, <1>3 DEF r, x

(***************************************************************************)
(* What the senders hold.                                                  *)
(***************************************************************************)

HeldBy(h) == {h[s] : s \in Sender} \ {NULL}
HeldOnce(h) == \A s, t \in Sender : h[s] = h[t] /\ h[s] # NULL => s = t

LEMMA Taking ==
  ASSUME NULL \notin Node, NEW h \in [Sender -> Node \cup {NULL}], NEW s \in Sender,
         NEW n \in Node, h[s] = NULL
  PROVE  /\ HeldBy([h EXCEPT ![s] = n]) = HeldBy(h) \cup {n}
         /\ HeldOnce(h) /\ n \notin HeldBy(h) => HeldOnce([h EXCEPT ![s] = n])
  <1> DEFINE g == [h EXCEPT ![s] = n]
  <1>1. g[s] = n /\ n # NULL /\ \A t \in Sender \ {s} : g[t] = h[t]
    OBVIOUS
  <1> HIDE DEF g
  <1>2. HeldBy(g) = HeldBy(h) \cup {n}
    BY <1>1 DEF HeldBy
  <1>3. HeldOnce(h) /\ n \notin HeldBy(h) => HeldOnce(g)
    BY <1>1 DEF HeldOnce, HeldBy
  <1> QED
    BY <1>2, <1>3 DEF g

LEMMA Giving ==
  ASSUME NEW h \in [Sender -> Node \cup {NULL}], NEW s \in Sender, h[s] # NULL, HeldOnce(h)
  PROVE  /\ HeldBy([h EXCEPT ![s] = NULL]) = HeldBy(h) \ {h[s]}
         /\ HeldOnce([h EXCEPT ![s] = NULL])
  <1> DEFINE g == [h EXCEPT ![s] = NULL]
  <1>1. g[s] = NULL /\ \A t \in Sender \ {s} : g[t] = h[t]
    OBVIOUS
  <1>2. \A t \in Sender \ {s} : h[t] # h[s]
    BY DEF HeldOnce
  <1> HIDE DEF g
  <1>3. HeldBy(g) = HeldBy(h) \ {h[s]}
    BY <1>1, <1>2 DEF HeldBy
  <1>4. HeldOnce(g)
    BY <1>1 DEF HeldOnce
  <1> QED
    BY <1>3, <1>4 DEF g

(***************************************************************************)
(* One byte less: NbTransmit does not wrap while bytes are left.           *)
(***************************************************************************)

LEMMA OneLess ==
  ASSUME NEW n \in Nat, NEW a \in 1 .. n - 1
  PROVE  (a + n - 1) % n = a - 1
  <1>1. n \in Nat \ {0} /\ a + n - 1 \in Int /\ a - 1 \in 0 .. n - 1 /\ a + n - 1 = n + (a - 1)
    OBVIOUS
  <1> DEFINE x == a + n - 1
             q == x \div n
             r == x % n
  <1>2. q \in Int /\ r \in 0 .. n - 1 /\ x = n * q + r
    BY <1>1
  <1>3. n * (q - 1) = (a - 1) - r
    BY <1>1, <1>2
  <1> HIDE DEF q, r, x
  <1>4. q = 1
    <2>1. CASE q - 1 >= 1
      <3>1. n * (q - 1) >= n
        BY <2>1, <1>1, <1>2
      <3> QED
        BY <3>1, <1>1, <1>2, <1>3
    <2>2. CASE q - 1 <= -1
      <3>1. n * (q - 1) <= -n
        BY <2>2, <1>1, <1>2
      <3> QED
        BY <3>1, <1>1, <1>2, <1>3
    <2> QED
      BY <2>1, <2>2, <1>2
  <1>5. r = a - 1
    BY <1>1, <1>2, <1>3, <1>4
  <1> QED
    BY <1>5 DEF r, x

(***************************************************************************)
(* Every step keeps the invariant.                                         *)
(***************************************************************************)

LEMMA TypeOKStep ==
  ASSUME UARTAssumption, TypeOK, Held, Counted, [Next]_uartVars
  PROVE  TypeOK'
  <1>1. CASE Shift
    BY <1>1 DEF Shift, TypeOK, port, lists, buffer, senders, uartVars, Prime,
       MaskedStatus, UARTAssumption
  <1>2. CASE Receive
    BY <1>2 DEF Receive, TypeOK, port, lists, buffer, senders, uartVars, Prime,
       MaskedStatus, UARTAssumption
  <1>3. CASE RaiseReceive
    BY <1>3 DEF RaiseReceive, TypeOK, port, lists, buffer, senders, uartVars, Prime,
       MaskedStatus, UARTAssumption
  <1>4. ASSUME NEW s \in Sender, OSGetFreeNodeUART(s)
         PROVE  TypeOK'
    BY <1>4 DEF OSGetFreeNodeUART, TypeOK, port, lists, buffer, senders, uartVars,
       Prime, MaskedStatus, UARTAssumption
  <1>5. ASSUME NEW s \in Sender, OSReleaseNodeUART(s)
         PROVE  TypeOK'
    <2>1. held[s] \in Node
      BY <1>5 DEF OSReleaseNodeUART, TypeOK, Held
    <2> QED
      BY <1>5, <2>1 DEF OSReleaseNodeUART, TypeOK, port, buffer
  <1>6. ASSUME NEW s \in Sender, SetPending(s)
         PROVE  TypeOK'
    BY <1>6 DEF SetPending, TypeOK, port, lists, buffer, senders, uartVars, Prime,
       MaskedStatus, UARTAssumption
  <1>7. ASSUME NEW s \in Sender, NEW d \in 0 .. MaxSize, Enqueue(s, d)
         PROVE  TypeOK'
    <2>1. held[s] \in Node
      BY <1>7 DEF Enqueue, TypeOK, Held
    <2>2. Append(fifo, <<held[s], d>>) \in Seq(Node \X (0 .. MaxSize))
      BY <2>1, Queueing DEF TypeOK
    <2> QED
      BY <1>7, <2>2 DEF Enqueue, TypeOK, lists, senders, port, buffer
  <1>8. CASE InterruptHandler
    BY <1>8 DEF InterruptHandler, TypeOK, port, lists, buffer, senders, uartVars,
       Prime, MaskedStatus, UARTAssumption
  <1>9. CASE ReceiveByte
    <2>1. free' \subseteq Node /\ fifo' \in Seq(Node \X (0 .. MaxSize)) /\ pend' \in BOOLEAN
      <3>1. CASE UNCHANGED <<lists, pend>>
        BY <3>1 DEF TypeOK, lists
      <3>2. ASSUME NEW n \in free, free' = free \ {n}, fifo' = Append(fifo, <<n, 1>>),
                   pend' = TRUE
            PROVE  free' \subseteq Node /\ fifo' \in Seq(Node \X (0 .. MaxSize))
                   /\ pend' \in BOOLEAN
        <4>1. n \in Node /\ <<n, 1>> \in Node \X (0 .. MaxSize)
          BY DEF TypeOK, UARTAssumption
        <4>2. Append(fifo, <<n, 1>>) \in Seq(Node \X (0 .. MaxSize))
          BY <4>1, Queueing DEF TypeOK
        <4> QED
          BY <3>2, <4>2 DEF TypeOK
      <3> QED
        BY <1>9, <3>1, <3>2 DEF ReceiveByte, Echo
    <2> QED
      BY <1>9, <2>1 DEF ReceiveByte, TypeOK, senders, buffer, UARTAssumption
  <1>10. CASE ClearReceive
    BY <1>10 DEF ClearReceive, TypeOK, port, lists, buffer, senders, uartVars, Prime,
       MaskedStatus, UARTAssumption
  <1>11. CASE ClearTransmit
    BY <1>11 DEF ClearTransmit, TypeOK, port, lists, buffer, senders, uartVars,
       Prime, MaskedStatus, UARTAssumption
  <1>12. CASE Transmit
    BY <1>12 DEF Transmit, TypeOK, port, lists, buffer, senders, uartVars, Prime,
       MaskedStatus, UARTAssumption
  <1>13. CASE TakeNextBuffer
    <2>1. CASE fifo = <<>>
      BY <1>13, <2>1 DEF TakeNextBuffer, TypeOK, lists, senders, port, UARTAssumption
    <2>2. CASE fifo # <<>>
      <3>1. Head(fifo) \in Node \X (0 .. MaxSize) /\ Tail(fifo) \in Seq(Node \X (0 .. MaxSize))
        BY <2>2, Dequeuing DEF TypeOK
      <3>2. Head(fifo)[1] \in Node /\ Head(fifo)[2] \in 0 .. CountLimit - 1
        BY <3>1 DEF UARTAssumption
      <3>3. /\ current' \in Node /\ left' \in 0 .. CountLimit - 1 /\ index' \in 0 .. MaxSize
            /\ fifo' \in Seq(Node \X (0 .. MaxSize)) /\ hpc' \in {"release", "push"}
        <4>1. /\ current' = Head(fifo)[1] /\ left' = Head(fifo)[2] /\ index' = 0
              /\ fifo' = Tail(fifo)
          BY <1>13, <2>2 DEF TakeNextBuffer
        <4>2. hpc' \in {"release", "push"}
          BY <1>13, <2>2 DEF TakeNextBuffer
        <4>3. 0 \in 0 .. MaxSize
          BY DEF UARTAssumption
        <4> QED
          BY <3>1, <3>2, <4>1, <4>2, <4>3
      <3> QED
        BY <1>13, <3>3 DEF TakeNextBuffer, TypeOK, senders, port
    <2> QED
      BY <2>1, <2>2
  <1>14. CASE PushByte
    <2>1. index < size /\ size \in 1 .. MaxSize /\ left = size - index
      BY <1>14 DEF PushByte, Counted
    <2>2. left \in 1 .. CountLimit - 1 /\ index + 1 \in 0 .. MaxSize /\ CountLimit \in Nat
      BY <2>1 DEF TypeOK, UARTAssumption
    <2>3. left' = left - 1
      BY <1>14, <2>2, OneLess DEF PushByte
    <2>4. left' \in 0 .. CountLimit - 1
      BY <2>2, <2>3
    <2> QED
      BY <1>14, <2>2, <2>4 DEF PushByte, TypeOK, lists, senders, UARTAssumption
  <1>15. CASE Release
    <2>1. current \in Node
      BY <1>15 DEF Release, TypeOK, Held
    <2> QED
      BY <1>15, <2>1 DEF Release, TypeOK, port, buffer, senders
  <1>16. CASE MaskTransmit
    BY <1>16 DEF MaskTransmit, TypeOK, port, lists, buffer, senders, uartVars, Prime,
       MaskedStatus, UARTAssumption
  <1>17. CASE UNCHANGED uartVars
    BY <1>17 DEF uartVars, TypeOK, port, lists, buffer, senders, uartVars, Prime,
       MaskedStatus, UARTAssumption
  <1> QED
    BY <1>1, <1>2, <1>3, <1>4, <1>5, <1>6, <1>7, <1>8, <1>9, <1>10, <1>11, <1>12,
       <1>13, <1>14, <1>15, <1>16, <1>17 DEF Next

LEMMA HeldStep ==
  ASSUME UARTAssumption, TypeOK, Held, [Next]_uartVars
  PROVE  Held'
  <1>1. CASE Shift
    BY <1>1 DEF Shift, Held, TypeOK, port, lists, buffer, senders, uartVars,
       UARTAssumption
  <1>2. CASE Receive
    BY <1>2 DEF Receive, Held, TypeOK, port, lists, buffer, senders, uartVars,
       UARTAssumption
  <1>3. CASE RaiseReceive
    BY <1>3 DEF RaiseReceive, Held, TypeOK, port, lists, buffer, senders, uartVars,
       UARTAssumption
  <1>4. ASSUME NEW s \in Sender, OSGetFreeNodeUART(s)
         PROVE  Held'
    BY <1>4 DEF OSGetFreeNodeUART, Held, TypeOK, port, lists, buffer, senders,
       uartVars, UARTAssumption
  <1>5. ASSUME NEW s \in Sender, OSReleaseNodeUART(s)
         PROVE  Held'
    BY <1>5 DEF OSReleaseNodeUART, Held, TypeOK, port, lists, buffer, senders,
       uartVars, UARTAssumption
  <1>6. ASSUME NEW s \in Sender, SetPending(s)
         PROVE  Held'
    BY <1>6 DEF SetPending, Held, TypeOK, port, lists, buffer, senders, uartVars,
       UARTAssumption
  <1>7. ASSUME NEW s \in Sender, NEW d \in 0 .. MaxSize, Enqueue(s, d)
         PROVE  Held'
    BY <1>7 DEF Enqueue, Held, TypeOK, port, lists, buffer, senders, uartVars,
       UARTAssumption
  <1>8. CASE InterruptHandler
    BY <1>8 DEF InterruptHandler, Held, TypeOK, port, lists, buffer, senders,
       uartVars, UARTAssumption
  <1>9. CASE ReceiveByte
    BY <1>9 DEF ReceiveByte, Held, TypeOK, port, lists, buffer, senders, uartVars,
       UARTAssumption
  <1>10. CASE ClearReceive
    BY <1>10 DEF ClearReceive, Held, TypeOK, port, lists, buffer, senders, uartVars,
       UARTAssumption
  <1>11. CASE ClearTransmit
    BY <1>11 DEF ClearTransmit, Held, TypeOK, port, lists, buffer, senders, uartVars,
       UARTAssumption
  <1>12. CASE Transmit
    BY <1>12 DEF Transmit, Held, TypeOK, port, lists, buffer, senders, uartVars,
       UARTAssumption
  <1>13. CASE TakeNextBuffer
    BY <1>13 DEF TakeNextBuffer, Held, TypeOK, port, lists, buffer, senders,
       uartVars, UARTAssumption
  <1>14. CASE PushByte
    BY <1>14 DEF PushByte, Held, TypeOK, port, lists, buffer, senders, uartVars,
       UARTAssumption
  <1>15. CASE Release
    BY <1>15 DEF Release, Held, TypeOK, port, lists, buffer, senders, uartVars,
       UARTAssumption
  <1>16. CASE MaskTransmit
    BY <1>16 DEF MaskTransmit, Held, TypeOK, port, lists, buffer, senders, uartVars,
       UARTAssumption
  <1>17. CASE UNCHANGED uartVars
    BY <1>17 DEF uartVars, Held, TypeOK, port, lists, buffer, senders, uartVars,
       UARTAssumption
  <1> QED
    BY <1>1, <1>2, <1>3, <1>4, <1>5, <1>6, <1>7, <1>8, <1>9, <1>10, <1>11, <1>12,
       <1>13, <1>14, <1>15, <1>16, <1>17 DEF Next

LEMMA CountedStep ==
  ASSUME UARTAssumption, TypeOK, Held, Counted, [Next]_uartVars
  PROVE  Counted'
  <1>1. CASE Shift
    BY <1>1 DEF Shift, Counted, Held, buffer, uartVars
  <1>2. CASE Receive
    BY <1>2 DEF Receive, Counted, Held, buffer, uartVars
  <1>3. CASE RaiseReceive
    BY <1>3 DEF RaiseReceive, Counted, Held, buffer, uartVars
  <1>4. ASSUME NEW s \in Sender, OSGetFreeNodeUART(s)
         PROVE  Counted'
    BY <1>4 DEF OSGetFreeNodeUART, Counted, Held, buffer, uartVars
  <1>5. ASSUME NEW s \in Sender, OSReleaseNodeUART(s)
         PROVE  Counted'
    BY <1>5 DEF OSReleaseNodeUART, Counted, Held, buffer, uartVars
  <1>6. ASSUME NEW s \in Sender, SetPending(s)
         PROVE  Counted'
    BY <1>6 DEF SetPending, Counted, Held, buffer, uartVars
  <1>7. ASSUME NEW s \in Sender, NEW d \in 0 .. MaxSize, Enqueue(s, d)
         PROVE  Counted'
    BY <1>7 DEF Enqueue, Counted, Held, buffer, uartVars
  <1>8. CASE InterruptHandler
    BY <1>8 DEF InterruptHandler, Counted, Held, buffer, uartVars
  <1>9. CASE ReceiveByte
    BY <1>9 DEF ReceiveByte, Counted, Held, buffer, uartVars
  <1>10. CASE ClearReceive
    BY <1>10 DEF ClearReceive, Counted, Held, buffer, uartVars
  <1>11. CASE ClearTransmit
    BY <1>11 DEF ClearTransmit, Counted, Held, buffer, uartVars
  <1>12. CASE Transmit
    BY <1>12 DEF Transmit, Counted, Held, buffer, uartVars
  <1>13. CASE TakeNextBuffer
    <2>1. line = NULL
      BY <1>13 DEF TakeNextBuffer, Counted
    <2>2. CASE fifo = <<>>
      BY <1>13, <2>1, <2>2 DEF TakeNextBuffer, Counted
    <2>3. CASE fifo # <<>>
      <3>1. Head(fifo)[2] \in 0 .. MaxSize
        BY <2>3, Dequeuing DEF TypeOK
      <3> QED
        BY <1>13, <2>1, <2>3, <3>1 DEF TakeNextBuffer, Counted, HoldsNothing,
           UARTAssumption
    <2> QED
      BY <2>2, <2>3
  <1>14. CASE PushByte
    <2>1. index < size /\ size \in 1 .. MaxSize /\ left = size - index
      BY <1>14 DEF PushByte, Counted
    <2>2. left \in 1 .. CountLimit - 1 /\ index \in Nat /\ CountLimit \in Nat
      BY <2>1 DEF TypeOK, UARTAssumption
    <2>3. left' = left - 1
      BY <1>14, <2>2, OneLess DEF PushByte
    <2> QED
      BY <1>14, <2>1, <2>2, <2>3 DEF PushByte, Counted
  <1>15. CASE Release
    BY <1>15 DEF Release, Counted, Held, buffer, uartVars
  <1>16. CASE MaskTransmit
    BY <1>16 DEF MaskTransmit, Counted, Held, buffer, uartVars
  <1>17. CASE UNCHANGED uartVars
    BY <1>17 DEF uartVars, Counted, Held, buffer, uartVars
  <1> QED
    BY <1>1, <1>2, <1>3, <1>4, <1>5, <1>6, <1>7, <1>8, <1>9, <1>10, <1>11, <1>12,
       <1>13, <1>14, <1>15, <1>16, <1>17 DEF Next

LEMMA AwaitedStep ==
  ASSUME UARTAssumption, TypeOK, Held, Awaited, [Next]_uartVars
  PROVE  Awaited'
  <1>1. CASE Shift
    <2>1. Asked' = Asked
      BY <1>1 DEF Shift, Asked, senders
    <2> QED
      BY <1>1, <2>1 DEF Shift, Awaited, TypeOK, lists, buffer, UARTAssumption
  <1>2. CASE Receive
    <2>1. Asked => Asked'
      BY <1>2 DEF Receive, Asked, port, senders, uartVars
    <2> QED
      BY <1>2, <2>1 DEF Receive, Awaited, TypeOK, port, lists, buffer, uartVars
  <1>3. CASE RaiseReceive
    <2>1. Asked => Asked'
      BY <1>3 DEF RaiseReceive, Asked, port, senders, uartVars
    <2> QED
      BY <1>3, <2>1 DEF RaiseReceive, Awaited, TypeOK, port, lists, buffer, uartVars
  <1>4. ASSUME NEW s \in Sender, OSGetFreeNodeUART(s)
         PROVE  Awaited'
    <2>1. Asked => Asked'
      BY <1>4 DEF OSGetFreeNodeUART, Asked, port, TypeOK
    <2> QED
      BY <1>4, <2>1 DEF OSGetFreeNodeUART, Awaited, port, buffer
  <1>5. ASSUME NEW s \in Sender, OSReleaseNodeUART(s)
         PROVE  Awaited'
    <2>1. Asked => Asked'
      BY <1>5 DEF OSReleaseNodeUART, Asked, port, TypeOK
    <2> QED
      BY <1>5, <2>1 DEF OSReleaseNodeUART, Awaited, port, buffer
  <1>6. ASSUME NEW s \in Sender, SetPending(s)
         PROVE  Awaited'
    <2>1. Asked'
      BY <1>6 DEF SetPending, Prime, Asked
    <2> QED
      BY <1>6, <2>1 DEF SetPending, Prime, Awaited, lists, buffer
  <1>7. ASSUME NEW s \in Sender, NEW d \in 0 .. MaxSize, Enqueue(s, d)
         PROVE  Awaited'
    <2>1. Asked'
      BY <1>7 DEF Enqueue, Asked, TypeOK
    <2> QED
      BY <1>7, <2>1 DEF Enqueue, Awaited, port, buffer
  <1>8. CASE InterruptHandler
    BY <1>8 DEF InterruptHandler, Awaited
  <1>9. CASE ReceiveByte
    BY <1>9 DEF ReceiveByte, Awaited
  <1>10. CASE ClearReceive
    <2>1. Asked => Asked'
      BY <1>10 DEF ClearReceive, Asked, port, senders, uartVars
    <2> QED
      BY <1>10, <2>1 DEF ClearReceive, Awaited, TypeOK, port, lists, buffer, uartVars
  <1>11. CASE ClearTransmit
    <2>1. Asked => Asked'
      BY <1>11 DEF ClearTransmit, Asked, port, senders, uartVars
    <2> QED
      BY <1>11, <2>1 DEF ClearTransmit, Awaited, TypeOK, port, lists, buffer, uartVars
  <1>12. CASE Transmit
    <2>1. Asked => Asked'
      BY <1>12 DEF Transmit, Asked, port, senders, uartVars
    <2> QED
      BY <1>12, <2>1 DEF Transmit, Awaited, TypeOK, port, lists, buffer, uartVars
  <1>13. CASE TakeNextBuffer
    <2>1. current' # NULL \/ fifo' = <<>>
      <3>1. CASE fifo = <<>>
        BY <1>13, <3>1 DEF TakeNextBuffer, lists
      <3>2. CASE fifo # <<>>
        <4>1. Head(fifo)[1] \in Node
          BY <3>2, Dequeuing DEF TypeOK
        <4> QED
          BY <1>13, <3>2, <4>1 DEF TakeNextBuffer, UARTAssumption
      <3> QED
        BY <3>1, <3>2
    <2>2. hpc' # "out"
      BY <1>13 DEF TakeNextBuffer
    <2> QED
      BY <2>1, <2>2 DEF Awaited
  <1>14. CASE PushByte
    <2>1. Asked => Asked'
      BY <1>14 DEF PushByte, Asked, port, senders, uartVars
    <2> QED
      BY <1>14, <2>1 DEF PushByte, Awaited, TypeOK, port, lists, buffer, uartVars
  <1>15. CASE Release
    <2>1. Asked => Asked'
      BY <1>15 DEF Release, Asked, port, senders, uartVars
    <2> QED
      BY <1>15, <2>1 DEF Release, Awaited, TypeOK, port, lists, buffer, uartVars
  <1>16. CASE MaskTransmit
    <2>1. Asked' = Asked
      BY <1>16 DEF MaskTransmit, Asked, senders
    <2> QED
      BY <1>16, <2>1 DEF MaskTransmit, Awaited, TypeOK, lists, buffer, UARTAssumption
  <1>17. CASE UNCHANGED uartVars
    <2>1. Asked => Asked'
      BY <1>17 DEF uartVars, Asked, port, senders, uartVars
    <2> QED
      BY <1>17, <2>1 DEF uartVars, Awaited, TypeOK, port, lists, buffer, uartVars
  <1> QED
    BY <1>1, <1>2, <1>3, <1>4, <1>5, <1>6, <1>7, <1>8, <1>9, <1>10, <1>11, <1>12,
       <1>13, <1>14, <1>15, <1>16, <1>17 DEF Next

(***************************************************************************)
(* A node is in one place.                                                 *)
(***************************************************************************)

(* NodesKept of any four sets.                                             *)
Parted(f, q, h, c) ==
  /\ f \cup q \cup h \cup c = Node
  /\ f \cap (q \cup h \cup c) = {} /\ q \cap (h \cup c) = {} /\ h \cap c = {}

LEMMA NodesKeptIs ==
  NodesKept <=> NodesOnce(fifo) /\ HeldOnce(held)
                /\ Parted(free, NodesOf(fifo), HeldBy(held), Sending)
  BY DEF NodesKept, NodesOnce, NodesOf, HeldOnce, HeldBy, Parted, Queued, Filled

LEMMA NodesKeptIsNext ==
  NodesKept' <=> NodesOnce(fifo') /\ HeldOnce(held')
                 /\ Parted(free', NodesOf(fifo'), HeldBy(held'), Sending')
  BY DEF NodesKept, NodesOnce, NodesOf, HeldOnce, HeldBy, Parted, Queued, Filled

LEMMA NodesStay ==
  ASSUME NodesKept, free' = free, fifo' = fifo, held' = held, Sending' = Sending
  PROVE  NodesKept'
  BY NodesKeptIs, NodesKeptIsNext

LEMMA NodesStep ==
  ASSUME UARTAssumption, TypeOK, Held, NodesKept, [Next]_uartVars
  PROVE  NodesKept'
  <1>a. NodesOnce(fifo) /\ HeldOnce(held)
        /\ Parted(free, NodesOf(fifo), HeldBy(held), Sending)
    BY NodesKeptIs
  <1>1. CASE Shift
    <2>1. free' = free /\ fifo' = fifo /\ held' = held /\ Sending' = Sending
      BY <1>1 DEF Shift, Sending, TypeOK, Held, port, lists, buffer, senders, uartVars
    <2> QED
      BY <2>1, NodesStay
  <1>2. CASE Receive
    <2>1. free' = free /\ fifo' = fifo /\ held' = held /\ Sending' = Sending
      BY <1>2 DEF Receive, Sending, TypeOK, Held, port, lists, buffer, senders, uartVars
    <2> QED
      BY <2>1, NodesStay
  <1>3. CASE RaiseReceive
    <2>1. free' = free /\ fifo' = fifo /\ held' = held /\ Sending' = Sending
      BY <1>3 DEF RaiseReceive, Sending, TypeOK, Held, port, lists, buffer, senders,
         uartVars
    <2> QED
      BY <2>1, NodesStay
  <1>4. ASSUME NEW s \in Sender, OSGetFreeNodeUART(s)
         PROVE  NodesKept'
    <2>1. PICK n \in free : free' = free \ {n} /\ held' = [held EXCEPT ![s] = n]
      BY <1>4 DEF OSGetFreeNodeUART
    <2>2. n \in Node /\ held[s] = NULL /\ held \in [Sender -> Node \cup {NULL}] /\ NULL \notin Node
      BY <1>4 DEF OSGetFreeNodeUART, TypeOK, Held, UARTAssumption
    <2>3. n \notin HeldBy(held) /\ HeldOnce(held)
      BY <1>a DEF Parted
    <2>4. HeldBy(held') = HeldBy(held) \cup {n} /\ HeldOnce(held')
      BY <2>1, <2>2, <2>3, Taking
    <2>5. fifo' = fifo /\ Sending' = Sending
      BY <1>4 DEF OSGetFreeNodeUART, Sending, buffer
    <2> QED
      BY <1>a, <2>1, <2>4, <2>5, NodesKeptIsNext DEF Parted
  <1>5. ASSUME NEW s \in Sender, OSReleaseNodeUART(s)
         PROVE  NodesKept'
    <2>1. held[s] # NULL /\ held[s] \in Node /\ held \in [Sender -> Node \cup {NULL}]
      BY <1>5 DEF OSReleaseNodeUART, TypeOK, Held
    <2>2. held' = [held EXCEPT ![s] = NULL]
      BY <1>5 DEF OSReleaseNodeUART
    <2>3. HeldBy(held') = HeldBy(held) \ {held[s]} /\ HeldOnce(held')
      BY <1>a, <2>1, <2>2, Giving
    <2>4. held[s] \in HeldBy(held)
      BY <2>1 DEF HeldBy
    <2>5. free' = free \cup {held[s]} /\ fifo' = fifo /\ Sending' = Sending
      BY <1>5 DEF OSReleaseNodeUART, Sending, buffer
    <2> QED
      BY <1>a, <2>3, <2>4, <2>5, NodesKeptIsNext DEF Parted
  <1>6. ASSUME NEW s \in Sender, SetPending(s)
         PROVE  NodesKept'
    <2>1. free' = free /\ fifo' = fifo /\ held' = held /\ Sending' = Sending
      BY <1>6 DEF SetPending, Sending, TypeOK, Held, port, lists, buffer, senders,
         uartVars
    <2> QED
      BY <2>1, NodesStay
  <1>7. ASSUME NEW s \in Sender, NEW d \in 0 .. MaxSize, Enqueue(s, d)
         PROVE  NodesKept'
    <2>1. held[s] # NULL /\ held[s] \in Node /\ held \in [Sender -> Node \cup {NULL}]
      BY <1>7 DEF Enqueue, TypeOK, Held
    <2>2. held' = [held EXCEPT ![s] = NULL]
      BY <1>7 DEF Enqueue
    <2>3. HeldBy(held') = HeldBy(held) \ {held[s]} /\ HeldOnce(held')
      BY <1>a, <2>1, <2>2, Giving
    <2>4. held[s] \in HeldBy(held)
      BY <2>1 DEF HeldBy
    <2>5. held[s] \notin NodesOf(fifo) /\ NodesOnce(fifo)
      BY <1>a, <2>4 DEF Parted
    <2>6. fifo \in Seq(Node \X (0 .. MaxSize)) /\ <<held[s], d>> \in Node \X (0 .. MaxSize)
      BY <2>1 DEF TypeOK
    <2>7. fifo' = Append(fifo, <<held[s], d>>) /\ free' = free /\ Sending' = Sending
      BY <1>7 DEF Enqueue, Sending, buffer
    <2>8. NodesOf(fifo') = NodesOf(fifo) \cup {held[s]} /\ NodesOnce(fifo')
      BY <2>5, <2>6, <2>7, Queueing
    <2> QED
      BY <1>a, <2>3, <2>4, <2>7, <2>8, NodesKeptIsNext DEF Parted
  <1>8. CASE InterruptHandler
    <2>1. free' = free /\ fifo' = fifo /\ held' = held /\ Sending' = Sending
      BY <1>8 DEF InterruptHandler, Sending, TypeOK, Held, port, lists, buffer,
         senders, uartVars
    <2> QED
      BY <2>1, NodesStay
  <1>9. CASE ReceiveByte
    <2>1. Sending' = Sending /\ held' = held
      BY <1>9 DEF ReceiveByte, Sending, buffer, senders
    <2>2. CASE UNCHANGED <<lists, pend>>
      BY <2>1, <2>2, NodesStay DEF lists
    <2>3. ASSUME NEW n \in free, free' = free \ {n}, fifo' = Append(fifo, <<n, 1>>)
          PROVE  NodesKept'
      <3>1. n \in Node /\ <<n, 1>> \in Node \X (0 .. MaxSize)
            /\ fifo \in Seq(Node \X (0 .. MaxSize))
        BY DEF TypeOK, UARTAssumption
      <3>2. n \notin NodesOf(fifo) /\ NodesOnce(fifo)
        BY <1>a DEF Parted
      <3>3. NodesOf(fifo') = NodesOf(fifo) \cup {n} /\ NodesOnce(fifo')
        BY <2>3, <3>1, <3>2, Queueing
      <3> QED
        BY <1>a, <2>1, <2>3, <3>3, NodesKeptIsNext DEF Parted
    <2> QED
      BY <1>9, <2>2, <2>3 DEF ReceiveByte, Echo
  <1>10. CASE ClearReceive
    <2>1. free' = free /\ fifo' = fifo /\ held' = held /\ Sending' = Sending
      BY <1>10 DEF ClearReceive, Sending, TypeOK, Held, port, lists, buffer, senders,
         uartVars
    <2> QED
      BY <2>1, NodesStay
  <1>11. CASE ClearTransmit
    <2>1. free' = free /\ fifo' = fifo /\ held' = held /\ Sending' = Sending
      BY <1>11 DEF ClearTransmit, Sending, TypeOK, Held, port, lists, buffer,
         senders, uartVars
    <2> QED
      BY <2>1, NodesStay
  <1>12. CASE Transmit
    <2>1. free' = free /\ fifo' = fifo /\ held' = held /\ Sending' = Sending
      BY <1>12 DEF Transmit, Sending, TypeOK, Held, port, lists, buffer, senders,
         uartVars
    <2> QED
      BY <2>1, NodesStay
  <1>13. CASE TakeNextBuffer
    <2>1. held' = held /\ free' = free /\ Sending = {}
      BY <1>13 DEF TakeNextBuffer, senders, Sending
    <2>2. CASE fifo = <<>>
      <3>1. fifo' = fifo /\ Sending' = {}
        BY <1>13, <2>2 DEF TakeNextBuffer, Sending
      <3> QED
        BY <2>1, <3>1, NodesStay
    <2>3. CASE fifo # <<>>
      <3>1. /\ fifo' = Tail(fifo) /\ current' = Head(fifo)[1] /\ hpc' # "take"
        BY <1>13, <2>3 DEF TakeNextBuffer
      <3>2. Head(fifo)[1] \in Node /\ fifo \in Seq(Node \X (0 .. MaxSize))
        BY <2>3, Dequeuing DEF TypeOK
      <3>3. Sending' = {Head(fifo)[1]}
        BY <3>1, <3>2 DEF Sending, UARTAssumption
      <3>4. /\ NodesOf(fifo) = NodesOf(fifo') \cup {Head(fifo)[1]}
            /\ NodesOnce(fifo') /\ Head(fifo)[1] \notin NodesOf(fifo')
        BY <1>a, <2>3, <3>1, <3>2, Dequeuing
      <3> QED
        BY <1>a, <2>1, <3>3, <3>4, NodesKeptIsNext DEF Parted
    <2> QED
      BY <2>2, <2>3
  <1>14. CASE PushByte
    <2>1. free' = free /\ fifo' = fifo /\ held' = held /\ Sending' = Sending
      BY <1>14 DEF PushByte, Sending, TypeOK, Held, port, lists, buffer, senders,
         uartVars
    <2> QED
      BY <2>1, NodesStay
  <1>15. CASE Release
    <2>1. free' = free \cup Sending /\ Sending' = {} /\ fifo' = fifo /\ held' = held
      BY <1>15 DEF Release, Sending, Held, senders
    <2> QED
      BY <1>a, <2>1, NodesKeptIsNext DEF Parted
  <1>16. CASE MaskTransmit
    <2>1. free' = free /\ fifo' = fifo /\ held' = held /\ Sending' = Sending
      BY <1>16 DEF MaskTransmit, Sending, TypeOK, Held, port, lists, buffer, senders,
         uartVars
    <2> QED
      BY <2>1, NodesStay
  <1>17. CASE UNCHANGED uartVars
    <2>1. free' = free /\ fifo' = fifo /\ held' = held /\ Sending' = Sending
      BY <1>17 DEF uartVars, Sending, TypeOK, Held, port, lists, buffer, senders,
         uartVars
    <2> QED
      BY <2>1, NodesStay
  <1> QED
    BY <1>1, <1>2, <1>3, <1>4, <1>5, <1>6, <1>7, <1>8, <1>9, <1>10, <1>11, <1>12,
       <1>13, <1>14, <1>15, <1>16, <1>17 DEF Next

(***************************************************************************)
(* The theorems.                                                           *)
(***************************************************************************)

LEMMA UARTInit ==
  ASSUME UARTAssumption, Init
  PROVE  UARTInv
  <1>1. TypeOK
    <2>1. fifo \in Seq(Node \X (0 .. MaxSize))
      BY DEF Init
    <2>2. 0 \in 0 .. Depth /\ 0 \in 0 .. MaxReceived /\ 0 \in 0 .. MaxSize
            /\ 0 \in 0 .. CountLimit - 1
      BY DEF UARTAssumption
    <2>3. spc \in [Sender -> {"out", "fill", "pend"}]
            /\ held \in [Sender -> Node \cup {NULL}]
      BY DEF Init
    <2> QED
      BY <2>1, <2>2, <2>3 DEF Init, TypeOK
  <1>2. Held /\ Counted /\ Awaited
    BY DEF Init, Held, Counted, Awaited
  <1>3. NodesKept
    BY DEF Init, NodesKept, Queued, Filled, Sending
  <1> QED
    BY <1>1, <1>2, <1>3 DEF UARTInv

LEMMA UARTStep ==
  ASSUME UARTAssumption, UARTInv, [Next]_uartVars
  PROVE  UARTInv'
  BY TypeOKStep, HeldStep, NodesStep, CountedStep, AwaitedStep DEF UARTInv

LEMMA UARTAlways ==
  ASSUME UARTAssumption
  PROVE  Spec => []UARTInv
  BY UARTInit, UARTStep, PTL DEF Spec

(* What is queued is sent: while a buffer waits or is half sent, the       *)
(* handler runs or something is to start it (OSEnqueueUART sets the        *)
(* interrupt pending behind the queueing, MaskTransmit leaves it enabled). *)
THEOREM NeverStuck ==
  ASSUME UARTAssumption
  PROVE  Spec => []NothingStuck
  <1>1. UARTInv => NothingStuck
    BY DEF UARTInv, Awaited, Asked, NothingStuck
  <1> QED
    BY <1>1, UARTAlways, PTL

(* A node is free, in the hands of one sender, queued once, or on its way  *)
(* out: none is lost and none is given to two, whoever interrupts whom;    *)
(* and every variable has its type.                                        *)
THEOREM NodesSafe ==
  ASSUME UARTAssumption
  PROVE  Spec => [](TypeOK /\ NodesKept)
  <1>1. UARTInv => TypeOK /\ NodesKept
    BY DEF UARTInv
  <1> QED
    BY <1>1, UARTAlways, PTL

(* The line carries whole buffers, one after the other, and NbTransmit     *)
(* never wraps, a buffer of no bytes included.                             *)
THEOREM BuffersWhole ==
  ASSUME UARTAssumption
  PROVE  Spec => WholeBuffers
  <1>1. ASSUME UARTInv, Next, level' > level
        PROVE  index < size /\ line = IF index = 0 THEN NULL ELSE <<current, index>>
    <2>1. level \in Int
      BY <1>1 DEF UARTInv, TypeOK
    <2>2. PushByte \/ UNCHANGED level \/ level' = level - 1
      BY <1>1 DEF Next, Shift, Receive, RaiseReceive, OSGetFreeNodeUART, OSReleaseNodeUART,
         SetPending, Prime, Enqueue, InterruptHandler, ReceiveByte, ClearReceive,
         ClearTransmit, Transmit, TakeNextBuffer, Release, MaskTransmit, port
    <2>3. PushByte
      BY <2>1, <2>2, <1>1
    <2> QED
      BY <1>1, <2>3 DEF PushByte, UARTInv, Counted
  <1>2. UARTInv /\ [Next]_uartVars =>
          [level' > level =>
             /\ index < size
             /\ line = IF index = 0 THEN NULL ELSE <<current, index>>]_uartVars
    BY <1>1
  <1> QED
    BY <1>2, UARTAlways, PTL DEF Spec, WholeBuffers


====

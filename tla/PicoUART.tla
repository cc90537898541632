------------------------------- MODULE PicoUART -------------------------------
(***************************************************************************)
(* The UART driver of the RP2040: senders fill a node of a free list and   *)
(* queue it, and one interrupt empties the queue onto the port.  Both      *)
(* queues are those of WaitFreeFIFO, whose operations are atomic.          *)
(***************************************************************************)
EXTENDS Naturals, Sequences

CONSTANTS
  Node, NULL,
  Sender,       \* tasks, and interrupt handlers that send
  Urgent,       \* those of the senders that may interrupt the driver's own handler
  MaxSize,      \* largest dataSize
  CountLimit,   \* 2^16, where NbTransmit wraps
  Depth,        \* of the transmit FIFO
  Threshold,    \* level down to which it raises its interrupt
  MaxReceived   \* bound: bytes received and not yet taken

UARTAssumption ==
  /\ Urgent \subseteq Sender /\ NULL \notin Node
  /\ MaxSize \in Nat \ {0} /\ CountLimit \in Nat /\ CountLimit > MaxSize
  /\ Threshold \in Nat /\ Depth \in Nat /\ Threshold < Depth
  /\ MaxReceived \in Nat

VARIABLES
  \* The port.
  level,        \* bytes in the transmit FIFO
  txRaised,     \* its interrupt
  txEnabled,    \* INT_TX in IMSC
  rx, rxRaised, \* bytes received, and their interrupt
  pend,         \* the NVIC's pending bit, set by software
  \* The driver.
  free,         \* the free list
  fifo,         \* the queue: nodes with their sizes
  current,      \* CurrentBuffer
  index,        \* CurrentBufferIndex
  left,         \* NbTransmit
  \* The handler and the senders.
  hpc,          \* where the handler is
  causes,       \* its status
  spc, held,    \* each sender's place and node
  \* History: the current buffer's bytes, and the byte the line expects next,
  \* NULL between two buffers.
  size, line

port == <<level, txRaised, txEnabled, rx, rxRaised, pend>>
lists == <<free, fifo>>
buffer == <<current, index, left>>
senders == <<spc, held>>
uartVars == <<port, lists, buffer, hpc, causes, senders, size, line>>

\* OSInitUART
Init ==
  /\ level = 0 /\ txRaised = FALSE /\ txEnabled = FALSE
  /\ rx = 0 /\ rxRaised = FALSE /\ pend = FALSE
  /\ free = Node /\ fifo = <<>>
  /\ current = NULL /\ index = 0 /\ left = 0
  /\ hpc = "out" /\ causes = {}
  /\ spc = [s \in Sender |-> "out"] /\ held = [s \in Sender |-> NULL]
  /\ size = 0 /\ line = NULL

(***************************************************************************)
(* The port shifts a byte out, receives one, and raises its interrupts.    *)
(***************************************************************************)
Shift ==
  /\ level > 0 /\ level' = level - 1
  /\ txRaised' = (txRaised \/ level' = Threshold)
  /\ UNCHANGED <<txEnabled, rx, rxRaised, pend, lists, buffer, hpc, causes, senders,
                 size, line>>

Receive ==
  /\ rx < MaxReceived /\ rx' = rx + 1
  /\ UNCHANGED <<level, txRaised, txEnabled, rxRaised, pend, lists, buffer, hpc, causes,
                 senders, size, line>>

RaiseReceive ==
  /\ rx > 0 /\ ~rxRaised /\ rxRaised' = TRUE
  /\ UNCHANGED <<level, txRaised, txEnabled, rx, pend, lists, buffer, hpc, causes,
                 senders, size, line>>

(***************************************************************************)
(* The senders.                                                            *)
(***************************************************************************)
Runs(s) == hpc = "out" \/ s \in Urgent

OSGetFreeNodeUART(s) ==
  /\ Runs(s) /\ spc[s] = "out"
  /\ \E n \in free :
       /\ free' = free \ {n}
       /\ held' = [held EXCEPT ![s] = n] /\ spc' = [spc EXCEPT ![s] = "fill"]
  /\ UNCHANGED <<port, fifo, buffer, hpc, causes, size, line>>

OSReleaseNodeUART(s) ==
  /\ Runs(s) /\ spc[s] = "fill"
  /\ free' = free \cup {held[s]}
  /\ held' = [held EXCEPT ![s] = NULL] /\ spc' = [spc EXCEPT ![s] = "out"]
  /\ UNCHANGED <<port, fifo, buffer, hpc, causes, size, line>>

\* OSEnqueueUART: the buffer is queued, then the interrupt set pending.
Enqueue(s, dataSize) ==
  /\ Runs(s) /\ spc[s] = "fill"
  /\ fifo' = Append(fifo, <<held[s], dataSize>>)
  /\ held' = [held EXCEPT ![s] = NULL] /\ spc' = [spc EXCEPT ![s] = "pend"]
  /\ UNCHANGED <<port, free, buffer, hpc, causes, size, line>>

\* Mutant of Prime: the transmit interrupt is enabled, as on the STM32.
PrimeByEnabling ==
  /\ txEnabled' = TRUE
  /\ UNCHANGED <<level, txRaised, rx, rxRaised, pend>>

Prime ==
  /\ pend' = TRUE
  /\ UNCHANGED <<level, txRaised, txEnabled, rx, rxRaised>>

SetPending(s) ==
  /\ Runs(s) /\ spc[s] = "pend"
  /\ Prime
  /\ spc' = [spc EXCEPT ![s] = "out"]
  /\ UNCHANGED <<lists, buffer, hpc, causes, held, size, line>>

(***************************************************************************)
(* The interrupt.                                                          *)
(***************************************************************************)
MaskedStatus ==
  {c \in {"tx", "rx"} : IF c = "tx" THEN txRaised /\ txEnabled ELSE rxRaised}

InterruptHandler ==
  /\ hpc = "out" /\ (pend \/ MaskedStatus # {})
  /\ pend' = FALSE /\ causes' = MaskedStatus
  /\ hpc' = IF "rx" \in MaskedStatus THEN "receive" ELSE "clear"
  /\ UNCHANGED <<level, txRaised, txEnabled, rx, rxRaised, lists, buffer, senders, size,
                 line>>

\* UserReceiveInterruptHandler: it takes the byte, and may echo it.
Echo ==
  \/ UNCHANGED <<lists, pend>>
  \/ \E n \in free :
       /\ free' = free \ {n} /\ fifo' = Append(fifo, <<n, 1>>)
       /\ pend' = TRUE

ReceiveByte ==
  /\ hpc = "receive" /\ rx > 0 /\ rx' = rx - 1
  /\ Echo /\ hpc' = "transmit"
  /\ UNCHANGED <<level, txRaised, txEnabled, rxRaised, buffer, causes, senders, size,
                 line>>

ClearReceive ==
  /\ hpc = "receive" /\ rx = 0 /\ rxRaised' = FALSE
  /\ causes' = causes \ {"rx"} /\ hpc' = "clear"
  /\ UNCHANGED <<level, txRaised, txEnabled, rx, pend, lists, buffer, senders, size, line>>

ClearTransmit ==
  /\ hpc = "clear"
  /\ txRaised' = (txRaised /\ "tx" \notin causes)
  /\ hpc' = "transmit"
  /\ UNCHANGED <<level, txEnabled, rx, rxRaised, pend, lists, buffer, causes, senders,
                 size, line>>

Transmit ==
  /\ hpc = "transmit"
  /\ hpc' = IF current = NULL THEN "take" ELSE "push"
  /\ UNCHANGED <<port, lists, buffer, causes, senders, size, line>>

\* Mutant of HoldsNothing: a buffer of no bytes is sent like any other.
HoldsSomething(node) == FALSE

HoldsNothing(node) == node[2] = 0

\* A buffer that holds nothing is released and the next one taken.
TakeNextBuffer ==
  /\ hpc = "take"
  /\ index' = 0
  /\ IF fifo = <<>>
     THEN current' = NULL /\ hpc' = "push" /\ UNCHANGED <<left, size, fifo>>
     ELSE /\ current' = Head(fifo)[1] /\ left' = Head(fifo)[2] /\ size' = left'
          /\ fifo' = Tail(fifo)
          /\ hpc' = IF HoldsNothing(Head(fifo)) THEN "release" ELSE "push"
  /\ UNCHANGED <<port, free, causes, senders, line>>

\* A byte written above the threshold takes the port's interrupt back.
PushByte ==
  /\ hpc = "push" /\ current # NULL /\ level < Depth
  /\ level' = level + 1 /\ txRaised' = (txRaised /\ level' <= Threshold)
  /\ index' = index + 1 /\ left' = (left + CountLimit - 1) % CountLimit
  /\ line' = IF index' = size THEN NULL ELSE <<current, index'>>
  /\ hpc' = IF left' = 0 THEN "release" ELSE "push"
  /\ UNCHANGED <<txEnabled, rx, rxRaised, pend, lists, current, causes, senders, size>>

Release ==
  /\ hpc = "release"
  /\ free' = free \cup {current}
  /\ hpc' = "take"
  /\ UNCHANGED <<port, fifo, buffer, causes, senders, size, line>>

\* The transmit interrupt stays enabled while something is left to send.
MaskTransmit ==
  /\ hpc = "push" /\ (current = NULL \/ level = Depth)
  /\ txEnabled' = (current # NULL)
  /\ IF "rx" \in causes THEN hpc' = "receive" /\ UNCHANGED causes
                         ELSE hpc' = "out" /\ causes' = {}
  /\ UNCHANGED <<level, txRaised, rx, rxRaised, pend, lists, buffer, senders, size, line>>

Next ==
  \/ Shift \/ Receive \/ RaiseReceive
  \/ \E s \in Sender :
       \/ OSGetFreeNodeUART(s) \/ OSReleaseNodeUART(s) \/ SetPending(s)
       \/ \E dataSize \in 0 .. MaxSize : Enqueue(s, dataSize)
  \/ InterruptHandler \/ ReceiveByte \/ ClearReceive \/ ClearTransmit
  \/ Transmit \/ TakeNextBuffer \/ PushByte \/ Release \/ MaskTransmit

Spec == Init /\ [][Next]_uartVars
-----------------------------------------------------------------------------
\* Every variable has its type.
TypeOK ==
  /\ level \in 0 .. Depth /\ txRaised \in BOOLEAN /\ txEnabled \in BOOLEAN
  /\ rx \in 0 .. MaxReceived /\ rxRaised \in BOOLEAN /\ pend \in BOOLEAN
  /\ free \subseteq Node /\ fifo \in Seq(Node \X (0 .. MaxSize))
  /\ current \in Node \cup {NULL} /\ index \in 0 .. MaxSize /\ left \in 0 .. CountLimit - 1
  /\ hpc \in {"out", "receive", "clear", "transmit", "take", "push", "release"}
  /\ causes \subseteq {"tx", "rx"}
  /\ spc \in [Sender -> {"out", "fill", "pend"}]
  /\ held \in [Sender -> Node \cup {NULL}]

(* The line carries whole buffers: a byte written is the next of the       *)
(* buffer begun, or the first of another once that one is complete.        *)
WholeBuffers ==
  [][level' > level =>
       /\ index < size
       /\ line = IF index = 0 THEN NULL ELSE <<current, index>>]_uartVars

(* What is queued is sent: while a buffer waits or is half sent and the    *)
(* handler is out, its interrupt is pending, about to be set so, or raised *)
(* by the bytes still in the port's FIFO as they go out.                   *)
NothingStuck ==
  (fifo # <<>> \/ current # NULL) /\ hpc = "out" =>
    \/ pend \/ \E s \in Sender : spc[s] = "pend"
    \/ txEnabled /\ (txRaised \/ level > Threshold)

(* A node is in one place: free, in a sender's hands, queued, or on its    *)
(* way out.  None is lost, and none is given to two.                       *)
Sending == IF current = NULL \/ hpc = "take" THEN {} ELSE {current}
Queued == {fifo[i][1] : i \in DOMAIN fifo}
Filled == {held[s] : s \in Sender} \ {NULL}

NodesKept ==
  /\ free \cup Queued \cup Filled \cup Sending = Node
  /\ \A i, j \in DOMAIN fifo : fifo[i][1] = fifo[j][1] => i = j
  /\ \A s, t \in Sender : held[s] = held[t] /\ held[s] # NULL => s = t
  /\ free \cap (Queued \cup Filled \cup Sending) = {}
  /\ Queued \cap (Filled \cup Sending) = {} /\ Filled \cap Sending = {}
=============================================================================

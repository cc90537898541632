----------------------------- MODULE SlotBuffer -----------------------------
(***************************************************************************)
(* The part of a slot buffer that does not depend on its slot scheme: the  *)
(* BUFFER_DESCRIPTOR, the filling and numbering of a slot by the writer,   *)
(* the signal that follows, and the reader's two read modes.  FourSlot and *)
(* ThreeSlot instantiate this module and add how a slot is handed over     *)
(* and how the reader gets one.                                            *)
(*                                                                         *)
(* One action is one access to memory the other side can see, so that the  *)
(* writer and the reader interleave as a task and an interrupt do on one   *)
(* core, and as two cores do: the barriers of the code keep the accesses   *)
(* in program order.                                                       *)
(***************************************************************************)
EXTENDS Naturals

CONSTANTS
  Slot,        \* the slots of the buffer
  BufferSize,  \* bytes of a full data item
  MaxWritten   \* bound: the writer stops after that many items

ASSUME BufferSizeAssumption == BufferSize \in Nat \ {0}
ASSUME MaxWrittenAssumption == MaxWritten \in Nat \ {0}

VARIABLES
  items,          \* BufferItems of each slot
  sequence,       \* Sequence of each slot
  currentWriter,  \* CurrentWriter: the slot the writer fills
  status,         \* Status, "init" or "unread"
  written,        \* Written
  lastRead,       \* LastRead
  event,          \* a signal of the event queue is not yet consumed
  wpc, rpc,       \* where the writer and the reader are
  mode,           \* read mode of the current read
  rslot,          \* the slot the reader last got
  held,           \* the reader has not asked for another slot since
  completed,      \* history: number of the last completed write
  floor,          \* history: completed when the current read began
  given           \* history: number of the last slot a read found

descriptor == <<items, sequence, currentWriter, status, written, lastRead>>
reader == <<rpc, mode, rslot, held, floor, given>>

ReadMode == {"once", "multiple"}

(***************************************************************************)
(* The writer.                                                             *)
(***************************************************************************)

(* One byte copied into the current slot.  A call with few bytes returns   *)
(* and a later one goes on: nothing the reader sees tells them apart.      *)
CopyByte ==
  /\ wpc = "copy"
  /\ items[currentWriter] < BufferSize
  /\ items' = [items EXCEPT ![currentWriter] = @ + 1]
  /\ wpc' = IF items[currentWriter] + 1 = BufferSize THEN "number" ELSE "copy"
  /\ UNCHANGED <<sequence, currentWriter, status, written, lastRead, event,
                 completed, reader>>

NumberSlot ==
  /\ wpc = "number"
  /\ written < MaxWritten
  /\ written' = written + 1
  /\ sequence' = [sequence EXCEPT ![currentWriter] = written + 1]
  /\ wpc' = "handover"
  /\ UNCHANGED <<items, currentWriter, status, lastRead, event, completed, reader>>

ClearSlot ==
  /\ wpc = "clear"
  /\ items' = [items EXCEPT ![currentWriter] = 0]
  /\ wpc' = "status"
  /\ UNCHANGED <<sequence, currentWriter, status, written, lastRead, event,
                 completed, reader>>

SetStatus ==
  /\ wpc = "status"
  /\ status' = "unread"
  /\ completed' = written
  /\ wpc' = "signal"
  /\ UNCHANGED <<items, sequence, currentWriter, written, lastRead, event, reader>>

(* Mutant of Signal: a signal nobody waits for is not remembered.          *)
SignalIfWaiting ==
  /\ wpc = "signal"
  /\ event' = (rpc = "suspended")
  /\ wpc' = "copy"
  /\ UNCHANGED <<descriptor, completed, reader>>

Signal ==
  /\ wpc = "signal"
  /\ event' = TRUE
  /\ wpc' = "copy"
  /\ UNCHANGED <<descriptor, completed, reader>>

(***************************************************************************)
(* The reader, a task that reads when it likes or suspends on the event.   *)
(***************************************************************************)

Suspend ==
  /\ rpc = "idle"
  /\ rpc' = "suspended"
  /\ UNCHANGED <<descriptor, event, wpc, completed, mode, rslot, held, floor, given>>

Wake ==
  /\ rpc = "suspended"
  /\ event
  /\ event' = FALSE
  /\ rpc' = "woken"
  /\ UNCHANGED <<descriptor, wpc, completed, mode, rslot, held, floor, given>>

(* The Status test that begins a read; a reader that was woken reads once. *)
BeginRead(m) ==
  /\ rpc \in {"idle", "woken"}
  /\ rpc = "woken" => m = "once"
  /\ mode' = m
  /\ floor' = completed
  /\ rpc' = IF status = "init" THEN "nothing" ELSE "get"
  /\ UNCHANGED <<descriptor, event, wpc, completed, rslot, held, given>>

ReturnNothing ==
  /\ rpc = "nothing"
  /\ rpc' = "idle"
  /\ UNCHANGED <<descriptor, event, wpc, completed, mode, rslot, held, floor, given>>

(* The slot got is compared with the one last read once, and taken.        *)
TakeSlot ==
  /\ rpc = "got"
  /\ given' = sequence[rslot]
  /\ lastRead' = IF mode = "once" THEN sequence[rslot] ELSE lastRead
  /\ rpc' = "idle"
  /\ UNCHANGED <<items, sequence, currentWriter, status, written, event, wpc,
                 completed, mode, rslot, held, floor>>

ReaderStep == ReturnNothing \/ TakeSlot

WriterStep == CopyByte \/ NumberSlot \/ ClearSlot \/ SetStatus \/ Signal

(***************************************************************************)
(* Initial state: OSInitBuffer, with the scheme's first writer slot.       *)
(***************************************************************************)
InitBuffer(first, before) ==
  /\ items = [s \in Slot |-> 0]
  /\ sequence = [s \in Slot |-> 0]
  /\ currentWriter = first
  /\ status = "init"
  /\ written = 0 /\ lastRead = 0
  /\ event = FALSE
  /\ wpc = "copy" /\ rpc = "idle"
  /\ mode = "multiple"
  /\ rslot = before /\ held = FALSE
  /\ completed = 0 /\ floor = 0 /\ given = 0

TypeOKBuffer ==
  /\ items \in [Slot -> 0 .. BufferSize]
  /\ sequence \in [Slot -> 0 .. MaxWritten]
  /\ currentWriter \in Slot /\ rslot \in Slot
  /\ status \in {"init", "unread"}
  /\ written \in 0 .. MaxWritten
  /\ lastRead \in 0 .. MaxWritten
  /\ mode \in ReadMode
  /\ event \in BOOLEAN /\ held \in BOOLEAN
  /\ completed \in 0 .. MaxWritten
  /\ floor \in 0 .. MaxWritten
  /\ given \in 0 .. MaxWritten

(***************************************************************************)
(* Properties both schemes share.                                          *)
(***************************************************************************)

(* The reader and the writer are never in the same slot: while the writer  *)
(* may change its slot, no read holds it.  OSGetReferenceBuffer hands out  *)
(* a pointer, so a slot is held until the reader asks for another one.     *)
NoSharedSlot ==
  (held /\ wpc \in {"copy", "number", "clear"}) => rslot # currentWriter

(* A slot the reader holds is a full data item, numbered as when it was    *)
(* taken: the copy loop of OSGetCopyBuffer never meets a half-filled slot. *)
HeldIntact ==
  held => /\ items[rslot] = BufferSize
          /\ rpc # "got" => sequence[rslot] = given

(* OS_READ_ONLY_ONCE never gives the same item twice nor an older one:     *)
(* LastRead only grows.                                                    *)
ReadOnceAdvances == [][lastRead' # lastRead => lastRead' > lastRead]_lastRead

(* A reader suspended on the buffer's event gets the data written: no      *)
(* completed write is left unread by a reader that sleeps.                 *)
WrittenIsRead ==
  \A n \in 1 .. MaxWritten :
    (completed >= n /\ rpc = "suspended") ~> (given >= n)

(* The history of the buffer, seen as an atomic register.                  *)
Register == INSTANCE SlotRegister WITH
  issued <- written,
  reading <- rpc \notin {"idle", "suspended", "woken"}
=============================================================================

----------------------------- MODULE ThreeSlot ------------------------------
(***************************************************************************)
(* The 3-slot buffer (Chen and Burns) of EscapementHard.c.  The reader     *)
(* asks for a slot by storing NoSlot into Reading; whichever of the two    *)
(* gets there first names the slot, by load-linked and store-conditional.  *)
(*                                                                         *)
(* A reservation is the processor's: it is lost when the other side        *)
(* stores, and it may be lost at any time, to an interrupt or a context    *)
(* switch, so a store-conditional may always fail.                         *)
(***************************************************************************)
EXTENDS SlotBuffer

VARIABLES
  reading,      \* Reading: the slot being read, NoSlot when one is asked for
  latest,       \* Latest: the slot last written
  reservation,  \* who holds a reservation on Reading
  rlatest       \* the Latest the reader is about to store

NoSlot == 3

(* Slot[3] *)
ThreeSlotAssumption == Slot = 0 .. 2

bufferVars == <<items, sequence, currentWriter, status, written, lastRead,
                event, wpc, rpc, mode, rslot, held, completed, floor, given>>
schemeVars == <<reading, latest, reservation, rlatest>>
vars == <<bufferVars, schemeVars>>

Init ==
  /\ InitBuffer(2, 0)
  /\ reading = NoSlot /\ latest = 0
  /\ reservation = {}
  /\ rlatest = 0

(* static const UINT8 next[4][3], indexed by Reading and Latest            *)
NextSlot ==
  << <<1, 2, 1>>, <<2, 2, 0>>, <<1, 0, 0>>, <<1, 2, 0>> >>

(***************************************************************************)
(* The writer's end.                                                       *)
(***************************************************************************)

WriterFrame == UNCHANGED <<items, sequence, status, written, lastRead, event,
                           reader, completed, rlatest>>

(* Latest = CurrentWriterIndex *)
NameSlot ==
  /\ wpc = "handover"
  /\ latest' = currentWriter
  /\ wpc' = "ll"
  /\ UNCHANGED <<currentWriter, reading, reservation>>
  /\ WriterFrame

WriterLL ==
  /\ wpc = "ll"
  /\ reservation' = reservation \cup {"writer"}
  /\ wpc' = IF reading = NoSlot THEN "sc" ELSE "choose"
  /\ UNCHANGED <<currentWriter, reading, latest>>
  /\ WriterFrame

(* The slot is handed to the reader that asks for one.                     *)
WriterSC ==
  /\ wpc = "sc"
  /\ "writer" \in reservation
  /\ reading' = currentWriter
  /\ reservation' = {}
  /\ wpc' = "choose"
  /\ UNCHANGED <<currentWriter, latest>>
  /\ WriterFrame

WriterSCFails ==
  /\ wpc = "sc"
  /\ reservation' = reservation \ {"writer"}
  /\ wpc' = "ll"
  /\ UNCHANGED <<currentWriter, reading, latest>>
  /\ WriterFrame

(* CurrentWriterIndex = next[Reading][Latest] *)
ChooseSlot ==
  /\ wpc = "choose"
  /\ currentWriter' = NextSlot[reading + 1][latest + 1]
  /\ wpc' = "clear"
  /\ UNCHANGED <<reading, latest, reservation>>
  /\ WriterFrame

(***************************************************************************)
(* The reader's end: GetReadyBuffer3Slot.                                  *)
(***************************************************************************)

ReaderFrame == UNCHANGED <<descriptor, event, wpc, completed, mode, floor, given, latest>>

(* Reading = 3: the slot read before is let go *)
AskSlot ==
  /\ rpc = "get"
  /\ reading' = NoSlot
  /\ reservation' = reservation \ {"writer"}
  /\ held' = FALSE
  /\ rpc' = "ll"
  /\ UNCHANGED <<rslot, rlatest>>
  /\ ReaderFrame

ReaderLL ==
  /\ rpc = "ll"
  /\ reservation' = reservation \cup {"reader"}
  /\ rpc' = IF reading = NoSlot THEN "latest" ELSE "slot"
  /\ UNCHANGED <<reading, rslot, held, rlatest>>
  /\ ReaderFrame

LoadLatest ==
  /\ rpc = "latest"
  /\ rlatest' = latest
  /\ rpc' = "sc"
  /\ UNCHANGED <<reading, reservation, rslot, held>>
  /\ ReaderFrame

(* Mutant of ReaderSC: a plain store.                                      *)
ReaderStores ==
  /\ rpc = "sc"
  /\ reading' = rlatest
  /\ reservation' = {}
  /\ rpc' = "slot"
  /\ UNCHANGED <<rslot, held, rlatest>>
  /\ ReaderFrame

ReaderSC ==
  /\ rpc = "sc"
  /\ "reader" \in reservation
  /\ reading' = rlatest
  /\ reservation' = {}
  /\ rpc' = "slot"
  /\ UNCHANGED <<rslot, held, rlatest>>
  /\ ReaderFrame

(* An SC may fail, its reservation taken or not: once more.                *)
ReaderSCFails ==
  /\ rpc = "sc"
  /\ reservation' = reservation \ {"reader"}
  /\ rpc' = "ll"
  /\ UNCHANGED <<reading, rslot, held, rlatest>>
  /\ ReaderFrame

(* return &Slot[Reading] *)
LoadSlot ==
  /\ rpc = "slot"
  /\ rslot' = reading
  /\ held' = TRUE
  /\ rpc' = "got"
  /\ UNCHANGED <<reading, reservation, rlatest>>
  /\ ReaderFrame

Write3Slot == NameSlot \/ WriterLL \/ WriterSC \/ WriterSCFails \/ ChooseSlot
GetReadyBuffer3Slot ==
  AskSlot \/ ReaderLL \/ LoadLatest \/ ReaderSC \/ ReaderSCFails \/ LoadSlot

Buffer == WriterStep \/ ReaderStep \/ Suspend \/ Wake
          \/ \E m \in ReadMode : BeginRead(m)

Next == Write3Slot \/ GetReadyBuffer3Slot \/ (Buffer /\ UNCHANGED schemeVars)

Spec == Init /\ [][Next]_vars

(* As for FourSlot; and interrupts do not come between every LL and its SC *)
(* for ever, so that neither side stays in its loop of retries.            *)
Fairness ==
  /\ WF_vars(Write3Slot \/ ((ClearSlot \/ SetStatus \/ Signal) /\ UNCHANGED schemeVars))
  /\ WF_vars(GetReadyBuffer3Slot \/ (ReaderStep /\ UNCHANGED schemeVars))
  /\ []<>(wpc \notin {"ll", "sc"}) /\ []<>(rpc \notin {"ll", "latest", "sc"})
  /\ WF_vars(Wake /\ UNCHANGED schemeVars)
  /\ WF_vars(rpc = "woken" /\ BeginRead("once") /\ UNCHANGED schemeVars)

FairSpec == Spec /\ Fairness

(* The type invariant of the descriptor, the reader and the scheme.       *)
TypeOK ==
  /\ TypeOKBuffer
  /\ wpc \in {"copy", "number", "handover", "ll", "sc", "choose", "clear", "status", "signal"}
  /\ rpc \in {"idle", "suspended", "woken", "nothing", "get", "ll", "latest", "sc", "slot", "got"}
  /\ reading \in 0 .. NoSlot /\ latest \in Slot /\ rlatest \in Slot
  /\ reservation \subseteq {"writer", "reader"}

(***************************************************************************)
(* The inductive invariant.                                                *)
(***************************************************************************)
Filling == {"copy", "number", "handover", "clear", "status", "signal"}

(* The writer fills a slot that is neither the latest nor the one being    *)
(* read.  A reader whose reservation stands is about to name the latest,   *)
(* or the one before, and then the writer still has to answer it: it will  *)
(* not choose before one of the two has named a slot.                      *)
Separation ==
  /\ wpc \in Filling => currentWriter \notin {latest, reading}
  /\ wpc \in {"ll", "sc", "choose"} => latest = currentWriter
  /\ wpc = "sc" /\ "writer" \in reservation => reading = NoSlot
  /\ rpc \in {"latest", "sc"} /\ "reader" \in reservation => reading = NoSlot
  /\ rpc = "sc" /\ "reader" \in reservation
       => /\ rlatest = latest \/ wpc \in {"ll", "sc"}
          /\ wpc \in Filling => rlatest # currentWriter
  /\ rpc \in {"slot", "got"} => reading # NoSlot
  /\ rpc \in {"ll", "latest", "sc", "slot"} => ~held
  /\ rpc = "got" => held
  /\ held => reading = rslot

(* The writer hands over full slots, and a reader finds only such slots.   *)
Filled ==
  /\ wpc \in {"number", "handover", "ll", "sc", "choose"} => items[currentWriter] = BufferSize
  /\ (status = "unread" \/ wpc \in {"clear", "status"}) => items[latest] = BufferSize
  /\ rpc = "sc" /\ "reader" \in reservation => items[rlatest] = BufferSize
  /\ reading # NoSlot => items[reading] = BufferSize
  /\ rpc \in {"get", "ll", "latest", "sc", "slot", "got"} => status = "unread"

(* The latest slot holds the last item handed over, and nothing newer is   *)
(* to be found.  A slot about to be read is as new as the read began with. *)
Ordered ==
  /\ completed <= written /\ floor <= completed
  /\ wpc \in {"copy", "number", "signal"} => completed = written
  /\ wpc \in {"handover", "ll", "sc", "choose", "clear", "status"} => written = completed + 1
  /\ wpc \in {"handover", "ll", "sc", "choose"} => sequence[currentWriter] = written
  /\ wpc \in {"clear", "status"} => sequence[latest] = written
  /\ completed <= sequence[latest] /\ sequence[latest] <= written
  /\ given <= sequence[latest]
  /\ rpc = "sc" /\ "reader" \in reservation
       => sequence[rlatest] >= floor /\ sequence[rlatest] >= given
          /\ sequence[rlatest] <= sequence[latest]
  /\ rpc \in {"ll", "latest", "sc", "slot", "got"} /\ reading # NoSlot
       => sequence[reading] >= floor /\ sequence[reading] >= given
          /\ sequence[reading] <= sequence[latest]
  /\ lastRead <= given
  /\ status = "init" => completed = 0 /\ given = 0
  /\ rpc = "nothing" => floor = 0 /\ given = 0

Inv == TypeOK /\ NoSharedSlot /\ HeldIntact /\ Separation /\ Filled /\ Ordered

(* Writer and reader never use the same slot, and a 3-slot buffer is an    *)
(* atomic register.                                                        *)
AtomicRegister3 == [](TypeOK /\ NoSharedSlot) /\ Register!Spec
=============================================================================

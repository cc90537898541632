------------------------------ MODULE FourSlot ------------------------------
(***************************************************************************)
(* The 4-slot buffer (Simpson's mechanism) of EscapementHard.c: two pairs  *)
(* of slots.  The writer keeps out of the pair the reader announced, and,  *)
(* within a pair, out of the slot the pair names as its latest.            *)
(***************************************************************************)
EXTENDS SlotBuffer

VARIABLES
  reading,   \* Reading: the pair the reader announced
  latest,    \* Latest: the pair last written
  index,     \* Index: the slot last written in each pair
  rpair      \* the reader's rpair

BIT == 0 .. 1

(* Slot[2][2] *)
ASSUME FourSlotAssumption == Slot = BIT \X BIT

bufferVars == <<items, sequence, currentWriter, status, written, lastRead,
                event, wpc, rpc, mode, rslot, held, completed, floor, given>>
schemeVars == <<reading, latest, index, rpair>>
vars == <<bufferVars, schemeVars>>

Init ==
  /\ InitBuffer(<<1, 1>>, <<0, 0>>)
  /\ reading = 0 /\ latest = 0
  /\ index = [p \in BIT |-> 0]
  /\ rpair = 0

(***************************************************************************)
(* The writer's end: hand the slot over, then choose the next one.         *)
(***************************************************************************)

(* Index[wpair] = CurrentWriterIndex *)
NameSlot ==
  /\ wpc = "handover"
  /\ index' = [index EXCEPT ![currentWriter[1]] = currentWriter[2]]
  /\ wpc' = "latest"
  /\ UNCHANGED <<descriptor, reader, event, completed, reading, latest, rpair>>

(* Latest = wpair *)
NamePair ==
  /\ wpc = "latest"
  /\ latest' = currentWriter[1]
  /\ wpc' = "choose"
  /\ UNCHANGED <<descriptor, reader, event, completed, reading, index, rpair>>

(* Mutants of ChooseSlot: the pairs are used in turn, whatever the reader  *)
(* announced; the slot chosen is the one the pair names.                   *)
ChooseInTurn ==
  /\ wpc = "choose"
  /\ currentWriter' = <<1 - latest, 1 - index[1 - latest]>>
  /\ wpc' = "clear"
  /\ UNCHANGED <<items, sequence, status, written, lastRead, event,
                 reader, completed, schemeVars>>

ChooseNamed ==
  /\ wpc = "choose"
  /\ currentWriter' = <<1 - reading, index[1 - reading]>>
  /\ wpc' = "clear"
  /\ UNCHANGED <<items, sequence, status, written, lastRead, event,
                 reader, completed, schemeVars>>

(* CurrentWriterPair = !Reading, and its slot that is not its latest; only *)
(* the writer stores into Index.                                           *)
ChooseSlot ==
  /\ wpc = "choose"
  /\ currentWriter' = <<1 - reading, 1 - index[1 - reading]>>
  /\ wpc' = "clear"
  /\ UNCHANGED <<items, sequence, status, written, lastRead, event,
                 reader, completed, schemeVars>>

(***************************************************************************)
(* The reader's end: GetReadyBuffer4Slot.                                  *)
(***************************************************************************)

(* rpair = Latest *)
LoadLatest ==
  /\ rpc = "get"
  /\ rpair' = latest
  /\ rpc' = "announce"
  /\ UNCHANGED <<descriptor, event, wpc, completed, mode, rslot, held, floor,
                 given, reading, latest, index>>

(* Reading = rpair: the slot read before is let go *)
Announce ==
  /\ rpc = "announce"
  /\ reading' = rpair
  /\ held' = FALSE
  /\ rpc' = "index"
  /\ UNCHANGED <<descriptor, event, wpc, completed, mode, rslot, floor, given,
                 latest, index, rpair>>

(* rindex = Index[rpair] *)
LoadIndex ==
  /\ rpc = "index"
  /\ rslot' = <<rpair, index[rpair]>>
  /\ held' = TRUE
  /\ rpc' = "got"
  /\ UNCHANGED <<descriptor, event, wpc, completed, mode, floor, given, schemeVars>>

(* Mutant of Write4Slot: the pair is named before its slot.                *)
PairFirst ==
  \/ /\ wpc = "handover"
     /\ latest' = currentWriter[1]
     /\ wpc' = "latest"
     /\ UNCHANGED <<descriptor, reader, event, completed, reading, index, rpair>>
  \/ /\ wpc = "latest"
     /\ index' = [index EXCEPT ![currentWriter[1]] = currentWriter[2]]
     /\ wpc' = "choose"
     /\ UNCHANGED <<descriptor, reader, event, completed, reading, latest, rpair>>
  \/ ChooseSlot

Write4Slot == NameSlot \/ NamePair \/ ChooseSlot
GetReadyBuffer4Slot == LoadLatest \/ Announce \/ LoadIndex

Buffer == WriterStep \/ ReaderStep \/ Suspend \/ Wake
          \/ \E m \in ReadMode : BeginRead(m)

Next == Write4Slot \/ GetReadyBuffer4Slot \/ (Buffer /\ UNCHANGED schemeVars)

Spec == Init /\ [][Next]_vars

(* A call that began ends, and a woken reader reads: the two tasks are     *)
(* released again and again and each has a processor to run on.            *)
Fairness ==
  /\ WF_vars(Write4Slot \/ ((ClearSlot \/ SetStatus \/ Signal) /\ UNCHANGED schemeVars))
  /\ WF_vars(GetReadyBuffer4Slot \/ (ReaderStep /\ UNCHANGED schemeVars))
  /\ WF_vars(Wake /\ UNCHANGED schemeVars)
  /\ WF_vars(rpc = "woken" /\ BeginRead("once") /\ UNCHANGED schemeVars)

FairSpec == Spec /\ Fairness

(* The type invariant of the descriptor, the reader and the scheme.       *)
TypeOK ==
  /\ TypeOKBuffer
  /\ wpc \in {"copy", "number", "handover", "latest", "choose", "clear", "status", "signal"}
  /\ rpc \in {"idle", "suspended", "woken", "nothing", "get", "announce", "index", "got"}
  /\ reading \in BIT /\ latest \in BIT /\ rpair \in BIT
  /\ index \in [BIT -> BIT]

(***************************************************************************)
(* The inductive invariant.                                                *)
(***************************************************************************)
Filling == {"copy", "number", "handover", "clear", "status", "signal"}

(* The writer fills the slot its pair does not name, and a reader that     *)
(* announced the same pair since took the slot it does name.               *)
Separation ==
  /\ wpc \in Filling => currentWriter[2] = 1 - index[currentWriter[1]]
  /\ wpc \in {"latest", "choose"} => currentWriter[2] = index[currentWriter[1]]
  /\ wpc = "choose" => latest = currentWriter[1]
  /\ held => reading = rslot[1]
  /\ rpc = "got" => held
  /\ rpc = "index" => ~held /\ reading = rpair
  /\ (held /\ reading = currentWriter[1] /\ wpc \in Filling)
       => rslot[2] = index[currentWriter[1]]

(* The slot a pair names.                                                  *)
Named(p) == <<p, index[p]>>

(* The writer hands over full slots, and a reader finds only such slots.   *)
Filled ==
  /\ wpc \in {"number", "handover", "latest", "choose"} => items[currentWriter] = BufferSize
  /\ (status = "unread" \/ wpc \in {"choose", "clear", "status"})
       => items[Named(latest)] = BufferSize
  /\ rpc \in {"announce", "index"} => items[Named(rpair)] = BufferSize
  /\ rpc \in {"get", "announce", "index", "got"} => status = "unread"
  /\ held => items[rslot] = BufferSize

(* The latest pair names the last slot handed over, and nothing newer is   *)
(* to be found but in the slot being handed over.  A pair the writer       *)
(* shares with the reader is the latest one: that keeps a reader that      *)
(* already saw the slot being handed over from going back.                 *)
Ordered ==
  /\ completed <= written /\ floor <= completed
  /\ wpc \in {"copy", "number", "signal"} => completed = written
  /\ wpc \in {"handover", "latest", "choose", "clear", "status"} => written = completed + 1
  /\ wpc \in {"handover", "latest", "choose"} => sequence[currentWriter] = written
  /\ wpc \in {"choose", "clear", "status"} => sequence[Named(latest)] = written
  /\ completed <= sequence[Named(latest)]
  /\ \A p \in BIT :
       /\ sequence[Named(p)] <= written
       /\ sequence[Named(p)] <= sequence[Named(latest)]
            \/ (wpc = "latest" /\ p = currentWriter[1])
  /\ currentWriter[1] = reading => latest = reading
  /\ rpc = "announce" /\ rpair # reading => latest = rpair
  /\ rpc \in {"announce", "index"} =>
       /\ sequence[Named(rpair)] >= floor
       /\ sequence[Named(rpair)] >= given
  /\ rpc = "got" => /\ sequence[rslot] >= floor /\ sequence[rslot] >= given
                    /\ sequence[rslot] <= written
                    /\ sequence[rslot] <= sequence[Named(latest)]
  /\ given <= sequence[Named(latest)]
  /\ lastRead <= given
  /\ status = "init" => completed = 0 /\ given = 0
  /\ rpc = "nothing" => floor = 0 /\ given = 0

(* The inductive invariant that exclusion and intactness follow from, with *)
(* what the handover and GetReadyBuffer4Slot keep between their accesses.  *)
Inv == TypeOK /\ NoSharedSlot /\ HeldIntact /\ Separation /\ Filled /\ Ordered

(* A 4-slot buffer is an atomic register.                                  *)
AtomicRegister == Register!Spec
=============================================================================

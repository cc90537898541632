------------------------- MODULE SlotBufferProofs --------------------------
(***************************************************************************)
(* Proofs about the 4-slot buffer and, below, the 3-slot one, for every    *)
(* item size and every number of writes.  Inv, of FourSlot, is inductive;  *)
(* each of its parts is preserved by a lemma with one step per action, and *)
(* from it follow the safety properties and the refinement of the atomic   *)
(* register.                                                               *)
(***************************************************************************)
EXTENDS FourSlot, TLAPS

USE DEF bufferVars, schemeVars, descriptor, reader

(* A step is one of the actions, or changes nothing.                       *)
LEMMA StepCases ==
  ASSUME [Next]_vars
  PROVE  \/ Write4Slot \/ GetReadyBuffer4Slot
         \/ (WriterStep \/ ReaderStep \/ Suspend \/ Wake) /\ UNCHANGED schemeVars
         \/ \E m \in ReadMode : BeginRead(m) /\ UNCHANGED schemeVars
         \/ UNCHANGED vars
  BY DEF Next, Buffer

(* Two slots apart: what the code is after when it picks the pair the      *)
(* reader did not announce and the slot that pair does not name.           *)
LEMMA SeparationApart == TypeOK /\ Separation => NoSharedSlot
  BY FourSlotAssumption
  DEF TypeOK, TypeOKBuffer, Separation, NoSharedSlot, Filling, BIT

LEMMA InitInv == Init => Inv
  <1> SUFFICES ASSUME Init
               PROVE  Inv
    OBVIOUS
  <1> USE BufferSizeAssumption, MaxWrittenAssumption, FourSlotAssumption
      DEF Init, InitBuffer, BIT
  <1>1. TypeOK
    <2>1. event \in BOOLEAN /\ held \in BOOLEAN
      BY Zenon
    <2>2. items \in [Slot -> 0 .. BufferSize] /\ sequence \in [Slot -> 0 .. MaxWritten]
      OBVIOUS
    <2> QED
      BY <2>1, <2>2 DEF TypeOK, TypeOKBuffer, ReadMode
  <1>2. NoSharedSlot /\ HeldIntact /\ Separation
    BY DEF NoSharedSlot, HeldIntact, Separation, Filling
  <1>3. Filled
    BY DEF Filled
  <1>4. Ordered
    BY DEF Ordered, Named
  <1> QED
    BY <1>1, <1>2, <1>3, <1>4 DEF Inv

(* Every step keeps the types.                                             *)
LEMMA TypeStep ==
  ASSUME TypeOK, [Next]_vars
  PROVE  TypeOK'
  <1> USE BufferSizeAssumption, MaxWrittenAssumption, FourSlotAssumption
      DEF BIT, ReadMode, TypeOK, TypeOKBuffer
  <1>1. CASE NameSlot
    BY <1>1 DEF NameSlot
  <1>2. CASE NamePair
    BY <1>2 DEF NamePair
  <1>3. CASE ChooseSlot
    BY <1>3 DEF ChooseSlot
  <1>4. CASE LoadLatest
    BY <1>4 DEF LoadLatest
  <1>5. CASE Announce
    BY <1>5 DEF Announce
  <1>6. CASE LoadIndex
    BY <1>6 DEF LoadIndex
  <1>7. CASE CopyByte /\ UNCHANGED schemeVars
    BY <1>7 DEF CopyByte
  <1>8. CASE NumberSlot /\ UNCHANGED schemeVars
    BY <1>8 DEF NumberSlot
  <1>9. CASE ClearSlot /\ UNCHANGED schemeVars
    BY <1>9 DEF ClearSlot
  <1>10. CASE SetStatus /\ UNCHANGED schemeVars
    BY <1>10 DEF SetStatus
  <1>11. CASE Signal /\ UNCHANGED schemeVars
    BY <1>11 DEF Signal
  <1>12. CASE ReturnNothing /\ UNCHANGED schemeVars
    BY <1>12 DEF ReturnNothing
  <1>13. CASE TakeSlot /\ UNCHANGED schemeVars
    BY <1>13 DEF TakeSlot
  <1>14. CASE Suspend /\ UNCHANGED schemeVars
    BY <1>14 DEF Suspend
  <1>15. CASE Wake /\ UNCHANGED schemeVars
    BY <1>15 DEF Wake
  <1>16. ASSUME NEW m \in ReadMode, BeginRead(m), UNCHANGED schemeVars
         PROVE  TypeOK'
    BY <1>16 DEF BeginRead
  <1>17. CASE UNCHANGED vars
    BY <1>17 DEF vars
  <1> QED
    BY StepCases, <1>1, <1>2, <1>3, <1>4, <1>5, <1>6, <1>7, <1>8, <1>9,
       <1>10, <1>11, <1>12, <1>13, <1>14, <1>15, <1>16, <1>17
    DEF Write4Slot, GetReadyBuffer4Slot, WriterStep, ReaderStep

(* Every step keeps the reader and the writer apart.                       *)
LEMMA SeparationStep ==
  ASSUME TypeOK, Separation, [Next]_vars
  PROVE  Separation'
  <1> USE BufferSizeAssumption, MaxWrittenAssumption, FourSlotAssumption
      DEF BIT, ReadMode, TypeOK, TypeOKBuffer, Separation, Filling
  <1>1. CASE NameSlot
    BY <1>1 DEF NameSlot
  <1>2. CASE NamePair
    BY <1>2 DEF NamePair
  <1>3. CASE ChooseSlot
    BY <1>3 DEF ChooseSlot
  <1>4. CASE LoadLatest
    BY <1>4 DEF LoadLatest
  <1>5. CASE Announce
    BY <1>5 DEF Announce
  <1>6. CASE LoadIndex
    BY <1>6 DEF LoadIndex
  <1>7. CASE CopyByte /\ UNCHANGED schemeVars
    BY <1>7 DEF CopyByte
  <1>8. CASE NumberSlot /\ UNCHANGED schemeVars
    BY <1>8 DEF NumberSlot
  <1>9. CASE ClearSlot /\ UNCHANGED schemeVars
    BY <1>9 DEF ClearSlot
  <1>10. CASE SetStatus /\ UNCHANGED schemeVars
    BY <1>10 DEF SetStatus
  <1>11. CASE Signal /\ UNCHANGED schemeVars
    BY <1>11 DEF Signal
  <1>12. CASE ReturnNothing /\ UNCHANGED schemeVars
    BY <1>12 DEF ReturnNothing
  <1>13. CASE TakeSlot /\ UNCHANGED schemeVars
    BY <1>13 DEF TakeSlot
  <1>14. CASE Suspend /\ UNCHANGED schemeVars
    BY <1>14 DEF Suspend
  <1>15. CASE Wake /\ UNCHANGED schemeVars
    BY <1>15 DEF Wake
  <1>16. ASSUME NEW m \in ReadMode, BeginRead(m), UNCHANGED schemeVars
         PROVE  Separation'
    BY <1>16 DEF BeginRead
  <1>17. CASE UNCHANGED vars
    BY <1>17 DEF vars
  <1> QED
    BY StepCases, <1>1, <1>2, <1>3, <1>4, <1>5, <1>6, <1>7, <1>8, <1>9,
       <1>10, <1>11, <1>12, <1>13, <1>14, <1>15, <1>16, <1>17
    DEF Write4Slot, GetReadyBuffer4Slot, WriterStep, ReaderStep

(* Every step keeps the slots a reader can get full: the writer clears and *)
(* fills only a slot that no pair names and no read holds.                 *)
LEMMA FilledStep ==
  ASSUME TypeOK, NoSharedSlot, Separation, Filled, [Next]_vars
  PROVE  Filled'
  <1> USE BufferSizeAssumption, MaxWrittenAssumption, FourSlotAssumption
      DEF BIT, ReadMode, TypeOK, TypeOKBuffer,
          Separation, Filled, Filling, NoSharedSlot, Named
  <1>1. CASE NameSlot
    BY <1>1 DEF NameSlot
  <1>2. CASE NamePair
    BY <1>2 DEF NamePair
  <1>3. CASE ChooseSlot
    BY <1>3 DEF ChooseSlot
  <1>4. CASE LoadLatest
    BY <1>4 DEF LoadLatest
  <1>5. CASE Announce
    BY <1>5 DEF Announce
  <1>6. CASE LoadIndex
    BY <1>6 DEF LoadIndex
  <1>7. CASE CopyByte /\ UNCHANGED schemeVars
    BY <1>7 DEF CopyByte
  <1>8. CASE NumberSlot /\ UNCHANGED schemeVars
    BY <1>8 DEF NumberSlot
  <1>9. CASE ClearSlot /\ UNCHANGED schemeVars
    BY <1>9 DEF ClearSlot
  <1>10. CASE SetStatus /\ UNCHANGED schemeVars
    BY <1>10 DEF SetStatus
  <1>11. CASE Signal /\ UNCHANGED schemeVars
    BY <1>11 DEF Signal
  <1>12. CASE ReturnNothing /\ UNCHANGED schemeVars
    BY <1>12 DEF ReturnNothing
  <1>13. CASE TakeSlot /\ UNCHANGED schemeVars
    BY <1>13 DEF TakeSlot
  <1>14. CASE Suspend /\ UNCHANGED schemeVars
    BY <1>14 DEF Suspend
  <1>15. CASE Wake /\ UNCHANGED schemeVars
    BY <1>15 DEF Wake
  <1>16. ASSUME NEW m \in ReadMode, BeginRead(m), UNCHANGED schemeVars
         PROVE  Filled'
    BY <1>16 DEF BeginRead
  <1>17. CASE UNCHANGED vars
    BY <1>17 DEF vars
  <1> QED
    BY StepCases, <1>1, <1>2, <1>3, <1>4, <1>5, <1>6, <1>7, <1>8, <1>9,
       <1>10, <1>11, <1>12, <1>13, <1>14, <1>15, <1>16, <1>17
    DEF Write4Slot, GetReadyBuffer4Slot, WriterStep, ReaderStep

(* Every step leaves a slot the reader holds as it found it.               *)
LEMMA HeldIntactStep ==
  ASSUME TypeOK, NoSharedSlot, Separation, Filled, HeldIntact, [Next]_vars
  PROVE  HeldIntact'
  <1> USE BufferSizeAssumption, MaxWrittenAssumption, FourSlotAssumption
      DEF BIT, ReadMode, TypeOK, TypeOKBuffer,
          Separation, HeldIntact, Filled, Filling, NoSharedSlot, Named
  <1>1. CASE NameSlot
    BY <1>1 DEF NameSlot
  <1>2. CASE NamePair
    BY <1>2 DEF NamePair
  <1>3. CASE ChooseSlot
    BY <1>3 DEF ChooseSlot
  <1>4. CASE LoadLatest
    BY <1>4 DEF LoadLatest
  <1>5. CASE Announce
    BY <1>5 DEF Announce
  <1>6. CASE LoadIndex
    BY <1>6 DEF LoadIndex
  <1>7. CASE CopyByte /\ UNCHANGED schemeVars
    BY <1>7 DEF CopyByte
  <1>8. CASE NumberSlot /\ UNCHANGED schemeVars
    BY <1>8 DEF NumberSlot
  <1>9. CASE ClearSlot /\ UNCHANGED schemeVars
    BY <1>9 DEF ClearSlot
  <1>10. CASE SetStatus /\ UNCHANGED schemeVars
    BY <1>10 DEF SetStatus
  <1>11. CASE Signal /\ UNCHANGED schemeVars
    BY <1>11 DEF Signal
  <1>12. CASE ReturnNothing /\ UNCHANGED schemeVars
    BY <1>12 DEF ReturnNothing
  <1>13. CASE TakeSlot /\ UNCHANGED schemeVars
    BY <1>13 DEF TakeSlot
  <1>14. CASE Suspend /\ UNCHANGED schemeVars
    BY <1>14 DEF Suspend
  <1>15. CASE Wake /\ UNCHANGED schemeVars
    BY <1>15 DEF Wake
  <1>16. ASSUME NEW m \in ReadMode, BeginRead(m), UNCHANGED schemeVars
         PROVE  HeldIntact'
    BY <1>16 DEF BeginRead
  <1>17. CASE UNCHANGED vars
    BY <1>17 DEF vars
  <1> QED
    BY StepCases, <1>1, <1>2, <1>3, <1>4, <1>5, <1>6, <1>7, <1>8, <1>9,
       <1>10, <1>11, <1>12, <1>13, <1>14, <1>15, <1>16, <1>17
    DEF Write4Slot, GetReadyBuffer4Slot, WriterStep, ReaderStep

(* Every step keeps the order of the numbers a reader can meet.            *)
LEMMA OrderedStep ==
  ASSUME TypeOK, NoSharedSlot, Separation, Filled, Ordered, [Next]_vars
  PROVE  Ordered'
  <1> USE BufferSizeAssumption, MaxWrittenAssumption, FourSlotAssumption
      DEF BIT, ReadMode, TypeOK, TypeOKBuffer,
          Separation, Filled, Ordered, Filling, NoSharedSlot, Named
  <1>1. CASE NameSlot
    <2> USE <1>1 DEF NameSlot
    <2>1. /\ currentWriter = <<currentWriter[1], currentWriter[2]>>
          /\ currentWriter[1] \in BIT /\ currentWriter[2] \in BIT
      OBVIOUS
    <2>2. /\ Named(currentWriter[1])' = currentWriter
          /\ \A p \in BIT : p # currentWriter[1] => Named(p)' = Named(p)
      BY <2>1
    <2>3. \A s \in Slot : sequence'[s] = sequence[s]
      OBVIOUS
    <2>4. /\ sequence[currentWriter] = written
          /\ sequence[Named(latest)] <= written
      OBVIOUS
    <2> QED
      BY <2>1, <2>2, <2>3, <2>4, SMTT(60)
  <1>2. CASE NamePair
    BY <1>2 DEF NamePair
  <1>3. CASE ChooseSlot
    BY <1>3 DEF ChooseSlot
  <1>4. CASE LoadLatest
    BY <1>4 DEF LoadLatest
  <1>5. CASE Announce
    BY <1>5 DEF Announce
  <1>6. CASE LoadIndex
    BY <1>6 DEF LoadIndex
  <1>7. CASE CopyByte /\ UNCHANGED schemeVars
    BY <1>7 DEF CopyByte
  <1>8. CASE NumberSlot /\ UNCHANGED schemeVars
    BY <1>8 DEF NumberSlot
  <1>9. CASE ClearSlot /\ UNCHANGED schemeVars
    BY <1>9 DEF ClearSlot
  <1>10. CASE SetStatus /\ UNCHANGED schemeVars
    BY <1>10 DEF SetStatus
  <1>11. CASE Signal /\ UNCHANGED schemeVars
    BY <1>11 DEF Signal
  <1>12. CASE ReturnNothing /\ UNCHANGED schemeVars
    BY <1>12 DEF ReturnNothing
  <1>13. CASE TakeSlot /\ UNCHANGED schemeVars
    BY <1>13 DEF TakeSlot
  <1>14. CASE Suspend /\ UNCHANGED schemeVars
    BY <1>14 DEF Suspend
  <1>15. CASE Wake /\ UNCHANGED schemeVars
    BY <1>15 DEF Wake
  <1>16. ASSUME NEW m \in ReadMode, BeginRead(m), UNCHANGED schemeVars
         PROVE  Ordered'
    BY <1>16 DEF BeginRead
  <1>17. CASE UNCHANGED vars
    BY <1>17 DEF vars
  <1> QED
    BY StepCases, <1>1, <1>2, <1>3, <1>4, <1>5, <1>6, <1>7, <1>8, <1>9,
       <1>10, <1>11, <1>12, <1>13, <1>14, <1>15, <1>16, <1>17
    DEF Write4Slot, GetReadyBuffer4Slot, WriterStep, ReaderStep

LEMMA InvStep == Inv /\ [Next]_vars => Inv'
  <1> SUFFICES ASSUME Inv, [Next]_vars
               PROVE  Inv'
    OBVIOUS
  <1>1. TypeOK'
    BY TypeStep DEF Inv
  <1>2. Separation'
    BY SeparationStep DEF Inv
  <1>3. NoSharedSlot'
    BY <1>1, <1>2, SeparationApart, PTL
  <1>4. Filled'
    BY FilledStep DEF Inv
  <1>5. HeldIntact'
    BY HeldIntactStep DEF Inv
  <1>6. Ordered'
    BY OrderedStep DEF Inv
  <1> QED
    BY <1>1, <1>2, <1>3, <1>4, <1>5, <1>6 DEF Inv

(* The inductive invariant of the 4-slot buffer.                           *)
THEOREM Invariance == Spec => []Inv
  BY InitInv, InvStep, PTL DEF Spec

(* Every variable stays in its range.                                      *)
THEOREM TypeCorrect == Spec => []TypeOK
  BY Invariance, PTL DEF Inv

(* OSWriteBuffer never changes the slot a reader was given.                *)
THEOREM Exclusion == Spec => []NoSharedSlot
  BY Invariance, PTL DEF Inv

(* A slot given to a reader is full, and stays the item it was.            *)
THEOREM Intact == Spec => []HeldIntact
  BY Invariance, PTL DEF Inv

(* OS_READ_ONLY_ONCE only moves on to newer items.                         *)
THEOREM ReadOnce == Spec => ReadOnceAdvances
  <1>1. Inv /\ [Next]_vars => [lastRead' # lastRead => lastRead' > lastRead]_lastRead
    <2> SUFFICES ASSUME Inv, [Next]_vars, lastRead' # lastRead
                 PROVE  lastRead' > lastRead
      OBVIOUS
    <2>1. TakeSlot
      BY StepCases DEF Write4Slot, GetReadyBuffer4Slot, WriterStep, ReaderStep, vars,
         NameSlot, NamePair, ChooseSlot, LoadLatest, Announce, LoadIndex, CopyByte,
         NumberSlot, ClearSlot, SetStatus, Signal, ReturnNothing, Suspend, Wake, BeginRead
    <2> QED
      BY <2>1, FourSlotAssumption, MaxWrittenAssumption
      DEF TakeSlot, Inv, Ordered, TypeOK, TypeOKBuffer, BIT
  <1> QED
    BY <1>1, Invariance, PTL DEF Spec, ReadOnceAdvances

(* Every step of the buffer is a step of the register or changes nothing   *)
(* of it: numbering a slot begins a write and Status ends it, the Status   *)
(* test begins a read and the Sequence test ends it.                       *)
LEMMA RegisterStep ==
  ASSUME Inv, [Next]_vars
  PROVE  [Register!Next]_(Register!vars)
  <1> USE FourSlotAssumption, MaxWrittenAssumption
      DEF Inv, TypeOK, TypeOKBuffer, BIT, Ordered, Register!Next, Register!vars
  <1>1. CASE NumberSlot
    BY <1>1 DEF NumberSlot, Register!Issue
  <1>2. CASE SetStatus
    BY <1>2 DEF SetStatus, Register!Complete
  <1>3. ASSUME NEW m \in ReadMode, BeginRead(m)
        PROVE  Register!Start
    BY <1>3 DEF BeginRead, Register!Start
  <1>4. CASE ReturnNothing
    BY <1>4 DEF ReturnNothing, Register!Take
  <1>5. CASE TakeSlot
    BY <1>5 DEF TakeSlot, Register!Take
  <1>6. CASE Write4Slot \/ GetReadyBuffer4Slot
    BY <1>6 DEF Write4Slot, GetReadyBuffer4Slot, NameSlot, NamePair, ChooseSlot,
                LoadLatest, Announce, LoadIndex
  <1>7. CASE CopyByte \/ ClearSlot \/ Signal \/ Suspend \/ Wake \/ UNCHANGED vars
    BY <1>7 DEF CopyByte, ClearSlot, Signal, Suspend, Wake, vars
  <1> QED
    BY StepCases, <1>1, <1>2, <1>3, <1>4, <1>5, <1>6, <1>7 DEF WriterStep, ReaderStep

(* A 4-slot buffer is an atomic register: a read gets the latest item of   *)
(* some moment of the read and never goes back behind an earlier read.     *)
THEOREM Refinement == Spec => AtomicRegister
  <1>1. Init => Register!Init
    BY DEF Init, InitBuffer, Register!Init
  <1> QED
    BY <1>1, RegisterStep, Invariance, PTL DEF Spec, AtomicRegister, Register!Spec

-----------------------------------------------------------------------------
(***************************************************************************)
(* The 3-slot buffer, for a store-conditional that may fail at any time.   *)
(* Its Inv is inductive too; each of its parts is preserved by a lemma     *)
(* with one step per action, and from it follow exclusion and the          *)
(* refinement of the same register.                                        *)
(***************************************************************************)
CONSTANT Slot3   \* the 3-slot buffer's slots

VARIABLES reservation, rlatest

Three == INSTANCE ThreeSlot WITH Slot <- Slot3

USE DEF Three!bufferVars, Three!schemeVars, Three!descriptor, Three!reader

(* A step is one of the actions, or changes nothing.                       *)
LEMMA StepCases3 ==
  ASSUME [Three!Next]_(Three!vars)
  PROVE  \/ Three!Write3Slot \/ Three!GetReadyBuffer3Slot
         \/ (Three!WriterStep \/ Three!ReaderStep \/ Three!Suspend \/ Three!Wake)
            /\ UNCHANGED Three!schemeVars
         \/ \E m \in Three!ReadMode : Three!BeginRead(m) /\ UNCHANGED Three!schemeVars
         \/ UNCHANGED Three!vars
  BY DEF Three!Next, Three!Buffer

(* What the code's table next[4][3] is for: the slot chosen is neither the *)
(* latest nor the one the reader named.                                    *)
LEMMA NextSlotFree ==
  ASSUME NEW r \in 0 .. Three!NoSlot, NEW l \in 0 .. 2
  PROVE  /\ Three!NextSlot[r + 1][l + 1] \in 0 .. 2
         /\ Three!NextSlot[r + 1][l + 1] \notin {r, l}
  BY DEF Three!NextSlot, Three!NoSlot

(* Two slots apart: a slot held is the one being read.                     *)
LEMMA SeparationApart3 == Three!Separation => Three!NoSharedSlot
  BY DEF Three!Separation, Three!NoSharedSlot, Three!Filling

LEMMA InitInv3 ==
  ASSUME Three!ThreeSlotAssumption, Three!Init
  PROVE  Three!Inv
  <1> USE BufferSizeAssumption, MaxWrittenAssumption
      DEF Three!ThreeSlotAssumption, Three!Init, Three!InitBuffer, Three!NoSlot
  <1>1. Three!TypeOK
    <2>1. event \in BOOLEAN /\ held \in BOOLEAN
      BY Zenon
    <2>2. items \in [Slot3 -> 0 .. BufferSize] /\ sequence \in [Slot3 -> 0 .. MaxWritten]
      OBVIOUS
    <2> QED
      BY <2>1, <2>2 DEF Three!TypeOK, Three!TypeOKBuffer, Three!ReadMode
  <1>2. Three!NoSharedSlot /\ Three!HeldIntact /\ Three!Separation
    BY DEF Three!NoSharedSlot, Three!HeldIntact, Three!Separation, Three!Filling
  <1>3. Three!Filled
    BY DEF Three!Filled
  <1>4. Three!Ordered
    BY DEF Three!Ordered
  <1> QED
    BY <1>1, <1>2, <1>3, <1>4 DEF Three!Inv

(* Every step keeps the types.                                             *)
LEMMA TypeStep3 ==
  ASSUME Three!ThreeSlotAssumption, Three!TypeOK, Three!Separation, [Three!Next]_(Three!vars)
  PROVE  Three!TypeOK'
  <1> USE BufferSizeAssumption, MaxWrittenAssumption
      DEF Three!ThreeSlotAssumption, Three!NoSlot, Three!ReadMode, Three!WriterFrame,
          Three!ReaderFrame, Three!TypeOK, Three!TypeOKBuffer
  <1>1. CASE Three!NameSlot
    BY <1>1 DEF Three!NameSlot
  <1>2. CASE Three!WriterLL
    BY <1>2 DEF Three!WriterLL
  <1>3. CASE Three!WriterSC
    BY <1>3 DEF Three!WriterSC
  <1>4. CASE Three!WriterSCFails
    BY <1>4 DEF Three!WriterSCFails
  <1>5. CASE Three!ChooseSlot
    <2>1. currentWriter' \in Slot3 /\ currentWriter' \notin {reading, latest}
      BY <1>5, NextSlotFree DEF Three!ChooseSlot
    <2> QED
      BY <1>5, <2>1 DEF Three!ChooseSlot
  <1>6. CASE Three!AskSlot
    <2>1. held' \in BOOLEAN
      BY <1>6, Zenon DEF Three!AskSlot
    <2> QED
      BY <1>6, <2>1 DEF Three!AskSlot
  <1>7. CASE Three!ReaderLL
    BY <1>7 DEF Three!ReaderLL
  <1>8. CASE Three!LoadLatest
    BY <1>8 DEF Three!LoadLatest
  <1>9. CASE Three!ReaderSC
    BY <1>9 DEF Three!ReaderSC
  <1>10. CASE Three!ReaderSCFails
    BY <1>10 DEF Three!ReaderSCFails
  <1>11. CASE Three!LoadSlot
    <2>1. held' \in BOOLEAN
      BY <1>11, Zenon DEF Three!LoadSlot
    <2> QED
      BY <1>11, <2>1 DEF Three!LoadSlot, Three!Separation
  <1>12. CASE Three!CopyByte /\ UNCHANGED Three!schemeVars
    BY <1>12 DEF Three!CopyByte
  <1>13. CASE Three!NumberSlot /\ UNCHANGED Three!schemeVars
    BY <1>13 DEF Three!NumberSlot
  <1>14. CASE Three!ClearSlot /\ UNCHANGED Three!schemeVars
    BY <1>14 DEF Three!ClearSlot
  <1>15. CASE Three!SetStatus /\ UNCHANGED Three!schemeVars
    BY <1>15 DEF Three!SetStatus
  <1>16. CASE Three!Signal /\ UNCHANGED Three!schemeVars
    BY <1>16 DEF Three!Signal
  <1>17. CASE Three!ReturnNothing /\ UNCHANGED Three!schemeVars
    BY <1>17 DEF Three!ReturnNothing
  <1>18. CASE Three!TakeSlot /\ UNCHANGED Three!schemeVars
    BY <1>18 DEF Three!TakeSlot
  <1>19. CASE Three!Suspend /\ UNCHANGED Three!schemeVars
    BY <1>19 DEF Three!Suspend
  <1>20. CASE Three!Wake /\ UNCHANGED Three!schemeVars
    BY <1>20 DEF Three!Wake
  <1>21. ASSUME NEW m \in Three!ReadMode, Three!BeginRead(m), UNCHANGED Three!schemeVars
         PROVE  Three!TypeOK'
    BY <1>21 DEF Three!BeginRead
  <1>22. CASE UNCHANGED Three!vars
    BY <1>22 DEF Three!vars
  <1> QED
    BY StepCases3, <1>1, <1>2, <1>3, <1>4, <1>5, <1>6, <1>7, <1>8, <1>9, <1>10,
       <1>11, <1>12, <1>13, <1>14, <1>15, <1>16, <1>17, <1>18, <1>19, <1>20, <1>21, <1>22
    DEF Three!Write3Slot, Three!GetReadyBuffer3Slot, Three!WriterStep, Three!ReaderStep

(* Every step keeps the reader and the writer apart.                       *)
LEMMA SeparationStep3 ==
  ASSUME Three!ThreeSlotAssumption, Three!TypeOK, Three!Separation, [Three!Next]_(Three!vars)
  PROVE  Three!Separation'
  <1> USE BufferSizeAssumption, MaxWrittenAssumption
      DEF Three!ThreeSlotAssumption, Three!NoSlot, Three!ReadMode, Three!WriterFrame,
          Three!ReaderFrame, Three!TypeOK, Three!TypeOKBuffer,
          Three!Separation, Three!Filling
  <1>1. CASE Three!NameSlot
    BY <1>1 DEF Three!NameSlot
  <1>2. CASE Three!WriterLL
    BY <1>2 DEF Three!WriterLL
  <1>3. CASE Three!WriterSC
    BY <1>3 DEF Three!WriterSC
  <1>4. CASE Three!WriterSCFails
    BY <1>4 DEF Three!WriterSCFails
  <1>5. CASE Three!ChooseSlot
    <2>1. currentWriter' \in Slot3 /\ currentWriter' \notin {reading, latest}
      BY <1>5, NextSlotFree DEF Three!ChooseSlot
    <2> QED
      BY <1>5, <2>1 DEF Three!ChooseSlot
  <1>6. CASE Three!AskSlot
    BY <1>6 DEF Three!AskSlot
  <1>7. CASE Three!ReaderLL
    BY <1>7 DEF Three!ReaderLL
  <1>8. CASE Three!LoadLatest
    BY <1>8 DEF Three!LoadLatest
  <1>9. CASE Three!ReaderSC
    BY <1>9 DEF Three!ReaderSC
  <1>10. CASE Three!ReaderSCFails
    BY <1>10 DEF Three!ReaderSCFails
  <1>11. CASE Three!LoadSlot
    BY <1>11 DEF Three!LoadSlot
  <1>12. CASE Three!CopyByte /\ UNCHANGED Three!schemeVars
    BY <1>12 DEF Three!CopyByte
  <1>13. CASE Three!NumberSlot /\ UNCHANGED Three!schemeVars
    BY <1>13 DEF Three!NumberSlot
  <1>14. CASE Three!ClearSlot /\ UNCHANGED Three!schemeVars
    BY <1>14 DEF Three!ClearSlot
  <1>15. CASE Three!SetStatus /\ UNCHANGED Three!schemeVars
    BY <1>15 DEF Three!SetStatus
  <1>16. CASE Three!Signal /\ UNCHANGED Three!schemeVars
    BY <1>16 DEF Three!Signal
  <1>17. CASE Three!ReturnNothing /\ UNCHANGED Three!schemeVars
    BY <1>17 DEF Three!ReturnNothing
  <1>18. CASE Three!TakeSlot /\ UNCHANGED Three!schemeVars
    BY <1>18 DEF Three!TakeSlot
  <1>19. CASE Three!Suspend /\ UNCHANGED Three!schemeVars
    BY <1>19 DEF Three!Suspend
  <1>20. CASE Three!Wake /\ UNCHANGED Three!schemeVars
    BY <1>20 DEF Three!Wake
  <1>21. ASSUME NEW m \in Three!ReadMode, Three!BeginRead(m), UNCHANGED Three!schemeVars
         PROVE  Three!Separation'
    BY <1>21 DEF Three!BeginRead
  <1>22. CASE UNCHANGED Three!vars
    BY <1>22 DEF Three!vars
  <1> QED
    BY StepCases3, <1>1, <1>2, <1>3, <1>4, <1>5, <1>6, <1>7, <1>8, <1>9, <1>10,
       <1>11, <1>12, <1>13, <1>14, <1>15, <1>16, <1>17, <1>18, <1>19, <1>20, <1>21, <1>22
    DEF Three!Write3Slot, Three!GetReadyBuffer3Slot, Three!WriterStep, Three!ReaderStep

(* Every step keeps the slots a reader can get full.                       *)
LEMMA FilledStep3 ==
  ASSUME Three!ThreeSlotAssumption, Three!TypeOK, Three!Separation, Three!Filled,
         [Three!Next]_(Three!vars)
  PROVE  Three!Filled'
  <1> USE BufferSizeAssumption, MaxWrittenAssumption
      DEF Three!ThreeSlotAssumption, Three!NoSlot, Three!ReadMode, Three!WriterFrame,
          Three!ReaderFrame, Three!TypeOK, Three!TypeOKBuffer,
          Three!Separation, Three!Filling, Three!Filled
  <1>1. CASE Three!NameSlot
    BY <1>1 DEF Three!NameSlot
  <1>2. CASE Three!WriterLL
    BY <1>2 DEF Three!WriterLL
  <1>3. CASE Three!WriterSC
    BY <1>3 DEF Three!WriterSC
  <1>4. CASE Three!WriterSCFails
    BY <1>4 DEF Three!WriterSCFails
  <1>5. CASE Three!ChooseSlot
    <2>1. currentWriter' \in Slot3 /\ currentWriter' \notin {reading, latest}
      BY <1>5, NextSlotFree DEF Three!ChooseSlot
    <2> QED
      BY <1>5, <2>1 DEF Three!ChooseSlot
  <1>6. CASE Three!AskSlot
    BY <1>6 DEF Three!AskSlot
  <1>7. CASE Three!ReaderLL
    BY <1>7 DEF Three!ReaderLL
  <1>8. CASE Three!LoadLatest
    BY <1>8 DEF Three!LoadLatest
  <1>9. CASE Three!ReaderSC
    BY <1>9 DEF Three!ReaderSC
  <1>10. CASE Three!ReaderSCFails
    BY <1>10 DEF Three!ReaderSCFails
  <1>11. CASE Three!LoadSlot
    BY <1>11 DEF Three!LoadSlot
  <1>12. CASE Three!CopyByte /\ UNCHANGED Three!schemeVars
    BY <1>12 DEF Three!CopyByte
  <1>13. CASE Three!NumberSlot /\ UNCHANGED Three!schemeVars
    BY <1>13 DEF Three!NumberSlot
  <1>14. CASE Three!ClearSlot /\ UNCHANGED Three!schemeVars
    BY <1>14 DEF Three!ClearSlot
  <1>15. CASE Three!SetStatus /\ UNCHANGED Three!schemeVars
    BY <1>15 DEF Three!SetStatus
  <1>16. CASE Three!Signal /\ UNCHANGED Three!schemeVars
    BY <1>16 DEF Three!Signal
  <1>17. CASE Three!ReturnNothing /\ UNCHANGED Three!schemeVars
    BY <1>17 DEF Three!ReturnNothing
  <1>18. CASE Three!TakeSlot /\ UNCHANGED Three!schemeVars
    BY <1>18 DEF Three!TakeSlot
  <1>19. CASE Three!Suspend /\ UNCHANGED Three!schemeVars
    BY <1>19 DEF Three!Suspend
  <1>20. CASE Three!Wake /\ UNCHANGED Three!schemeVars
    BY <1>20 DEF Three!Wake
  <1>21. ASSUME NEW m \in Three!ReadMode, Three!BeginRead(m), UNCHANGED Three!schemeVars
         PROVE  Three!Filled'
    BY <1>21 DEF Three!BeginRead
  <1>22. CASE UNCHANGED Three!vars
    BY <1>22 DEF Three!vars
  <1> QED
    BY StepCases3, <1>1, <1>2, <1>3, <1>4, <1>5, <1>6, <1>7, <1>8, <1>9, <1>10,
       <1>11, <1>12, <1>13, <1>14, <1>15, <1>16, <1>17, <1>18, <1>19, <1>20, <1>21, <1>22
    DEF Three!Write3Slot, Three!GetReadyBuffer3Slot, Three!WriterStep, Three!ReaderStep

(* Every step leaves a slot the reader holds as it found it.               *)
LEMMA HeldIntactStep3 ==
  ASSUME Three!ThreeSlotAssumption, Three!TypeOK, Three!Separation, Three!Filled,
         Three!HeldIntact, [Three!Next]_(Three!vars)
  PROVE  Three!HeldIntact'
  <1> USE BufferSizeAssumption, MaxWrittenAssumption
      DEF Three!ThreeSlotAssumption, Three!NoSlot, Three!ReadMode, Three!WriterFrame,
          Three!ReaderFrame, Three!TypeOK, Three!TypeOKBuffer,
          Three!Separation, Three!Filling, Three!Filled, Three!HeldIntact
  <1>1. CASE Three!NameSlot
    BY <1>1 DEF Three!NameSlot
  <1>2. CASE Three!WriterLL
    BY <1>2 DEF Three!WriterLL
  <1>3. CASE Three!WriterSC
    BY <1>3 DEF Three!WriterSC
  <1>4. CASE Three!WriterSCFails
    BY <1>4 DEF Three!WriterSCFails
  <1>5. CASE Three!ChooseSlot
    <2>1. currentWriter' \in Slot3 /\ currentWriter' \notin {reading, latest}
      BY <1>5, NextSlotFree DEF Three!ChooseSlot
    <2> QED
      BY <1>5, <2>1 DEF Three!ChooseSlot
  <1>6. CASE Three!AskSlot
    BY <1>6 DEF Three!AskSlot
  <1>7. CASE Three!ReaderLL
    BY <1>7 DEF Three!ReaderLL
  <1>8. CASE Three!LoadLatest
    BY <1>8 DEF Three!LoadLatest
  <1>9. CASE Three!ReaderSC
    BY <1>9 DEF Three!ReaderSC
  <1>10. CASE Three!ReaderSCFails
    BY <1>10 DEF Three!ReaderSCFails
  <1>11. CASE Three!LoadSlot
    BY <1>11 DEF Three!LoadSlot
  <1>12. CASE Three!CopyByte /\ UNCHANGED Three!schemeVars
    BY <1>12 DEF Three!CopyByte
  <1>13. CASE Three!NumberSlot /\ UNCHANGED Three!schemeVars
    BY <1>13 DEF Three!NumberSlot
  <1>14. CASE Three!ClearSlot /\ UNCHANGED Three!schemeVars
    BY <1>14 DEF Three!ClearSlot
  <1>15. CASE Three!SetStatus /\ UNCHANGED Three!schemeVars
    BY <1>15 DEF Three!SetStatus
  <1>16. CASE Three!Signal /\ UNCHANGED Three!schemeVars
    BY <1>16 DEF Three!Signal
  <1>17. CASE Three!ReturnNothing /\ UNCHANGED Three!schemeVars
    BY <1>17 DEF Three!ReturnNothing
  <1>18. CASE Three!TakeSlot /\ UNCHANGED Three!schemeVars
    BY <1>18 DEF Three!TakeSlot
  <1>19. CASE Three!Suspend /\ UNCHANGED Three!schemeVars
    BY <1>19 DEF Three!Suspend
  <1>20. CASE Three!Wake /\ UNCHANGED Three!schemeVars
    BY <1>20 DEF Three!Wake
  <1>21. ASSUME NEW m \in Three!ReadMode, Three!BeginRead(m), UNCHANGED Three!schemeVars
         PROVE  Three!HeldIntact'
    BY <1>21 DEF Three!BeginRead
  <1>22. CASE UNCHANGED Three!vars
    BY <1>22 DEF Three!vars
  <1> QED
    BY StepCases3, <1>1, <1>2, <1>3, <1>4, <1>5, <1>6, <1>7, <1>8, <1>9, <1>10,
       <1>11, <1>12, <1>13, <1>14, <1>15, <1>16, <1>17, <1>18, <1>19, <1>20, <1>21, <1>22
    DEF Three!Write3Slot, Three!GetReadyBuffer3Slot, Three!WriterStep, Three!ReaderStep

(* Every step keeps the order of the numbers a reader can meet.            *)
LEMMA OrderedStep3 ==
  ASSUME Three!ThreeSlotAssumption, Three!TypeOK, Three!Separation, Three!Filled, Three!Ordered,
         [Three!Next]_(Three!vars)
  PROVE  Three!Ordered'
  <1> USE BufferSizeAssumption, MaxWrittenAssumption
      DEF Three!ThreeSlotAssumption, Three!NoSlot, Three!ReadMode, Three!WriterFrame,
          Three!ReaderFrame, Three!TypeOK, Three!TypeOKBuffer,
          Three!Separation, Three!Filling, Three!Filled, Three!Ordered
  <1>1. CASE Three!NameSlot
    BY <1>1 DEF Three!NameSlot
  <1>2. CASE Three!WriterLL
    BY <1>2 DEF Three!WriterLL
  <1>3. CASE Three!WriterSC
    BY <1>3 DEF Three!WriterSC
  <1>4. CASE Three!WriterSCFails
    BY <1>4 DEF Three!WriterSCFails
  <1>5. CASE Three!ChooseSlot
    <2>1. currentWriter' \in Slot3 /\ currentWriter' \notin {reading, latest}
      BY <1>5, NextSlotFree DEF Three!ChooseSlot
    <2> QED
      BY <1>5, <2>1 DEF Three!ChooseSlot
  <1>6. CASE Three!AskSlot
    BY <1>6 DEF Three!AskSlot
  <1>7. CASE Three!ReaderLL
    BY <1>7 DEF Three!ReaderLL
  <1>8. CASE Three!LoadLatest
    BY <1>8 DEF Three!LoadLatest
  <1>9. CASE Three!ReaderSC
    BY <1>9 DEF Three!ReaderSC
  <1>10. CASE Three!ReaderSCFails
    BY <1>10 DEF Three!ReaderSCFails
  <1>11. CASE Three!LoadSlot
    BY <1>11 DEF Three!LoadSlot
  <1>12. CASE Three!CopyByte /\ UNCHANGED Three!schemeVars
    BY <1>12 DEF Three!CopyByte
  <1>13. CASE Three!NumberSlot /\ UNCHANGED Three!schemeVars
    BY <1>13 DEF Three!NumberSlot
  <1>14. CASE Three!ClearSlot /\ UNCHANGED Three!schemeVars
    BY <1>14 DEF Three!ClearSlot
  <1>15. CASE Three!SetStatus /\ UNCHANGED Three!schemeVars
    BY <1>15 DEF Three!SetStatus
  <1>16. CASE Three!Signal /\ UNCHANGED Three!schemeVars
    BY <1>16 DEF Three!Signal
  <1>17. CASE Three!ReturnNothing /\ UNCHANGED Three!schemeVars
    BY <1>17 DEF Three!ReturnNothing
  <1>18. CASE Three!TakeSlot /\ UNCHANGED Three!schemeVars
    BY <1>18 DEF Three!TakeSlot
  <1>19. CASE Three!Suspend /\ UNCHANGED Three!schemeVars
    BY <1>19 DEF Three!Suspend
  <1>20. CASE Three!Wake /\ UNCHANGED Three!schemeVars
    BY <1>20 DEF Three!Wake
  <1>21. ASSUME NEW m \in Three!ReadMode, Three!BeginRead(m), UNCHANGED Three!schemeVars
         PROVE  Three!Ordered'
    BY <1>21 DEF Three!BeginRead
  <1>22. CASE UNCHANGED Three!vars
    BY <1>22 DEF Three!vars
  <1> QED
    BY StepCases3, <1>1, <1>2, <1>3, <1>4, <1>5, <1>6, <1>7, <1>8, <1>9, <1>10,
       <1>11, <1>12, <1>13, <1>14, <1>15, <1>16, <1>17, <1>18, <1>19, <1>20, <1>21, <1>22
    DEF Three!Write3Slot, Three!GetReadyBuffer3Slot, Three!WriterStep, Three!ReaderStep

LEMMA InvStep3 ==
  ASSUME Three!ThreeSlotAssumption
  PROVE  Three!Inv /\ [Three!Next]_(Three!vars) => Three!Inv'
  <1> SUFFICES ASSUME Three!Inv, [Three!Next]_(Three!vars)
               PROVE  Three!Inv'
    OBVIOUS
  <1>1. Three!TypeOK'
    BY TypeStep3 DEF Three!Inv
  <1>2. Three!Separation'
    BY SeparationStep3 DEF Three!Inv
  <1>3. Three!NoSharedSlot'
    BY <1>2, SeparationApart3, PTL
  <1>4. Three!Filled'
    BY FilledStep3 DEF Three!Inv
  <1>5. Three!HeldIntact'
    BY HeldIntactStep3 DEF Three!Inv
  <1>6. Three!Ordered'
    BY OrderedStep3 DEF Three!Inv
  <1> QED
    BY <1>1, <1>2, <1>3, <1>4, <1>5, <1>6 DEF Three!Inv

(* The inductive invariant of the 3-slot buffer, which has three slots.    *)
THEOREM Invariance3 ==
  ASSUME Three!ThreeSlotAssumption
  PROVE  Three!Spec => []Three!Inv
  <1>1. Three!Init => Three!Inv
    BY InitInv3
  <1>2. Three!Inv /\ [Three!Next]_(Three!vars) => Three!Inv'
    BY InvStep3
  <1> QED
    BY <1>1, <1>2, PTL DEF Three!Spec

(* The writer never changes a slot a reader was given, and such a slot is  *)
(* full and stays the item it was.                                         *)
THEOREM Exclusion3 ==
  ASSUME Three!ThreeSlotAssumption
  PROVE  Three!Spec => [](Three!TypeOK /\ Three!NoSharedSlot /\ Three!HeldIntact)
  <1>1. Three!Inv => Three!TypeOK /\ Three!NoSharedSlot /\ Three!HeldIntact
    BY DEF Three!Inv
  <1> QED
    BY <1>1, Invariance3, PTL

(* Every step of the buffer is a step of the register or changes nothing   *)
(* of it.                                                                  *)
LEMMA RegisterStep3 ==
  ASSUME Three!ThreeSlotAssumption, Three!Inv, [Three!Next]_(Three!vars)
  PROVE  [Three!Register!Next]_(Three!Register!vars)
  <1> USE MaxWrittenAssumption
      DEF Three!Inv, Three!TypeOK, Three!TypeOKBuffer, Three!ThreeSlotAssumption, Three!NoSlot,
          Three!Separation, Three!Ordered,
          Three!WriterFrame, Three!ReaderFrame, Three!Register!Next, Three!Register!vars
  <1>1. CASE Three!NumberSlot
    BY <1>1 DEF Three!NumberSlot, Three!Register!Issue
  <1>2. CASE Three!SetStatus
    BY <1>2 DEF Three!SetStatus, Three!Register!Complete
  <1>3. ASSUME NEW m \in Three!ReadMode, Three!BeginRead(m)
        PROVE  Three!Register!Start
    BY <1>3 DEF Three!BeginRead, Three!Register!Start
  <1>4. CASE Three!ReturnNothing
    BY <1>4 DEF Three!ReturnNothing, Three!Register!Take
  <1>5. CASE Three!TakeSlot
    BY <1>5 DEF Three!TakeSlot, Three!Register!Take
  <1>6. CASE Three!Write3Slot
    BY <1>6 DEF Three!Write3Slot, Three!NameSlot, Three!WriterLL, Three!WriterSC,
                Three!WriterSCFails, Three!ChooseSlot
  <1>7. CASE Three!GetReadyBuffer3Slot
    BY <1>7 DEF Three!GetReadyBuffer3Slot, Three!AskSlot, Three!ReaderLL, Three!LoadLatest,
                Three!ReaderSC,
                Three!ReaderSCFails, Three!LoadSlot
  <1>8. CASE Three!CopyByte \/ Three!ClearSlot \/ Three!Signal \/ Three!Suspend \/ Three!Wake
            \/ UNCHANGED Three!vars
    BY <1>8 DEF Three!CopyByte, Three!ClearSlot, Three!Signal, Three!Suspend, Three!Wake, Three!vars
  <1> QED
    BY StepCases3, <1>1, <1>2, <1>3, <1>4, <1>5, <1>6, <1>7, <1>8
       DEF Three!WriterStep, Three!ReaderStep

(* A 3-slot buffer is an atomic register: a read gets the latest item of   *)
(* some moment of the read and never goes back behind an earlier read.     *)
THEOREM Refinement3 ==
  ASSUME Three!ThreeSlotAssumption
  PROVE  Three!Spec => Three!AtomicRegister3
  <1>1. Three!Init => Three!Register!Init
    BY DEF Three!Init, Three!InitBuffer, Three!Register!Init
  <1>2. Three!Inv /\ [Three!Next]_(Three!vars) => [Three!Register!Next]_(Three!Register!vars)
    BY RegisterStep3
  <1> QED
    BY <1>1, <1>2, Invariance3, Exclusion3, PTL
       DEF Three!Spec, Three!AtomicRegister3, Three!Register!Spec
=============================================================================
